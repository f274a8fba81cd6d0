----------------------------- MODULE DrawerProofs -----------------------------
(***************************************************************************)
(* What drawing shows, for every list of commands, size of picture and     *)
(* number of pictures, cached or not, on every platform.                   *)
(***************************************************************************)
EXTENDS Drawer, TLAPS

-----------------------------------------------------------------------------
(* Rectangles.                                                             *)

LEMMA WordBounds == MaxS16 \in Nat /\ MaxS16 >= 1
BY DEF MaxS16

Sizes == [w : 1..MaxS16, h : 1..MaxS16]

LEMMA CanvasSizes ==
  ASSUME NEW on \in {"frame", "copy"}
  PROVE  Canvas(on) \in Sizes
<1>1. FrameSize \in [width : 1..MaxS16, height : 1..MaxS16, rows : 1..MaxS16]
  BY DrawerAssumption DEF DrawerAssumption
<1>2. FrameSize.width \in 1..MaxS16 /\ FrameSize.height \in 1..MaxS16 /\ FrameSize.rows \in 1..MaxS16
  BY <1>1
<1> QED
  BY <1>2 DEF Canvas, CanvasAxcl, CanvasByUvOffset, Sizes

(* What is left of one side of a rectangle, from first to last.            *)
LEMMA ClampedSide ==
  ASSUME NEW x \in Int, NEW width \in Nat, NEW t \in Nat, NEW w \in Nat
  PROVE  LET x0 == Larger(x, t)
             x1 == Smaller(x + width, w - t)
         IN  /\ width = 0 \/ x1 - x0 < 1 <=> ~\E i \in t..(w - t - 1) : x <= i /\ i < x + width
             /\ x0 - t >= 0 /\ x1 + t <= w
<1> DEFINE x0 == Larger(x, t)
           x1 == Smaller(x + width, w - t)
           Inside(i) == i \in t..(w - t - 1) /\ x <= i /\ i < x + width
<1>1. /\ x0 \in Int /\ x0 >= x /\ x0 >= t /\ (x0 = x \/ x0 = t)
      /\ x1 \in Int /\ x1 <= x + width /\ x1 <= w - t /\ (x1 = x + width \/ x1 = w - t)
  BY DEF Larger, Smaller
<1> HIDE DEF x0, x1
<1>2. ASSUME ~(width = 0 \/ x1 - x0 < 1) PROVE Inside(x0)
  BY <1>1, <1>2
<1>3. ASSUME NEW i, Inside(i) PROVE ~(width = 0 \/ x1 - x0 < 1)
  BY <1>1, <1>3
<1>4. x0 - t >= 0 /\ x1 + t <= w
  BY <1>1
<1> QED
  BY <1>2, <1>3, <1>4 DEF x0, x1

(* Clamping never makes a rectangle that the driver has to refuse, and     *)
(* only rectangles without a visible part are skipped: what the comment in *)
(* the code says of full-frame, edge-touching and off-screen boxes.        *)
THEOREM ClampedRectsFit ==
  ASSUME NEW r \in Rects, NEW c \in Sizes
  PROVE  /\ ~Skipped(r, c) => Legal(Clamp(r, c), r.thickness, c)
         /\ Skipped(r, c) <=> ~Visible(r, c)
<1>1. /\ r.x \in Int /\ r.y \in Int /\ r.width \in Nat /\ r.height \in Nat /\ r.thickness \in Nat
      /\ c.w \in Nat /\ c.h \in Nat
  <2>1. c.w \in 1..MaxS16 /\ c.h \in 1..MaxS16
    BY DEF Sizes
  <2> QED
    BY <2>1, WordBounds DEF Rects
<1> DEFINE k == Clamp(r, c)
           t == r.thickness
<1>2. /\ r.width = 0 \/ k.x1 - k.x0 < 1 <=> ~\E i \in t..(c.w - t - 1) : r.x <= i /\ i < r.x + r.width
      /\ k.x0 - t >= 0 /\ k.x1 + t <= c.w
  BY <1>1, ClampedSide DEF Clamp
<1>3. /\ r.height = 0 \/ k.y1 - k.y0 < 1 <=> ~\E i \in t..(c.h - t - 1) : r.y <= i /\ i < r.y + r.height
      /\ k.y0 - t >= 0 /\ k.y1 + t <= c.h
  BY <1>1, ClampedSide DEF Clamp
<1>4. Legal(k, t, c)
  BY <1>2, <1>3 DEF Legal
<1>5. Skipped(r, c) <=> (r.width = 0 \/ k.x1 - k.x0 < 1) \/ (r.height = 0 \/ k.y1 - k.y0 < 1)
  BY DEF Skipped
<1>6. Visible(r, c) <=> /\ \E i \in t..(c.w - t - 1) : r.x <= i /\ i < r.x + r.width
                        /\ \E i \in t..(c.h - t - 1) : r.y <= i /\ i < r.y + r.height
  BY DEF Visible
<1> QED
  BY <1>2, <1>3, <1>4, <1>5, <1>6

-----------------------------------------------------------------------------
(* Marks.                                                                  *)

(* A mark above all others keeps them in order.                            *)
LEMMA MarkAdded ==
  ASSUME NEW s \in Seq(Nat), NEW m \in Nat, Ascending(s), \A n \in Range(s) : n < m
  PROVE  Append(s, m) \in Seq(Nat) /\ Ascending(Append(s, m)) /\ Range(Append(s, m)) = Range(s) \cup {m}
<1> DEFINE t == Append(s, m)
<1>1. /\ t \in Seq(Nat) /\ Len(t) = Len(s) + 1 /\ t[Len(s) + 1] = m
      /\ \A i \in 1..Len(s) : t[i] = s[i]
      /\ DOMAIN t = 1..(Len(s) + 1) /\ DOMAIN s = 1..Len(s) /\ Len(s) \in Nat
  OBVIOUS
<1>2. \A i \in 1..Len(s) : s[i] \in Range(s) /\ s[i] \in Nat
  BY <1>1 DEF Range
<1> HIDE DEF t
<1>3. ASSUME NEW i \in DOMAIN t, NEW j \in DOMAIN t, i < j PROVE t[i] < t[j]
  <2>1. i \in 1..Len(s) /\ j \in 1..(Len(s) + 1)
    BY <1>1, <1>3
  <2>2. CASE j = Len(s) + 1
    BY <2>1, <2>2, <1>1, <1>2
  <2>3. CASE j # Len(s) + 1
    <3>1. i \in DOMAIN s /\ j \in DOMAIN s
      BY <2>1, <2>3, <1>1
    <3> QED
      BY <3>1, <1>1, <1>3 DEF Ascending
  <2> QED
    BY <2>2, <2>3
<1>4. Range(t) = Range(s) \cup {m}
  BY <1>1 DEF Range
<1>5. Ascending(t)
  BY <1>3 DEF Ascending
<1> QED
  BY <1>1, <1>4, <1>5 DEF t

LEMMA NoMarks == <<>> \in Seq(Nat) /\ Ascending(<<>>) /\ Range(<<>>) = {}
BY DEF Ascending, Range

LEMMA StrokesOfFrame ==
  ASSUME NEW f \in Frames
  PROVE  /\ Strokes(f) \in Seq(Paths \cup Rects)
         /\ Len(Strokes(f)) \in Nat /\ DOMAIN Strokes(f) = 1..Len(Strokes(f))
         /\ \A i \in DOMAIN Strokes(f) : Strokes(f)[i].kind = "rect" => Strokes(f)[i] \in Rects
<1>1. f.lines \in Seq(Paths \cup Rects) /\ f.polygons \in Seq(Paths \cup Rects) /\ f.rects \in Seq(Paths \cup Rects)
  BY DEF Frames
<1>2. Strokes(f) \in Seq(Paths \cup Rects)
  BY <1>1 DEF Strokes
<1>3. \A s \in Paths \cup Rects : s.kind = "rect" => s \in Rects
  BY DEF Paths
<1> QED
  BY <1>2, <1>3

-----------------------------------------------------------------------------
(* The inductive invariant.                                                *)

Phases == {"idle", "copy", "mosaics", "bitmaps", "canvas", "strokes", "flush", "drawn", "failed"}
ApplyPhases == {"mosaics", "bitmaps", "canvas", "strokes", "flush", "drawn"}
BeforeStrokes == {"mosaics", "bitmaps", "canvas", "drawn"}

Contents == [picture : Nat, marks : Seq(Nat)]
Surfaces == [cached : BOOLEAN, memory : Contents, lines : Contents, dirty : BOOLEAN]
Drawings == [phase : Phases, on : {"frame", "copy"}, commands : Frames, next : Nat \ {0}, refused : SUBSET Nat]

DrawerTypes ==
  /\ surfaces \in [{"frame", "copy"} -> Surfaces]
  /\ prepared \in Frames
  /\ drawing \in Drawings
  /\ pictures \in Nat \ {0}

(* What the drawing d has drawn so far.                                    *)
StrokeDone(d, i) == d.phase \in {"flush", "drawn"} \/ (d.phase = "strokes" /\ i < d.next)
Done(d) ==
  {m \in {1} : d.commands.mosaics # <<>> /\ d.phase \in ApplyPhases \ {"mosaics"}}
    \cup {m \in {2} : d.commands.bitmaps # <<>> /\ d.phase \in ApplyPhases \ {"mosaics", "bitmaps"}}
    \cup {i + 2 : i \in {j \in DOMAIN Strokes(d.commands) : Wanted(d, j) /\ StrokeDone(d, j)}}

(* What memory holds, once the cache has written back.                     *)
Settled(s) == IF s.dirty THEN s.lines ELSE s.memory

ShowsDone(content, d) ==
  content.picture = pictures /\ Ascending(content.marks) /\ Range(content.marks) = Done(d)

(* Only a cached image has cached lines, and only lines can be dirty.       *)
SoundCache(s) ==
  /\ ~s.cached => ~s.dirty /\ s.lines = NoLines
  /\ s.dirty => s.lines # NoLines

(* The surface s a drawing d is on: nothing is dirty before the strokes,   *)
(* and from then on the cache is not behind memory.                        *)
GoodSurface(s, d) ==
  /\ SoundCache(s)
  /\ d.phase \in ApplyPhases => ShowsDone(Settled(s), d)
  /\ d.phase \in BeforeStrokes => ~s.dirty
  /\ d.phase = "strokes" => s.dirty \/ s.lines = NoLines \/ s.lines = s.memory

GoodDrawing(d) ==
  /\ d.phase = "copy" => d.on = "copy"
  /\ d.phase \in {"copy", "mosaics", "bitmaps", "canvas"} => d.next = 1
  /\ d.phase = "strokes" => d.next \in DOMAIN Strokes(d.commands)

FrameApart == drawing.on = "copy" => ~surfaces["frame"].cached /\ surfaces["frame"].memory = Show(pictures)

DrawerInv ==
  /\ DrawerTypes
  /\ \A n \in {"frame", "copy"} : SoundCache(surfaces[n])
  /\ GoodSurface(target, drawing)
  /\ GoodDrawing(drawing)
  /\ FrameApart

LEMMA InvImpliesDrawn == DrawerInv => OverlaysDrawn
<1> SUFFICES ASSUME DrawerInv PROVE OverlaysDrawn
  OBVIOUS
<1>1. drawing.on = "copy" => surfaces["frame"].memory = Show(pictures)
  BY DEF DrawerInv, FrameApart
<1>2. ASSUME drawing.phase = "drawn"
      PROVE  /\ target.memory.picture = pictures
             /\ Ascending(target.memory.marks)
             /\ Range(target.memory.marks) = Asked(drawing)
  <2>1. ShowsDone(target.memory, drawing)
    BY <1>2 DEF DrawerInv, GoodSurface, ApplyPhases, BeforeStrokes, Settled
  <2>2. Done(drawing) = Asked(drawing)
    <3>1. \A i \in DOMAIN Strokes(drawing.commands) : StrokeDone(drawing, i)
      BY <1>2 DEF StrokeDone
    <3>2. drawing.phase \in ApplyPhases \ {"mosaics"} /\ drawing.phase \in ApplyPhases \ {"mosaics", "bitmaps"}
      BY <1>2 DEF ApplyPhases
    <3>3. {i + 2 : i \in {j \in DOMAIN Strokes(drawing.commands) : Wanted(drawing, j) /\ StrokeDone(drawing, j)}}
            = {i + 2 : i \in {j \in DOMAIN Strokes(drawing.commands) : Wanted(drawing, j)}}
      BY <3>1
    <3> QED
      BY <3>2, <3>3 DEF Done, Asked
  <2> QED
    BY <2>1, <2>2 DEF ShowsDone
<1> QED
  BY <1>1, <1>2 DEF OverlaysDrawn

-----------------------------------------------------------------------------
(* What a step of Apply has to show.                                       *)

LEMMA TargetTypes ==
  ASSUME DrawerTypes
  PROVE  /\ target \in Surfaces
         /\ target.memory \in Contents /\ target.lines \in Contents
         /\ drawing.on \in {"frame", "copy"} /\ drawing.commands \in Frames
         /\ drawing.next \in Nat \ {0} /\ drawing.phase \in Phases
BY DEF DrawerTypes, Drawings, Surfaces, target

LEMMA StepOnTarget ==
  ASSUME DrawerInv, NEW s \in Surfaces, NEW d \in Drawings,
         surfaces' = [surfaces EXCEPT ![drawing.on] = s], drawing' = d, UNCHANGED <<prepared, pictures, board>>,
         d.on = drawing.on, GoodSurface(s, d), GoodDrawing(d)
  PROVE  DrawerInv'
<1>1. DrawerTypes'
  BY DEF DrawerInv, DrawerTypes
<1>2. surfaces'[drawing.on] = s /\ \A n \in {"frame", "copy"} \ {drawing.on} : surfaces'[n] = surfaces[n]
  BY TargetTypes DEF DrawerInv, DrawerTypes
<1>3. target' = s
  BY <1>2 DEF target
<1>4. \A n \in {"frame", "copy"} : SoundCache(surfaces'[n])
  BY <1>2 DEF DrawerInv, GoodSurface
<1>5. GoodSurface(s, d)'
  BY DEF GoodSurface, SoundCache, ShowsDone, Settled, Done, Wanted, StrokeDone, Canvas, Visible
<1>6. FrameApart'
  BY <1>2 DEF DrawerInv, FrameApart
<1> QED
  BY <1>1, <1>3, <1>4, <1>5, <1>6 DEF DrawerInv, GoodDrawing

LEMMA MarkFields ==
  ASSUME NEW content \in Contents, NEW m \in Nat
  PROVE  /\ Mark(content, m) = [picture |-> content.picture, marks |-> Append(content.marks, m)]
         /\ Mark(content, m) \in Contents /\ Mark(content, m) # NoLines
<1>1. \A v : [content EXCEPT !.marks = v] = [picture |-> content.picture, marks |-> v]
  BY DEF Contents
<1>2. Mark(content, m) = [picture |-> content.picture, marks |-> Append(content.marks, m)]
  BY <1>1 DEF Mark
<1>3. content.picture \in Nat /\ content.marks \in Seq(Nat) /\ Append(content.marks, m) \in Seq(Nat)
      /\ Append(content.marks, m) # <<>>
  BY DEF Contents
<1>4. NoLines.marks = <<>>
  BY DEF NoLines, Show
<1> QED
  BY <1>2, <1>3, <1>4 DEF Contents

(* A mark is drawn on an image that shows what was done so far.            *)
LEMMA MarkShown ==
  ASSUME NEW content \in Contents, NEW d, NEW e, NEW m \in Nat,
         ShowsDone(content, d), Done(e) = Done(d) \cup {m}, \A n \in Done(d) : n < m
  PROVE  Mark(content, m) \in Contents /\ ShowsDone(Mark(content, m), e)
<1>1. content.marks \in Seq(Nat) /\ content.picture \in Nat
  BY DEF Contents
<1>2. Range(content.marks) = Done(d) /\ Ascending(content.marks) /\ content.picture = pictures
  BY DEF ShowsDone
<1>3. /\ Append(content.marks, m) \in Seq(Nat) /\ Ascending(Append(content.marks, m))
      /\ Range(Append(content.marks, m)) = Done(d) \cup {m}
  BY <1>1, <1>2, MarkAdded
<1>4. Mark(content, m) = [picture |-> content.picture, marks |-> Append(content.marks, m)]
  BY MarkFields
<1> QED
  BY <1>1, <1>2, <1>3, <1>4 DEF Contents, ShowsDone

(* What the steps of Apply do with a surface keeps its type.               *)
LEMMA SurfaceFields ==
  ASSUME NEW s \in Surfaces
  PROVE  /\ s.cached \in BOOLEAN /\ s.dirty \in BOOLEAN /\ s.memory \in Contents /\ s.lines \in Contents
         /\ Settled(s) \in Contents
BY DEF Surfaces, Settled

LEMMA NoLinesTypes == NoLines \in Contents /\ \A p \in Nat : Show(p) \in Contents
BY NoMarks DEF NoLines, Show, Contents

LEMMA HardwareMark ==
  ASSUME NEW s \in Surfaces, NEW m \in Nat, Mark(s.memory, m) \in Contents
  PROVE  LET t == DrawnByHardware(s, m)
         IN  /\ t \in Surfaces /\ t.memory = Mark(s.memory, m)
             /\ t.cached = s.cached /\ t.lines = s.lines /\ t.dirty = s.dirty
BY DEF DrawnByHardware, Surfaces

LEMMA InvalidatedSurface ==
  ASSUME NEW s \in Surfaces
  PROVE  LET t == Invalidated(s)
         IN  /\ t \in Surfaces /\ t.memory = s.memory /\ t.lines = NoLines /\ t.dirty = FALSE
             /\ t.cached = s.cached
BY NoLinesTypes DEF Invalidated, Surfaces

LEMMA FlushedSurface ==
  ASSUME NEW s \in Surfaces
  PROVE  LET t == Flushed(s)
         IN  /\ t \in Surfaces /\ t.memory = Settled(s) /\ t.lines = s.lines /\ t.dirty = FALSE
             /\ t.cached = s.cached
BY DEF Flushed, Settled, Surfaces

LEMMA CpuMark ==
  ASSUME NEW s \in Surfaces, NEW m \in Nat, Mark(Settled(s), m) \in Contents, SoundCache(s),
         s.dirty => s.lines # NoLines, s.dirty \/ s.lines = NoLines \/ s.lines = s.memory
  PROVE  LET t == DrawnByCpu(s, m)
         IN  /\ t \in Surfaces /\ Settled(t) = Mark(Settled(s), m)
             /\ SoundCache(t)
             /\ t.dirty \/ t.lines = NoLines
<1>1. Seen(s) = Settled(s)
  BY DEF Seen, Settled
<1>2. CASE s.cached
  <2>1. DrawnByCpu(s, m) = [s EXCEPT !.lines = Mark(Settled(s), m), !.dirty = TRUE]
    BY <1>1, <1>2 DEF DrawnByCpu
  <2>2. Settled(s) \in Contents
    BY SurfaceFields
  <2>3. Mark(Settled(s), m) # NoLines
    BY <2>2, MarkFields
  <2> QED
    BY <1>2, <2>1, <2>3 DEF Surfaces, Settled, SoundCache
<1>3. CASE ~s.cached
  <2>1. DrawnByCpu(s, m) = [s EXCEPT !.memory = Mark(s.memory, m)] /\ ~s.dirty /\ s.lines = NoLines
    BY <1>3 DEF DrawnByCpu, SoundCache
  <2> QED
    BY <1>3, <2>1 DEF Surfaces, Settled, SoundCache
<1> QED
  BY <1>2, <1>3 DEF Surfaces

LEMMA DrawingFields ==
  ASSUME NEW d \in Drawings, NEW p \in Phases
  PROVE  LET e == [d EXCEPT !.phase = p]
         IN  /\ e \in Drawings /\ e.phase = p /\ e.on = d.on /\ e.commands = d.commands
             /\ e.next = d.next /\ e.refused = d.refused
BY DEF Drawings

LEMMA WantedSame ==
  ASSUME NEW d, NEW e, d.on = e.on, d.commands = e.commands, d.refused = e.refused
  PROVE  \A i : Wanted(d, i) <=> Wanted(e, i)
BY DEF Wanted

-----------------------------------------------------------------------------
(* The steps of Apply.                                                     *)

LEMMA StepPhase ==
  ASSUME DrawerInv, NEW s \in Surfaces, NEW p \in Phases, Draws(s, p),
         GoodSurface(s, [drawing EXCEPT !.phase = p]), p # "copy", p # "strokes",
         p \in {"mosaics", "bitmaps", "canvas"} => drawing.phase \in {"copy", "mosaics", "bitmaps"}
  PROVE  DrawerInv'
<1> DEFINE d == [drawing EXCEPT !.phase = p]
<1>1. drawing \in Drawings
  BY DEF DrawerInv, DrawerTypes
<1>2. d \in Drawings /\ d.phase = p /\ d.on = drawing.on /\ d.next = drawing.next
  BY <1>1, DrawingFields
<1>3. GoodDrawing(d)
  BY <1>2 DEF GoodDrawing, DrawerInv
<1>4. /\ surfaces' = [surfaces EXCEPT ![drawing.on] = s] /\ drawing' = d
      /\ UNCHANGED <<prepared, pictures, board>>
  BY DEF Draws
<1> HIDE DEF d
<1>5. GoodSurface(s, d)
  BY DEF d
<1> QED
  BY <1>2, <1>3, <1>4, <1>5, StepOnTarget

LEMMA CopyKeeps == DrawerInv /\ CopyImageForOsd => DrawerInv'
<1> SUFFICES ASSUME DrawerInv, CopyImageForOsd PROVE DrawerInv'
  OBVIOUS
<1> DEFINE s == Surface(FALSE, surfaces["frame"].memory)
           d == [drawing EXCEPT !.phase = "mosaics"]
<1>1. drawing.phase = "copy" /\ drawing.on = "copy" /\ Draws(s, "mosaics")
  BY DEF DrawerInv, GoodDrawing, CopyImageForOsd
<1>2. surfaces["frame"].memory = Show(pictures) /\ pictures \in Nat
  BY <1>1 DEF DrawerInv, FrameApart, DrawerTypes
<1>4. s = [cached |-> FALSE, memory |-> Show(pictures), lines |-> NoLines, dirty |-> FALSE]
  BY <1>2 DEF Surface
<1> HIDE DEF s
<1>5. s \in Surfaces
  BY <1>2, <1>4, NoLinesTypes DEF Surfaces
<1>6. drawing \in Drawings /\ "mosaics" \in Phases
  BY DEF DrawerInv, DrawerTypes, Phases
<1>7. d.phase = "mosaics"
  BY <1>6, DrawingFields
<1>8. Done(d) = {}
  BY <1>7 DEF Done, ApplyPhases, StrokeDone
<1>9. GoodSurface(s, d)
  <2>1. SoundCache(s) /\ Settled(s) = Show(pictures) /\ ~s.dirty
    BY <1>4 DEF SoundCache, Settled
  <2>2. ShowsDone(Show(pictures), d)
    BY <1>8, NoMarks DEF ShowsDone, Show
  <2> QED
    BY <1>7, <2>1, <2>2 DEF GoodSurface
<1> QED
  BY <1>1, <1>5, <1>6, <1>9, StepPhase

LEMMA MosaicsKeep == DrawerInv /\ DrawMosaics => DrawerInv'
<1> SUFFICES ASSUME DrawerInv, DrawMosaics PROVE DrawerInv'
  OBVIOUS
<1> DEFINE s == IF drawing.commands.mosaics = <<>> THEN target ELSE DrawnByHardware(target, 1)
           d == [drawing EXCEPT !.phase = "bitmaps"]
<1>1. drawing.phase = "mosaics" /\ Draws(s, "bitmaps")
  BY DEF DrawMosaics
<1>2. target \in Surfaces /\ drawing \in Drawings /\ "bitmaps" \in Phases
  BY TargetTypes DEF DrawerInv, DrawerTypes, Phases
<1>3. d.phase = "bitmaps" /\ d.commands = drawing.commands
  BY <1>2, DrawingFields
<1>4. ShowsDone(target.memory, drawing) /\ ~target.dirty /\ SoundCache(target)
  BY <1>1 DEF DrawerInv, GoodSurface, ApplyPhases, BeforeStrokes, Settled
<1>5. Done(drawing) = {}
  BY <1>1 DEF Done, ApplyPhases, StrokeDone
<1>6. Done(d) = {m \in {1} : drawing.commands.mosaics # <<>>}
  BY <1>3 DEF Done, ApplyPhases, StrokeDone
<1>7. s \in Surfaces /\ ShowsDone(s.memory, d) /\ ~s.dirty /\ SoundCache(s)
  <2>1. CASE drawing.commands.mosaics = <<>>
    BY <1>2, <1>4, <1>5, <1>6, <2>1 DEF ShowsDone
  <2>2. CASE drawing.commands.mosaics # <<>>
    <3>1. Done(d) = Done(drawing) \cup {1} /\ \A n \in Done(drawing) : n < 1
      BY <1>5, <1>6, <2>2
    <3>2. Mark(target.memory, 1) \in Contents /\ ShowsDone(Mark(target.memory, 1), d)
      BY <1>2, <1>4, <3>1, SurfaceFields, MarkShown
    <3> QED
      BY <1>2, <1>4, <2>2, <3>2, HardwareMark DEF SoundCache
  <2> QED
    BY <2>1, <2>2
<1>8. GoodSurface(s, d)
  BY <1>3, <1>7 DEF GoodSurface, Settled
<1> HIDE DEF s
<1> QED
  BY <1>1, <1>2, <1>7, <1>8, StepPhase

LEMMA BitmapsKeep == DrawerInv /\ DrawBitmaps => DrawerInv'
<1> SUFFICES ASSUME DrawerInv, DrawBitmaps PROVE DrawerInv'
  OBVIOUS
<1> DEFINE u == IF board = "ax620e" THEN Invalidated(target) ELSE target
           s == IF drawing.commands.bitmaps = <<>> THEN target ELSE DrawnByHardware(u, 2)
           d == [drawing EXCEPT !.phase = "canvas"]
<1>1. drawing.phase = "bitmaps" /\ Draws(s, "canvas")
  BY DEF DrawBitmaps
<1>2. target \in Surfaces /\ drawing \in Drawings /\ "canvas" \in Phases
  BY TargetTypes DEF DrawerInv, DrawerTypes, Phases
<1>3. d.phase = "canvas" /\ d.commands = drawing.commands
  BY <1>2, DrawingFields
<1>4. ShowsDone(target.memory, drawing) /\ ~target.dirty /\ SoundCache(target)
  BY <1>1 DEF DrawerInv, GoodSurface, ApplyPhases, BeforeStrokes, Settled
<1>5. u \in Surfaces /\ u.memory = target.memory /\ ~u.dirty /\ SoundCache(u)
  BY <1>2, <1>4, InvalidatedSurface DEF SoundCache
<1>6. Done(drawing) = {m \in {1} : drawing.commands.mosaics # <<>>}
  BY <1>1 DEF Done, ApplyPhases, StrokeDone
<1>7. Done(d) = {m \in {1} : drawing.commands.mosaics # <<>>} \cup {m \in {2} : drawing.commands.bitmaps # <<>>}
  BY <1>3 DEF Done, ApplyPhases, StrokeDone
<1> HIDE DEF u
<1>8. s \in Surfaces /\ ShowsDone(s.memory, d) /\ ~s.dirty /\ SoundCache(s)
  <2>1. CASE drawing.commands.bitmaps = <<>>
    BY <1>2, <1>4, <1>6, <1>7, <2>1 DEF ShowsDone
  <2>2. CASE drawing.commands.bitmaps # <<>>
    <3>1. Done(d) = Done(drawing) \cup {2} /\ \A n \in Done(drawing) : n < 2
      BY <1>6, <1>7, <2>2
    <3>2. Mark(u.memory, 2) \in Contents /\ ShowsDone(Mark(u.memory, 2), d)
      BY <1>4, <1>5, <3>1, SurfaceFields, MarkShown
    <3> QED
      BY <1>5, <2>2, <3>2, HardwareMark DEF SoundCache
  <2> QED
    BY <2>1, <2>2
<1>9. GoodSurface(s, d)
  BY <1>3, <1>8 DEF GoodSurface, Settled
<1> HIDE DEF s
<1> QED
  BY <1>1, <1>2, <1>8, <1>9, StepPhase

LEMMA CanvasKeeps == DrawerInv /\ ReadyCanvas => DrawerInv'
<1> SUFFICES ASSUME DrawerInv, ReadyCanvas PROVE DrawerInv'
  OBVIOUS
<1>1. drawing.phase = "canvas"
  BY DEF ReadyCanvas
<1>2. target \in Surfaces /\ drawing \in Drawings
  BY TargetTypes DEF DrawerInv, DrawerTypes
<1>3. ShowsDone(target.memory, drawing) /\ ~target.dirty /\ SoundCache(target)
  BY <1>1 DEF DrawerInv, GoodSurface, ApplyPhases, BeforeStrokes, Settled
<1> DEFINE f == drawing.commands
           Before == {m \in {1} : f.mosaics # <<>>} \cup {m \in {2} : f.bitmaps # <<>>}
<1>4. Done(drawing) = Before
  BY <1>1 DEF Done, ApplyPhases, StrokeDone
<1>5. /\ Strokes(f) \in Seq(Paths \cup Rects) /\ Len(Strokes(f)) \in Nat
      /\ DOMAIN Strokes(f) = 1..Len(Strokes(f))
  BY <1>2, TargetTypes, StrokesOfFrame DEF DrawerInv
<1>6. CASE Strokes(f) = <<>>
  <2>1. PICK p \in {"flush", "drawn"} : Draws(target, p)
    BY <1>6 DEF ReadyCanvas
  <2> DEFINE d == [drawing EXCEPT !.phase = p]
  <2>2. p \in Phases /\ d.phase = p /\ d.commands = f
    BY <1>2, DrawingFields DEF Phases
  <2>3. DOMAIN Strokes(f) = {}
    BY <1>6
  <2>4. Done(d) = Before
    BY <2>2, <2>3 DEF Done, ApplyPhases
  <2>5. ShowsDone(target.memory, d)
    BY <1>3, <1>4, <2>4 DEF ShowsDone
  <2>6. GoodSurface(target, d)
    BY <1>3, <2>2, <2>5 DEF GoodSurface, Settled
  <2> QED
    BY <1>2, <2>1, <2>2, <2>6, StepPhase
<1>7. CASE Strokes(f) # <<>>
  <2> DEFINE s == Invalidated(target)
             d == [drawing EXCEPT !.phase = "strokes"]
  <2>1. Draws(s, "strokes")
    BY <1>7 DEF ReadyCanvas
  <2>2. d \in Drawings /\ d.phase = "strokes" /\ d.commands = f /\ d.next = drawing.next /\ d.on = drawing.on
    BY <1>2, DrawingFields DEF Phases
  <2>3. d.next = 1
    BY <1>1, <2>2 DEF DrawerInv, GoodDrawing
  <2>4. Done(d) = Before
    <3>1. \A i \in DOMAIN Strokes(f) : ~StrokeDone(d, i)
      BY <1>5, <2>2, <2>3 DEF StrokeDone
    <3> QED
      BY <2>2, <3>1 DEF Done, ApplyPhases
  <2>5. s \in Surfaces /\ s.memory = target.memory /\ s.lines = NoLines /\ ~s.dirty /\ SoundCache(s)
    BY <1>2, InvalidatedSurface DEF SoundCache
  <2>6. ShowsDone(Settled(s), d)
    BY <1>3, <1>4, <2>4, <2>5 DEF ShowsDone, Settled
  <2>7. GoodSurface(s, d)
    BY <2>2, <2>5, <2>6 DEF GoodSurface, BeforeStrokes
  <2>8. GoodDrawing(d)
    BY <1>5, <1>7, <2>2, <2>3 DEF GoodDrawing
  <2>9. /\ surfaces' = [surfaces EXCEPT ![drawing.on] = s] /\ drawing' = d
        /\ UNCHANGED <<prepared, pictures, board>>
    BY <2>1 DEF Draws
  <2> HIDE DEF s, d
  <2> QED
    BY <2>2, <2>5, <2>7, <2>8, <2>9, StepOnTarget
<1> QED
  BY <1>6, <1>7

(* After the stroke number next of the drawing.                            *)
LEMMA NextStroke ==
  ASSUME DrawerInv, drawing.phase = "strokes", NEW s \in Surfaces, Stroke(s), SoundCache(s),
         s.dirty \/ s.lines = NoLines \/ s.lines = s.memory,
         IF Wanted(drawing, drawing.next)
         THEN Settled(s) = Mark(Settled(target), drawing.next + 2)
         ELSE Settled(s) = Settled(target)
  PROVE  DrawerInv'
<1> DEFINE f == drawing.commands
           n == drawing.next
           d == [drawing EXCEPT !.next = n + 1, !.phase = IF n = Len(Strokes(f)) THEN "flush" ELSE @]
<1>1. target \in Surfaces /\ drawing \in Drawings /\ n \in Nat \ {0} /\ f \in Frames
  BY TargetTypes DEF DrawerInv, DrawerTypes
<1>2. /\ Strokes(f) \in Seq(Paths \cup Rects) /\ Len(Strokes(f)) \in Nat
      /\ DOMAIN Strokes(f) = 1..Len(Strokes(f))
  BY <1>1, StrokesOfFrame
<1>3. n \in 1..Len(Strokes(f))
  BY <1>2 DEF DrawerInv, GoodDrawing
<1>4. d = [drawing EXCEPT !.next = n + 1, !.phase = IF n = Len(Strokes(f)) THEN "flush" ELSE "strokes"]
  OBVIOUS
<1>5. /\ d \in Drawings /\ d.next = n + 1 /\ d.on = drawing.on /\ d.commands = f /\ d.refused = drawing.refused
      /\ d.phase = IF n = Len(Strokes(f)) THEN "flush" ELSE "strokes"
  <2> DEFINE p == IF n = Len(Strokes(f)) THEN "flush" ELSE "strokes"
  <2>1. p \in Phases /\ n + 1 \in Nat \ {0}
    BY <1>1 DEF Phases
  <2> HIDE DEF p
  <2>2. d = [drawing EXCEPT !.next = n + 1, !.phase = p]
    BY <1>4 DEF p
  <2>3. /\ d \in Drawings /\ d.next = n + 1 /\ d.on = drawing.on /\ d.commands = f
        /\ d.refused = drawing.refused /\ d.phase = p
    BY <1>1, <2>1, <2>2 DEF Drawings
  <2> QED
    BY <2>3 DEF p
<1>6. /\ surfaces' = [surfaces EXCEPT ![drawing.on] = s] /\ drawing' = d
      /\ UNCHANGED <<prepared, pictures, board>>
  BY DEF Stroke
<1> HIDE DEF d
<1> DEFINE Before == {m \in {1} : f.mosaics # <<>>} \cup {m \in {2} : f.bitmaps # <<>>}
           Marks(P(_)) == {i + 2 : i \in {j \in DOMAIN Strokes(f) : P(j)}}
<1>7. Done(drawing) = Before \cup {i + 2 : i \in {j \in DOMAIN Strokes(f) : Wanted(drawing, j) /\ j < n}}
  <2>1. \A j : StrokeDone(drawing, j) <=> j < n
    BY DEF StrokeDone
  <2> QED
    BY <2>1 DEF Done, ApplyPhases
<1>8. Done(d) = Before \cup {i + 2 : i \in {j \in DOMAIN Strokes(f) : Wanted(drawing, j) /\ j < n + 1}}
  <2>1. \A j \in DOMAIN Strokes(f) : StrokeDone(d, j) <=> j < n + 1
    BY <1>2, <1>3, <1>5 DEF StrokeDone
  <2>2. \A j : Wanted(d, j) <=> Wanted(drawing, j)
    BY <1>5, WantedSame
  <2>3. d.phase \in ApplyPhases \ {"mosaics"} /\ d.phase \in ApplyPhases \ {"mosaics", "bitmaps"}
    BY <1>5 DEF ApplyPhases
  <2>4. {j \in DOMAIN Strokes(f) : Wanted(d, j) /\ StrokeDone(d, j)}
          = {j \in DOMAIN Strokes(f) : Wanted(drawing, j) /\ j < n + 1}
    BY <2>1, <2>2
  <2> QED
    BY <1>5, <2>3, <2>4 DEF Done
<1>9. ShowsDone(Settled(target), drawing)
  BY DEF DrawerInv, GoodSurface, ApplyPhases
<1>10. ShowsDone(Settled(s), d)
  <2>1. CASE Wanted(drawing, n)
    <3>1. \A j \in DOMAIN Strokes(f) : Wanted(drawing, j) /\ j < n + 1 <=> (Wanted(drawing, j) /\ j < n) \/ j = n
      BY <1>1, <1>2, <2>1
    <3>2. Done(d) = Done(drawing) \cup {n + 2}
      BY <1>2, <1>3, <1>7, <1>8, <3>1
    <3>3. \A m \in Done(drawing) : m < n + 2
      BY <1>1, <1>2, <1>7
    <3>4. Settled(target) \in Contents /\ n + 2 \in Nat
      BY <1>1, SurfaceFields
    <3> QED
      BY <1>9, <2>1, <3>2, <3>3, <3>4, MarkShown
  <2>2. CASE ~Wanted(drawing, n)
    <3>1. \A j \in DOMAIN Strokes(f) : Wanted(drawing, j) /\ j < n + 1 <=> Wanted(drawing, j) /\ j < n
      BY <1>1, <1>2, <2>2
    <3>2. Done(d) = Done(drawing)
      BY <1>7, <1>8, <3>1
    <3> QED
      BY <1>9, <2>2, <3>2 DEF ShowsDone
  <2> QED
    BY <2>1, <2>2
<1>11. GoodSurface(s, d)
  BY <1>5, <1>10 DEF GoodSurface, BeforeStrokes
<1>12. GoodDrawing(d)
  BY <1>2, <1>3, <1>5 DEF GoodDrawing
<1> QED
  BY <1>5, <1>6, <1>11, <1>12, StepOnTarget

(* The surface the strokes are drawn on.                                   *)
LEMMA StrokesSurface ==
  ASSUME DrawerInv, drawing.phase = "strokes"
  PROVE  /\ target \in Surfaces /\ SoundCache(target)
         /\ target.dirty => target.lines # NoLines
         /\ target.dirty \/ target.lines = NoLines \/ target.lines = target.memory
         /\ \A m \in Nat : Mark(Settled(target), m) \in Contents
<1>1. /\ target \in Surfaces /\ SoundCache(target) /\ ShowsDone(Settled(target), drawing)
      /\ target.dirty \/ target.lines = NoLines \/ target.lines = target.memory
      /\ pictures \in Nat \ {0}
  BY TargetTypes DEF DrawerInv, DrawerTypes, GoodSurface, ApplyPhases
<1>2. target.dirty => target.lines # NoLines
  BY <1>1 DEF Settled, ShowsDone, NoLines, Show
<1>3. \A m \in Nat : Mark(Settled(target), m) \in Contents
  BY <1>1, SurfaceFields, MarkFields
<1> QED
  BY <1>1, <1>2, <1>3

(* What drawing the next stroke leaves on it.                              *)
LEMMA StrokeDrawn ==
  ASSUME DrawerInv, drawing.phase = "strokes", NEW m \in Nat, NEW s, s = DrawnByCpu(target, m)
  PROVE  /\ s \in Surfaces /\ Settled(s) = Mark(Settled(target), m) /\ SoundCache(s)
         /\ s.dirty \/ s.lines = NoLines
<1>1. /\ target \in Surfaces /\ SoundCache(target)
      /\ target.dirty => target.lines # NoLines
      /\ target.dirty \/ target.lines = NoLines \/ target.lines = target.memory
      /\ Mark(Settled(target), m) \in Contents
  BY StrokesSurface
<1> QED
  BY <1>1, CpuMark

LEMMA PathKeeps == DrawerInv /\ DrawLineOrPolygon => DrawerInv'
<1> SUFFICES ASSUME DrawerInv, DrawLineOrPolygon PROVE DrawerInv'
  OBVIOUS
<1> DEFINE s == DrawnByCpu(target, drawing.next + 2)
<1>1. drawing.phase = "strokes" /\ stroke.kind # "rect" /\ Stroke(s)
  BY DEF DrawLineOrPolygon
<1>2. Wanted(drawing, drawing.next)
  BY <1>1 DEF Wanted, stroke
<1>3. drawing.next + 2 \in Nat
  BY TargetTypes DEF DrawerInv
<1>4. s \in Surfaces /\ Settled(s) = Mark(Settled(target), drawing.next + 2) /\ SoundCache(s)
      /\ (s.dirty \/ s.lines = NoLines)
  BY <1>1, <1>3, StrokeDrawn
<1> HIDE DEF s
<1> QED
  BY <1>1, <1>2, <1>4, NextStroke

LEMMA RectKeeps == DrawerInv /\ DrawRect => DrawerInv'
<1> SUFFICES ASSUME DrawerInv, DrawRect PROVE DrawerInv'
  OBVIOUS
<1> DEFINE n == drawing.next
           c == Canvas(drawing.on)
           k == Clamp(stroke, c)
           Taken == ~Skipped(stroke, c) /\ Legal(k, stroke.thickness, c) /\ n \notin drawing.refused
           s == IF Taken THEN DrawnByCpu(target, n + 2) ELSE target
<1>1. drawing.phase = "strokes" /\ stroke.kind = "rect" /\ Stroke(s)
  BY DEF DrawRect
<1>2. stroke \in Rects
  <2>1. drawing.commands \in Frames /\ n \in DOMAIN Strokes(drawing.commands)
    BY <1>1, TargetTypes DEF DrawerInv, GoodDrawing
  <2> QED
    BY <1>1, <2>1, StrokesOfFrame DEF stroke
<1>3. c \in Sizes
  BY TargetTypes, CanvasSizes DEF DrawerInv
<1>4. Taken <=> Visible(stroke, c) /\ n \notin drawing.refused
  BY <1>2, <1>3, ClampedRectsFit
<1>5. Taken <=> Wanted(drawing, n)
  BY <1>1, <1>4 DEF Wanted, stroke
<1>6. n + 2 \in Nat
  BY TargetTypes DEF DrawerInv
<1> HIDE DEF Taken
<1>7. /\ s \in Surfaces /\ SoundCache(s)
      /\ s.dirty \/ s.lines = NoLines \/ s.lines = s.memory
      /\ Settled(s) = IF Taken THEN Mark(Settled(target), n + 2) ELSE Settled(target)
  <2>1. CASE Taken
    BY <1>1, <1>6, <2>1, StrokeDrawn
  <2>2. CASE ~Taken
    BY <1>1, <2>2, StrokesSurface
  <2> QED
    BY <2>1, <2>2
<1> HIDE DEF s
<1> QED
  BY <1>1, <1>5, <1>7, NextStroke

LEMMA FlushKeeps == DrawerInv /\ FlushDrawn => DrawerInv'
<1> SUFFICES ASSUME DrawerInv, FlushDrawn PROVE DrawerInv'
  OBVIOUS
<1> DEFINE s == Flushed(target)
           d == [drawing EXCEPT !.phase = "drawn"]
<1>1. drawing.phase = "flush" /\ Draws(s, "drawn")
  BY DEF FlushDrawn
<1>2. target \in Surfaces /\ drawing \in Drawings /\ "drawn" \in Phases
  BY TargetTypes DEF DrawerInv, DrawerTypes, Phases
<1>3. d.phase = "drawn" /\ d.commands = drawing.commands /\ d.on = drawing.on /\ d.refused = drawing.refused
  BY <1>2, DrawingFields
<1>4. ShowsDone(Settled(target), drawing) /\ SoundCache(target)
  BY <1>1 DEF DrawerInv, GoodSurface, ApplyPhases
<1>5. Done(d) = Done(drawing)
  <2>1. \A j : (StrokeDone(d, j) <=> StrokeDone(drawing, j)) /\ (Wanted(d, j) <=> Wanted(drawing, j))
    BY <1>1, <1>3, WantedSame DEF StrokeDone
  <2>2. {j \in DOMAIN Strokes(d.commands) : Wanted(d, j) /\ StrokeDone(d, j)}
          = {j \in DOMAIN Strokes(drawing.commands) : Wanted(drawing, j) /\ StrokeDone(drawing, j)}
    BY <1>3, <2>1
  <2>3. /\ d.phase \in ApplyPhases \ {"mosaics"} /\ d.phase \in ApplyPhases \ {"mosaics", "bitmaps"}
        /\ drawing.phase \in ApplyPhases \ {"mosaics"} /\ drawing.phase \in ApplyPhases \ {"mosaics", "bitmaps"}
    BY <1>1, <1>3 DEF ApplyPhases
  <2> QED
    BY <1>3, <2>2, <2>3 DEF Done
<1>6. s \in Surfaces /\ s.memory = Settled(target) /\ s.lines = target.lines /\ ~s.dirty /\ s.cached = target.cached
  BY <1>2, FlushedSurface
<1>7. GoodSurface(s, d)
  <2>1. SoundCache(s)
    BY <1>4, <1>6 DEF SoundCache
  <2>2. ShowsDone(Settled(s), d)
    BY <1>4, <1>5, <1>6 DEF ShowsDone, Settled
  <2> QED
    BY <1>3, <1>6, <2>1, <2>2 DEF GoodSurface
<1> HIDE DEF s
<1> QED
  BY <1>1, <1>2, <1>6, <1>7, StepPhase

LEMMA FailureKeeps == DrawerInv /\ ApplyFails => DrawerInv'
<1> SUFFICES ASSUME DrawerInv, ApplyFails PROVE DrawerInv'
  OBVIOUS
<1>1. Draws(target, "failed")
  BY DEF ApplyFails
<1>2. target \in Surfaces /\ drawing \in Drawings /\ "failed" \in Phases
  BY TargetTypes DEF DrawerInv, DrawerTypes, Phases
<1>3. [drawing EXCEPT !.phase = "failed"].phase = "failed"
  BY <1>2, DrawingFields
<1>4. GoodSurface(target, [drawing EXCEPT !.phase = "failed"])
  BY <1>3 DEF DrawerInv, GoodSurface, ApplyPhases, BeforeStrokes
<1> QED
  BY <1>1, <1>2, <1>4, StepPhase

LEMMA BeginKeeps ==
  ASSUME DrawerInv, NEW on \in {"frame", "copy"}, NEW refused \in SUBSET DOMAIN Strokes(prepared),
         ApplyOsd(on, refused)
  PROVE  DrawerInv'
<1> DEFINE p == IF on = "copy" THEN "copy" ELSE "mosaics"
           d == [phase |-> p, on |-> on, commands |-> prepared, next |-> 1, refused |-> refused]
<1>1. /\ surfaces["frame"].memory = Show(pictures) /\ ~surfaces["frame"].dirty
      /\ on = "copy" => ~surfaces["frame"].cached
      /\ drawing' = d /\ UNCHANGED <<surfaces, prepared, pictures, board>>
  BY DEF ApplyOsd
<1>2. d \in Drawings
  <2>1. prepared \in Frames
    BY DEF DrawerInv, DrawerTypes
  <2>2. refused \in SUBSET Nat
    BY <2>1, StrokesOfFrame
  <2> QED
    BY <2>1, <2>2 DEF Drawings, Phases
<1>3. DrawerTypes'
  BY <1>1, <1>2 DEF DrawerInv, DrawerTypes
<1>4. SoundCache(surfaces[on]) /\ target' = surfaces[on]
  BY <1>1 DEF DrawerInv, target
<1>5. GoodSurface(surfaces[on], d)
  <2>1. CASE on = "copy"
    BY <1>4, <2>1 DEF GoodSurface, ApplyPhases, BeforeStrokes
  <2>2. CASE on = "frame"
    <3>1. Done(d) = {}
      BY <2>2 DEF Done, ApplyPhases, StrokeDone
    <3>2. ShowsDone(Show(pictures), d)
      BY <3>1, NoMarks DEF ShowsDone, Show
    <3> QED
      BY <1>1, <1>4, <2>2, <3>2 DEF GoodSurface, Settled
  <2> QED
    BY <2>1, <2>2
<1>6. GoodSurface(surfaces[on], d)'
  BY <1>1, <1>5 DEF GoodSurface, SoundCache, ShowsDone, Settled, Done, Wanted, StrokeDone, Canvas, Visible
<1>7. GoodDrawing(d)
  BY DEF GoodDrawing
<1>8. FrameApart'
  BY <1>1 DEF FrameApart
<1>9. \A n \in {"frame", "copy"} : SoundCache(surfaces'[n])
  BY <1>1 DEF DrawerInv
<1>10. d' = d /\ surfaces[on]' = surfaces[on]
  BY <1>1
<1> HIDE DEF d
<1>11. GoodSurface(target, drawing)'
  BY <1>1, <1>4, <1>6, <1>10
<1> QED
  BY <1>1, <1>3, <1>7, <1>8, <1>9, <1>11 DEF DrawerInv, GoodDrawing

-----------------------------------------------------------------------------
(* The steps around it.                                                    *)

LEMMA PrepareKeeps ==
  ASSUME DrawerInv, NEW f \in DrawFrames, Prepare(f)
  PROVE  DrawerInv'
<1>1. f \in Frames
  BY DrawerAssumption DEF DrawerAssumption
<1>2. prepared' = f /\ UNCHANGED <<board, surfaces, drawing, pictures>>
  BY DEF Prepare
<1>3. DrawerTypes'
  BY <1>1, <1>2 DEF DrawerInv, DrawerTypes
<1>4. GoodSurface(target, drawing)'
  BY <1>2 DEF DrawerInv, GoodSurface, SoundCache, ShowsDone, Settled, Done, Wanted, StrokeDone, Canvas, Visible,
     target
<1> QED
  BY <1>2, <1>3, <1>4 DEF DrawerInv, GoodDrawing, FrameApart

LEMMA NextPictureKeeps == DrawerInv /\ NextPicture => DrawerInv'
<1> SUFFICES ASSUME DrawerInv, NextPicture PROVE DrawerInv'
  OBVIOUS
<1> DEFINE old == surfaces["frame"]
           new == IF old.dirty THEN Surface(old.cached, Show(pictures + 1))
                  ELSE [old EXCEPT !.memory = Show(pictures + 1)]
           d == [drawing EXCEPT !.phase = "idle"]
<1>1. /\ pictures' = pictures + 1 /\ surfaces' = [surfaces EXCEPT !["frame"] = new]
      /\ drawing' = d /\ UNCHANGED <<board, prepared>>
  BY DEF NextPicture
<1>2. /\ old \in Surfaces /\ surfaces \in [{"frame", "copy"} -> Surfaces] /\ pictures \in Nat \ {0}
      /\ drawing \in Drawings /\ prepared \in Frames
      /\ SoundCache(old) /\ SoundCache(surfaces["copy"])
  BY DEF DrawerInv, DrawerTypes
<1>3. Show(pictures + 1) \in Contents /\ NoLines \in Contents
  BY <1>2, NoLinesTypes
<1>4. /\ new \in Surfaces /\ new.memory = Show(pictures + 1) /\ new.cached = old.cached
      /\ ~new.dirty /\ (new.lines = NoLines \/ new.lines = old.lines)
  BY <1>2, <1>3 DEF Surface, Surfaces
<1> HIDE DEF new
<1>5. d \in Drawings /\ d.phase = "idle" /\ d.on = drawing.on
  BY <1>2, DrawingFields DEF Phases
<1> HIDE DEF d
<1>6. DrawerTypes'
  BY <1>1, <1>2, <1>4, <1>5 DEF DrawerTypes
<1>7. surfaces'["frame"] = new /\ surfaces'["copy"] = surfaces["copy"]
  BY <1>1, <1>2
<1>8. SoundCache(new)
  BY <1>2, <1>4 DEF SoundCache
<1>9. \A n \in {"frame", "copy"} : SoundCache(surfaces'[n])
  BY <1>2, <1>7, <1>8
<1>10. FrameApart'
  BY <1>1, <1>4, <1>5, <1>7 DEF DrawerInv, FrameApart
<1>11. d.on \in {"frame", "copy"}
  BY <1>5 DEF Drawings
<1>12. GoodSurface(target, drawing)' /\ GoodDrawing(drawing)'
  BY <1>1, <1>5, <1>9, <1>11 DEF GoodSurface, GoodDrawing, ApplyPhases, BeforeStrokes, target, SoundCache
<1> QED
  BY <1>6, <1>9, <1>10, <1>12 DEF DrawerInv, SoundCache

(* Only memory is written back, and only what the cache has settled.       *)
LEMMA CacheKeeps ==
  ASSUME DrawerInv, NEW s \in Surfaces, surfaces' = [surfaces EXCEPT !["frame"] = s],
         UNCHANGED <<board, prepared, drawing, pictures>>,
         surfaces["frame"].cached, SoundCache(s), Settled(s) = Settled(surfaces["frame"]),
         ~surfaces["frame"].dirty => ~s.dirty,
         drawing.phase = "strokes" => s.dirty \/ s.lines = NoLines \/ s.lines = s.memory
  PROVE  DrawerInv'
<1>1. surfaces'["frame"] = s /\ surfaces'["copy"] = surfaces["copy"] /\ DrawerTypes'
  BY DEF DrawerInv, DrawerTypes
<1>2. drawing.on = "frame"
  BY TargetTypes DEF DrawerInv, FrameApart
<1>3. target' = s /\ target = surfaces["frame"]
  BY <1>1, <1>2 DEF target
<1>4. GoodSurface(s, drawing)
  BY <1>3 DEF DrawerInv, GoodSurface, BeforeStrokes
<1>5. GoodSurface(s, drawing)'
  BY <1>4 DEF GoodSurface, SoundCache, ShowsDone, Settled, Done, Wanted, StrokeDone, Canvas, Visible
<1>6. \A n \in {"frame", "copy"} : SoundCache(surfaces'[n])
  BY <1>1 DEF DrawerInv
<1> QED
  BY <1>1, <1>2, <1>3, <1>5, <1>6 DEF DrawerInv, GoodDrawing, FrameApart

LEMMA ReadKeeps == DrawerInv /\ ReadByCpu => DrawerInv'
<1> SUFFICES ASSUME DrawerInv, ReadByCpu PROVE DrawerInv'
  OBVIOUS
<1> DEFINE old == surfaces["frame"]
           s == [old EXCEPT !.lines = old.memory]
<1>1. old \in Surfaces /\ surfaces \in [{"frame", "copy"} -> Surfaces] /\ SoundCache(old)
  BY DEF DrawerInv, DrawerTypes
<1>2. /\ old.cached /\ old.lines = NoLines /\ drawing.phase \in Over
      /\ UNCHANGED <<board, prepared, drawing, pictures>>
      /\ surfaces' = [surfaces EXCEPT !["frame"].lines = old.memory]
  BY DEF ReadByCpu
<1>3. surfaces' = [surfaces EXCEPT !["frame"] = s]
  BY <1>1, <1>2
<1>4. s \in Surfaces /\ s.memory = old.memory /\ s.dirty = old.dirty /\ s.cached = old.cached /\ s.lines = old.memory
  BY <1>1 DEF Surfaces
<1> HIDE DEF s
<1>5. ~old.dirty
  BY <1>1, <1>2 DEF SoundCache
<1>6. SoundCache(s) /\ Settled(s) = Settled(old)
  BY <1>2, <1>4, <1>5 DEF SoundCache, Settled
<1> QED
  BY <1>2, <1>3, <1>4, <1>5, <1>6, CacheKeeps DEF Over

LEMMA WriteBackKeeps == DrawerInv /\ WriteBack => DrawerInv'
<1> SUFFICES ASSUME DrawerInv, WriteBack PROVE DrawerInv'
  OBVIOUS
<1> DEFINE old == surfaces["frame"]
           s == Flushed(old)
<1>1. old \in Surfaces /\ SoundCache(old)
  BY DEF DrawerInv, DrawerTypes
<1>2. /\ old.dirty /\ surfaces' = [surfaces EXCEPT !["frame"] = s]
      /\ UNCHANGED <<board, prepared, drawing, pictures>>
  BY DEF WriteBack
<1>3. /\ s \in Surfaces /\ s.memory = Settled(old) /\ s.lines = old.lines /\ ~s.dirty /\ s.cached = old.cached
  BY <1>1, FlushedSurface
<1> HIDE DEF s
<1>4. /\ old.cached /\ SoundCache(s) /\ Settled(s) = Settled(old) /\ s.lines = s.memory
  BY <1>1, <1>2, <1>3 DEF SoundCache, Settled
<1> QED
  BY <1>2, <1>3, <1>4, CacheKeeps

-----------------------------------------------------------------------------
LEMMA InitDrawer == DrawerInit => DrawerInv
<1> SUFFICES ASSUME DrawerInit PROVE DrawerInv
  OBVIOUS
<1>1. PICK cached \in BOOLEAN : surfaces = [n \in {"frame", "copy"} |-> Surface(n = "frame" /\ cached, Show(1))]
  BY DEF DrawerInit
<1>2. prepared = Nothing /\ drawing = Idle0 /\ pictures = 1
  BY DEF DrawerInit
<1>3. Show(1) \in Contents /\ NoLines \in Contents
  BY NoLinesTypes
<1>4. Nothing \in Frames
  BY DEF Nothing, Frames
<1>5. Idle0 \in Drawings /\ Idle0.phase = "idle" /\ Idle0.on = "frame"
  BY <1>4 DEF Idle0, Drawings, Phases
<1>6. \A n \in {"frame", "copy"} : surfaces[n] \in Surfaces /\ SoundCache(surfaces[n])
  <2>1. \A c \in BOOLEAN : Surface(c, Show(1)) \in Surfaces /\ SoundCache(Surface(c, Show(1)))
    BY <1>3 DEF Surface, Surfaces, SoundCache
  <2> QED
    BY <1>1, <2>1
<1>7. DrawerTypes
  BY <1>1, <1>2, <1>4, <1>5, <1>6 DEF DrawerTypes
<1>8. GoodSurface(target, drawing)
  BY <1>2, <1>5, <1>6 DEF GoodSurface, target, ApplyPhases, BeforeStrokes
<1> QED
  BY <1>2, <1>5, <1>6, <1>7, <1>8 DEF DrawerInv, GoodDrawing, FrameApart

LEMMA NextDrawer == DrawerInv /\ [DrawerNext]_drawerVars => DrawerInv'
<1> SUFFICES ASSUME DrawerInv, [DrawerNext]_drawerVars PROVE DrawerInv'
  OBVIOUS
<1>1. CASE UNCHANGED drawerVars
  BY <1>1 DEF drawerVars, DrawerInv, DrawerTypes, GoodSurface, SoundCache, ShowsDone, Settled, Done, Wanted,
     StrokeDone, Canvas, Visible, GoodDrawing, FrameApart, target
<1>2. CASE DrawerNext
  BY <1>2, PrepareKeeps, BeginKeeps, CopyKeeps, MosaicsKeep, BitmapsKeep, CanvasKeeps, PathKeeps, RectKeeps,
     FlushKeeps, FailureKeeps, NextPictureKeeps, ReadKeeps, WriteBackKeeps DEF DrawerNext
<1> QED
  BY <1>1, <1>2

(* The picture that leaves Apply is this frame's with everything asked for *)
(* on it, in order, whatever the cache held before, and what callbacks     *)
(* were given stays as it was.                                             *)
THEOREM OverlaysAlwaysDrawn == DrawerSpec => []OverlaysDrawn
<1>1. DrawerInv => OverlaysDrawn
  BY InvImpliesDrawn
<1> QED
  BY <1>1, InitDrawer, NextDrawer, PTL DEF DrawerSpec
=============================================================================
