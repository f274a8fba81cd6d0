-------------------------------- MODULE Drawer --------------------------------
(***************************************************************************)
(* Drawing on an image: AxDrawer's Prepare and Apply on AX650, AX620E and  *)
(* AXCL (src/src/pipeline/ax_pipeline_osd_*.cpp), the cache maintenance of *)
(* AxImage (ax_image.cpp) and the copy that Pipeline draws on              *)
(* (ax_pipeline.cpp, ApplyOsdIfNeeded; ax_image_copy.cpp).                 *)
(*                                                                         *)
(* Mosaics and bitmaps are drawn by the hardware, in memory.  Lines,       *)
(* polygons and rectangles are drawn by the CPU, which on a cached image   *)
(* sees and changes its cache.  The marks on a picture are numbered in the *)
(* order they are to be drawn: 1 the mosaics, 2 the bitmaps, 2 + i the     *)
(* stroke i.  Colours, blocks and thickness of lines are left out.         *)
(***************************************************************************)
EXTENDS Integers, Sequences, Functions

CONSTANTS
  Boards,        \* "ax650", "ax620e", "axcl": the platform built for
  DrawFrames,    \* the application's: [mosaics, bitmaps, lines, polygons, rects]
  FrameSize,     \* of the picture: [width, height, rows], rows the lines up to the UV plane
  PolygonPoints, \* the numbers of points AX_IVPS_DrawPolygon takes
  MaxPictures

MaxS16 == 32767
MaxU16 == 65535

Points == [x : Int, y : Int]
Paths == [kind : {"line", "polygon"}, points : Seq(Points)]
Rects == [kind : {"rect"}, x : Int, y : Int, width : Nat, height : Nat, thickness : Nat]
Mosaics == [x : Int, y : Int, width : Nat, height : Nat]
Bitmaps == [width : Nat, height : Nat, bits : Nat, size : Nat]
Frames == [mosaics : Seq(Mosaics), bitmaps : Seq(Bitmaps), lines : Seq(Paths), polygons : Seq(Paths),
           rects : Seq(Rects)]

ASSUME DrawerAssumption ==
  /\ Boards \subseteq {"ax650", "ax620e", "axcl"}
  /\ DrawFrames \subseteq Frames
  /\ FrameSize \in [width : 1..MaxS16, height : 1..MaxS16, rows : 1..MaxS16]

VARIABLES
  board,
  surfaces,  \* the frame and the pipeline's copy of it
  prepared,  \* what Prepare made last
  drawing,   \* the Apply that runs or ran last, and the copy before it
  pictures   \* how many the frame has shown

drawerVars == <<board, surfaces, prepared, drawing, pictures>>

Nothing == [mosaics |-> <<>>, bitmaps |-> <<>>, lines |-> <<>>, polygons |-> <<>>, rects |-> <<>>]
Strokes(f) == f.lines \o f.polygons \o f.rects

-----------------------------------------------------------------------------
(* An image: what its memory holds, and what the CPU's cache holds of it.  *)

Show(picture) == [picture |-> picture, marks |-> <<>>]
NoLines == Show(0)
Surface(cached, content) == [cached |-> cached, memory |-> content, lines |-> NoLines, dirty |-> FALSE]

Mark(content, mark) == [content EXCEPT !.marks = Append(@, mark)]
Seen(s) == IF s.lines = NoLines THEN s.memory ELSE s.lines

DrawnByHardware(s, mark) == [s EXCEPT !.memory = Mark(@, mark)]
DrawnByCpu(s, mark) ==
  IF s.cached THEN [s EXCEPT !.lines = Mark(Seen(s), mark), !.dirty = TRUE]
              ELSE [s EXCEPT !.memory = Mark(@, mark)]

Flushed(s) == IF s.dirty THEN [s EXCEPT !.memory = s.lines, !.dirty = FALSE] ELSE s

NotInvalidated(s) == s  \* A plausible error: the CPU draws on what it read before.

Invalidated(s) == [s EXCEPT !.lines = NoLines, !.dirty = FALSE]

-----------------------------------------------------------------------------
(* Prepare.                                                                *)

FitsAxCoordinate(v) == v \in 0..MaxS16
FitsAxSize(v) == v \in 1..MaxU16

MosaicFits(m) ==
  /\ FitsAxCoordinate(m.x) /\ FitsAxCoordinate(m.y)
  /\ FitsAxSize(m.width) /\ FitsAxSize(m.height)

BitmapRowBytes(b) == IF b.bits = 1 THEN (b.width + 7) \div 8 ELSE b.width * (b.bits \div 8)

(* The hardware wants rows of whole 16 bytes.                              *)
BitmapFits(b) ==
  /\ b.width # 0 /\ b.height # 0
  /\ BitmapRowBytes(b) # 0 /\ BitmapRowBytes(b) % 16 = 0
  /\ b.size = BitmapRowBytes(b) * b.height

(* Lines and polygons are looked at when they are drawn, rectangles are    *)
(* clamped then.                                                           *)
Preparable(f) ==
  /\ \A i \in DOMAIN f.mosaics : MosaicFits(f.mosaics[i])
  /\ \A i \in DOMAIN f.bitmaps : BitmapFits(f.bitmaps[i])

OnlyRects(f) == f.lines = <<>> /\ f.polygons = <<>> /\ f.mosaics = <<>> /\ f.bitmaps = <<>>

(* Otherwise, or when memory for a bitmap cannot be had, nothing changes.  *)
Prepare(f) ==
  /\ IF board = "axcl" THEN OnlyRects(f) ELSE Preparable(f)
  /\ prepared' = f
  /\ UNCHANGED <<board, surfaces, drawing, pictures>>

-----------------------------------------------------------------------------
(* The canvas, and a rectangle clamped into it.                            *)

CanvasByUvOffset(on) ==
  [w |-> FrameSize.width, h |-> IF on = "frame" THEN FrameSize.rows ELSE FrameSize.height]
CanvasAxcl == [w |-> FrameSize.width, h |-> FrameSize.height]
Canvas(on) == IF board = "axcl" THEN CanvasAxcl ELSE CanvasByUvOffset(on)

Larger(i, j) == IF i >= j THEN i ELSE j
Smaller(i, j) == IF i <= j THEN i ELSE j

(* The stroke lies outside the rectangle, on every side.                   *)
Clamp(r, c) ==
  [x0 |-> Larger(r.x, r.thickness), y0 |-> Larger(r.y, r.thickness),
   x1 |-> Smaller(r.x + r.width, c.w - r.thickness), y1 |-> Smaller(r.y + r.height, c.h - r.thickness)]

Skipped(r, c) ==
  LET k == Clamp(r, c)
  IN  r.width = 0 \/ r.height = 0 \/ k.x1 - k.x0 < 1 \/ k.y1 - k.y0 < 1

(* What AX_IVPS_DrawRect takes: the stroked rectangle within the canvas.   *)
Legal(k, thickness, c) ==
  /\ k.x0 - thickness >= 0 /\ k.x1 + thickness <= c.w
  /\ k.y0 - thickness >= 0 /\ k.y1 + thickness <= c.h

EnoughPoints(s) == IF s.kind = "line" THEN Len(s.points) >= 2 ELSE Len(s.points) \in PolygonPoints
MakeAxPoints(s) ==
  \A i \in DOMAIN s.points : FitsAxCoordinate(s.points[i].x) /\ FitsAxCoordinate(s.points[i].y)
Drawable(s) == EnoughPoints(s) /\ MakeAxPoints(s)

-----------------------------------------------------------------------------
(* ApplyOsdIfNeeded and Apply.                                             *)

Idle0 == [phase |-> "idle", on |-> "frame", commands |-> Nothing, next |-> 1, refused |-> {}]
Over == {"idle", "drawn", "failed"}

target == surfaces[drawing.on]
stroke == Strokes(drawing.commands)[drawing.next]

Draws(surface, phase) ==
  /\ surfaces' = [surfaces EXCEPT ![drawing.on] = surface]
  /\ drawing' = [drawing EXCEPT !.phase = phase]
  /\ UNCHANGED <<board, prepared, pictures>>

(* The frame may be drawn on in place, or is what callbacks see, so that   *)
(* a copy is drawn on.  The driver will refuse some rectangles for reasons *)
(* of its own.                                                             *)
ApplyOsd(on, refused) ==
  /\ drawing.phase \in Over
  /\ surfaces["frame"].memory = Show(pictures) /\ ~surfaces["frame"].dirty
  /\ on = "copy" => ~surfaces["frame"].cached
  /\ drawing' = [phase |-> IF on = "copy" THEN "copy" ELSE "mosaics", on |-> on,
                 commands |-> prepared, next |-> 1, refused |-> refused]
  /\ UNCHANGED <<board, surfaces, prepared, pictures>>

CopyImageForOsd ==
  /\ drawing.phase = "copy"
  /\ Draws(Surface(FALSE, surfaces["frame"].memory), "mosaics")

DrawMosaics ==
  /\ drawing.phase = "mosaics"
  /\ Draws(IF drawing.commands.mosaics = <<>> THEN target ELSE DrawnByHardware(target, 1), "bitmaps")

DrawBitmaps ==
  /\ drawing.phase = "bitmaps"
  /\ Draws(IF drawing.commands.bitmaps = <<>> THEN target
           ELSE DrawnByHardware(IF board = "ax620e" THEN Invalidated(target) ELSE target, 2), "canvas")

ReadyCanvas ==
  /\ drawing.phase = "canvas"
  /\ IF Strokes(drawing.commands) = <<>>
     THEN Draws(target, IF board = "ax620e" THEN "flush" ELSE "drawn")
     ELSE Draws(Invalidated(target), "strokes")

Stroke(surface) ==
  /\ surfaces' = [surfaces EXCEPT ![drawing.on] = surface]
  /\ drawing' = [drawing EXCEPT !.next = @ + 1,
                                !.phase = IF drawing.next = Len(Strokes(drawing.commands)) THEN "flush" ELSE @]
  /\ UNCHANGED <<board, prepared, pictures>>

DrawLineOrPolygon ==
  /\ drawing.phase = "strokes" /\ stroke.kind # "rect"
  /\ Drawable(stroke)
  /\ Stroke(DrawnByCpu(target, drawing.next + 2))

(* One that the driver refuses is left out, the others are drawn.          *)
DrawRect ==
  /\ drawing.phase = "strokes" /\ stroke.kind = "rect"
  /\ LET c == Canvas(drawing.on)
     IN  Stroke(IF /\ ~Skipped(stroke, c)
                   /\ Legal(Clamp(stroke, c), stroke.thickness, c)
                   /\ drawing.next \notin drawing.refused
                THEN DrawnByCpu(target, drawing.next + 2) ELSE target)

FlushDrawn ==
  /\ drawing.phase = "flush"
  /\ Draws(Flushed(target), "drawn")

(* A return of false.  What was drawn before stays, and is not flushed.    *)
ApplyFails ==
  /\ \/ drawing.phase \in {"copy", "mosaics", "flush"}
     \/ drawing.phase = "bitmaps" /\ drawing.commands.bitmaps # <<>>
     \/ drawing.phase = "canvas" /\ Strokes(drawing.commands) # <<>>
     \/ drawing.phase = "strokes" /\ stroke.kind # "rect"
  /\ Draws(target, "failed")

-----------------------------------------------------------------------------
(* Around it: the hardware puts the next picture in the buffer, if need be *)
(* in another one, the application reads it through the cache, and the     *)
(* cache writes back when it likes.  The application keeps to docs/image.md*)
(* and takes no buffer with unflushed lines for the hardware.              *)

NextPicture ==
  /\ drawing.phase \in Over
  /\ pictures < MaxPictures
  /\ pictures' = pictures + 1
  /\ surfaces' = [surfaces EXCEPT !["frame"] =
       IF @.dirty THEN Surface(@.cached, Show(pictures + 1)) ELSE [@ EXCEPT !.memory = Show(pictures + 1)]]
  /\ drawing' = [drawing EXCEPT !.phase = "idle"]
  /\ UNCHANGED <<board, prepared>>

ReadByCpu ==
  /\ surfaces["frame"].cached /\ surfaces["frame"].lines = NoLines
  /\ drawing.phase \in Over
  /\ surfaces' = [surfaces EXCEPT !["frame"].lines = surfaces["frame"].memory]
  /\ UNCHANGED <<board, prepared, drawing, pictures>>

WriteBack ==
  /\ surfaces["frame"].dirty
  /\ surfaces' = [surfaces EXCEPT !["frame"] = Flushed(@)]
  /\ UNCHANGED <<board, prepared, drawing, pictures>>

-----------------------------------------------------------------------------
DrawerInit ==
  /\ board \in Boards
  /\ \E cached \in BOOLEAN : surfaces = [n \in {"frame", "copy"} |-> Surface(n = "frame" /\ cached, Show(1))]
  /\ prepared = Nothing
  /\ drawing = Idle0
  /\ pictures = 1

DrawerNext ==
  \/ \E f \in DrawFrames : Prepare(f)
  \/ \E on \in {"frame", "copy"}, refused \in SUBSET DOMAIN Strokes(prepared) : ApplyOsd(on, refused)
  \/ CopyImageForOsd \/ DrawMosaics \/ DrawBitmaps \/ ReadyCanvas \/ DrawLineOrPolygon \/ DrawRect
  \/ FlushDrawn \/ ApplyFails
  \/ NextPicture \/ ReadByCpu \/ WriteBack

DrawerSpec == DrawerInit /\ [][DrawerNext]_drawerVars

-----------------------------------------------------------------------------
(* Properties.                                                             *)

(* Some pixel of the rectangle leaves room for the stroke beside it.       *)
Visible(r, c) ==
  /\ \E x \in r.thickness..(c.w - r.thickness - 1) : r.x <= x /\ x < r.x + r.width
  /\ \E y \in r.thickness..(c.h - r.thickness - 1) : r.y <= y /\ y < r.y + r.height

Wanted(d, i) ==
  LET s == Strokes(d.commands)[i]
  IN  s.kind = "rect" => Visible(s, Canvas(d.on)) /\ i \notin d.refused

Asked(d) ==
  {m \in {1} : d.commands.mosaics # <<>>}
    \cup {m \in {2} : d.commands.bitmaps # <<>>}
    \cup {i + 2 : i \in {j \in DOMAIN Strokes(d.commands) : Wanted(d, j)}}

Ascending(s) == \A i, j \in DOMAIN s : i < j => s[i] < s[j]

(* When Apply returned true, what the encoder will read in memory is the   *)
(* picture of this frame, not an older one from a stale cache, and on it   *)
(* everything that was asked for, in order: of rectangles those with a     *)
(* visible part, however large they are, that the driver took.  What       *)
(* callbacks were given is never drawn on.                                 *)
OverlaysDrawn ==
  /\ drawing.phase = "drawn" =>
       /\ target.memory.picture = pictures
       /\ Ascending(target.memory.marks)
       /\ Range(target.memory.marks) = Asked(drawing)
  /\ drawing.on = "copy" => surfaces["frame"].memory = Show(pictures)
=============================================================================
