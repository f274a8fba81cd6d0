---------------------------- MODULE ImageGeometry ----------------------------
(***************************************************************************)
(* Descriptors, crops and letterboxes: the arithmetic of                   *)
(* src/src/common/ax_image.cpp and of the image processors, with no state. *)
(*                                                                         *)
(* A descriptor's third stride is always 0 and left out.  The strides of a *)
(* plane the format has not are 0 in every descriptor the code completes.  *)
(***************************************************************************)
EXTENDS Integers

CONSTANTS
  WordSize,   \* 2^32: a crop's right and bottom edges are uint32_t
  ShortSize   \* 2^16: what a frame is cropped to is four AX_S16

ASSUME WordSizeAssumption == WordSize \in Nat \ {0}
ASSUME ShortSizeAssumption == ShortSize \in Nat \ {0}

Packed == {"kRgb24", "kBgr24"}
Formats == Packed \cup {"kNv12", "kUnknown"}
Descriptor == [format : Formats, width : Nat, height : Nat, stride0 : Nat, stride1 : Nat]
Crop == [x : Int, y : Int, width : Nat, height : Nat]
Request == [output : Descriptor, enable_crop : BOOLEAN, crop : Crop,
            keep : BOOLEAN, align : {"kStart", "kCenter", "kEnd"}]

Even(n) == n % 2 = 0
AtLeast(low, n) == IF n < low THEN low ELSE n
AtMost(high, n) == IF n > high THEN high ELSE n

-----------------------------------------------------------------------------
(* Descriptors.                                                            *)

MinStrideForFormat(format, width) ==
  CASE format = "kNv12" -> width
    [] format \in Packed -> 3 * width
    [] OTHER -> 0

(* IsValidDescriptor, a stride of 0 standing for the smallest.             *)
StrideAllowed(d, stride) ==
  stride # 0 => stride >= MinStrideForFormat(d.format, d.width) /\ (d.format \in Packed => stride % 3 = 0)

IsValidDescriptor(d) ==
  /\ d.width # 0 /\ d.height # 0
  /\ d.format # "kUnknown"
  /\ StrideAllowed(d, d.stride0)
  /\ d.format = "kNv12" => Even(d.width) /\ Even(d.height) /\ StrideAllowed(d, d.stride1)

NormalizeDescriptor(d) ==
  [d EXCEPT !.stride0 = IF @ = 0 THEN MinStrideForFormat(d.format, d.width) ELSE @,
            !.stride1 = IF @ = 0 /\ d.format = "kNv12" THEN d.width ELSE @]

(* InitializeLayout and ComputeImageByteSize: one plane after the other.   *)
ByteSize(d) ==
  d.stride0 * d.height + (IF d.format = "kNv12" THEN d.stride1 * (d.height \div 2) ELSE 0)

AlignUp(n, alignment) == ((n + alignment - 1) \div alignment) * alignment

(* Sixteen pixels.  A stride that is no multiple of 3 is refused.          *)
AlignedStride(format, width) ==
  AlignUp(MinStrideForFormat(format, width), IF format \in Packed THEN 48 ELSE 16)

MakeAlignedDescriptor(format, width, height) ==
  LET stride == AlignedStride(format, width)
  IN  [format |-> format, width |-> width, height |-> height,
       stride0 |-> stride, stride1 |-> IF format = "kNv12" THEN stride ELSE 0]

Alignable(d) == d.format = "kNv12" => Even(d.width) /\ Even(d.height)  \* MakeAlignedDescriptor succeeds.

(* A request's output, completed from the crop and from the source.        *)
ResolveOutput(source, r) ==
  LET o == r.output
      format == IF o.format = "kUnknown" THEN source.format ELSE o.format
      Size(asked, cropped, whole) ==
        IF asked # 0 THEN asked ELSE IF r.enable_crop /\ cropped # 0 THEN cropped ELSE whole
      width == Size(o.width, r.crop.width, source.width)
      stride0 == IF o.stride0 = 0 THEN AlignedStride(format, width) ELSE o.stride0
  IN  [format |-> format, width |-> width, height |-> Size(o.height, r.crop.height, source.height),
       stride0 |-> stride0,
       stride1 |-> IF format = "kNv12" /\ o.stride1 = 0 THEN stride0 ELSE o.stride1]

Resolvable(d) ==
  /\ d.width # 0 /\ d.height # 0
  /\ d.stride0 >= MinStrideForFormat(d.format, d.width)
  /\ Alignable(d)

(* What Process asks of the destination it is given.                       *)
FitsOutput(d, expected) ==
  /\ d.format = expected.format /\ d.width = expected.width /\ d.height = expected.height
  /\ d.stride0 >= expected.stride0
  /\ d.format = "kNv12" => d.stride1 >= expected.stride1

-----------------------------------------------------------------------------
(* Crops.                                                                  *)

ValidateCrop(source, r) ==
  LET c == r.crop
  IN  r.enable_crop =>
        /\ c.width # 0 /\ c.height # 0 /\ c.x >= 0 /\ c.y >= 0
        /\ (c.x + c.width) % WordSize <= source.width
        /\ (c.y + c.height) % WordSize <= source.height
        /\ source.format = "kNv12" => Even(c.x) /\ Even(c.y) /\ Even(c.width) /\ Even(c.height)

(* The part of a source that is asked for.                                 *)
Region(source, r) ==
  IF r.enable_crop THEN r.crop ELSE [x |-> 0, y |-> 0, width |-> source.width, height |-> source.height]

(* static_cast<AX_S16>, and an engine's frame cropped to a region.         *)
S16(n) == LET low == n % ShortSize IN IF low < ShortSize \div 2 THEN low ELSE low - ShortSize

FrameCrop(region) ==
  [x |-> S16(region.x), y |-> S16(region.y), width |-> S16(region.width), height |-> S16(region.height)]

Within(region, d) ==
  /\ region.x >= 0 /\ region.y >= 0
  /\ region.x + region.width <= d.width /\ region.y + region.height <= d.height

SameGeometryAndFormat(source, d, r) == ~r.enable_crop /\ source = d

SizeDiffers(source, d, r) == source.width # d.width \/ source.height # d.height  \* A plausible error.

NeedsGeometryChange(source, d, r) ==
  r.enable_crop \/ source.width # d.width \/ source.height # d.height

-----------------------------------------------------------------------------
(* MakeKeepAspectRatioManual: where AX620E puts the picture.               *)

AlignDownEven(n) == n - (n % 2)

LetterboxSide(side, limit) == AtLeast(2, AlignDownEven(AtLeast(1, AtMost(limit, side))))

Offset(pad, align) ==
  CASE align = "kStart" -> 0
    [] align = "kEnd" -> pad
    [] align = "kCenter" -> pad \div 2

Letterbox(region, d, align) ==
  LET WidthLimited == region.width * d.height >= region.height * d.width
      width == IF WidthLimited THEN d.width ELSE (region.width * d.height) \div region.height
      height == IF WidthLimited THEN (region.height * d.width) \div region.width ELSE d.height
      w == LetterboxSide(width, d.width)
      h == LetterboxSide(height, d.height)
  IN  [x |-> Offset(d.width - w, align), y |-> Offset(d.height - h, align), width |-> w, height |-> h]

(* In an AX_IVPS_RECT_T: a corner of two AX_S16, sides of two AX_U16.      *)
Rect(box) ==
  [x |-> S16(box.x), y |-> S16(box.y), width |-> box.width % ShortSize, height |-> box.height % ShortSize]

(* The whole of an image, as a place for the picture.                      *)
Whole(d) == [x |-> 0, y |-> 0, width |-> d.width, height |-> d.height]

(* The engine's own letterbox covers an image of the picture's proportions.*)
SameProportions(region, d) == region.width * d.height = region.height * d.width

-----------------------------------------------------------------------------
(* ax_jpeg_codec.cpp.                                                      *)

JpegStride(width) == AlignUp(width, 64)

MakeNativeJpegDescriptor(width, height) ==
  [format |-> "kNv12", width |-> width, height |-> height,
   stride0 |-> JpegStride(width), stride1 |-> JpegStride(width)]

HasRequestedOutputTransform(o, native) ==
  \/ o.format \notin {"kUnknown", native.format}
  \/ o.width \notin {0, native.width}
  \/ o.height \notin {0, native.height}
  \/ o.stride0 \notin {0, native.stride0}
  \/ o.stride1 \notin {0, native.stride1}

(* PrepareJpegEncodeInput takes the image as it is.                        *)
EncodableAsIs(image, onDevice) ==
  /\ image.format = "kNv12" /\ onDevice
  /\ image.stride0 = JpegStride(image.width) /\ image.stride1 = image.stride0
=============================================================================
