-------------------------------- MODULE Images --------------------------------
(***************************************************************************)
(* Images, the memory they live in, and the calls that fill them: the      *)
(* image processors of AX650, AX620E and AXCL                              *)
(* (src/src/common/ax_image_processor_*.cpp), the JPEG codec               *)
(* (src/src/codec/ax_jpeg_codec.cpp), AxImage (ax_image.cpp) and CopyImage *)
(* (ax_image_copy.cpp).                                                    *)
(*                                                                         *)
(* A processor serves one call at a time: the pipeline holds               *)
(* frame_processor_mutex_ around it, the encoder and the JPEG codec make   *)
(* one of their own.  So a call runs alone here, one step for each thing   *)
(* that can fail, and the images, pools and processors it leaves behind    *)
(* are what the next one finds.  A picture is the number of the call that  *)
(* it was made for, and an image shows which part of it lies in it.  The   *)
(* system is initialised and its threads have their context.               *)
(***************************************************************************)
EXTENDS ImageGeometry, FiniteSets, Sequences, Functions

CONSTANTS
  Chips,         \* "ax650", "ax620e", "axcl"
  Sources,       \* the application's images: [desc, device], device if they have a physical address
  Destinations,  \* the descriptors it makes destinations of
  Requests,
  JpegSizes,     \* of the JPEG pictures it decodes: [width, height]
  MaxCalls

(* AxImage::Create and WrapExternal make no image of a descriptor that is  *)
(* not valid, and every field of a request or of a JPEG header is unsigned *)
(* but a crop's corner.                                                    *)
ASSUME ImagesAssumption ==
  /\ Chips \subseteq {"ax650", "ax620e", "axcl"}
  /\ \A s \in Sources : s.desc \in Descriptor /\ IsValidDescriptor(s.desc) /\ s.device \in BOOLEAN
  /\ Requests \subseteq Request
  /\ \A size \in JpegSizes : size.width \in Nat /\ size.height \in Nat

VARIABLES
  chip,
  images,   \* the AxImage of each name, or NoImage
  pools,    \* the descriptor of each pool that exists
  entries,  \* pools_ of the application's processor and of the one a call makes
  stream,   \* TRUE if the JPEG stream buffer is allocated
  call,     \* what runs
  calls     \* how many have begun

imagesVars == <<chip, images, pools, entries, stream, call, calls>>

ImageNames == {"source", "destination",             \* the application's
          "output", "temporary", "native", "prepared",  \* a call's own
          "cached", "localCached",             \* intermediate_ of either processor
          "kept"}                              \* what the last call returned
Processors == {"shared", "local"}

NoImage == [desc |-> 0]
NoRequest == [output |-> 0]
Idle == [kind |-> "idle", phase |-> "idle", processor |-> "shared",
         from |-> "source", to |-> "destination", request |-> NoRequest, todo |-> <<>>, retried |-> FALSE]

Live == {n \in ImageNames : images[n] # NoImage}
Region0 == [x |-> 0, y |-> 0, width |-> 0, height |-> 0]
Blank == [picture |-> 0, region |-> Region0, around |-> "stale"]
Painted == [Blank EXCEPT !.around = "painted"]
Shows(picture, region) == [picture |-> picture, region |-> region, around |-> "picture"]

-----------------------------------------------------------------------------
(* Memory.  A pool goes with the last PoolHandle: an entry of a processor  *)
(* or the lifetime holder of an image.                                     *)

MakeImage(d, pool, lifetime) ==
  [desc |-> NormalizeDescriptor(d), device |-> TRUE, pool |-> pool, lifetime |-> lifetime, shows |-> Blank]

NoLifetime(pool) == 0  \* A plausible error: AttachLifetime forgotten.

Lifetime(pool) == pool

Drop(im, names) == [n \in ImageNames |-> IF n \in names THEN NoImage ELSE im[n]]

Referenced(im, en) ==
  (UNION {en[p] : p \in Processors}) \cup {im[n].lifetime : n \in {m \in ImageNames : im[m] # NoImage}}

Settle(im, en, po) ==
  /\ images' = im
  /\ entries' = en
  /\ pools' = Restrict(po, DOMAIN po \cap Referenced(im, en))

FreePool == CHOOSE id \in 1..(Cardinality(DOMAIN pools) + 1) : id \notin DOMAIN pools

(* AcquirePool, then AxImage::Create in the pool.  Creating the pool or    *)
(* taking a block of it may fail.                                          *)
CreateInPool(p, name, d, next) ==
  LET found == {id \in entries[p] : pools[id] = d}
      id == IF found # {} THEN CHOOSE i \in found : TRUE ELSE FreePool
  IN  /\ ByteSize(d) # 0
      /\ IsValidDescriptor(d)
      /\ Settle([images EXCEPT ![name] = MakeImage(d, id, Lifetime(id))],
                [entries EXCEPT ![p] = @ \cup {id}],
                [i \in DOMAIN pools \cup {id} |-> IF i = id THEN d ELSE pools[i]])
      /\ call' = next

CreateInCmm(name, d, next) ==
  /\ IsValidDescriptor(d)
  /\ Settle([images EXCEPT ![name] = MakeImage(d, 0, 0)], entries, pools)
  /\ call' = next

(* The locals of Process go when it returns, and those of the call around  *)
(* it: the processor it made, and the result unless it is returned.        *)
Leave(im) ==
  /\ Settle(Drop(im, ImageNames \ {"source", "cached", "kept"}), [entries EXCEPT !["local"] = {}], pools)
  /\ call' = Idle

Fails == Leave(images) /\ UNCHANGED <<chip, stream, calls>>

(* A pool created for an image that could not be: the entry stays.         *)
FailsWithPool(p, d) ==
  /\ \A id \in entries[p] : pools[id] # d
  /\ ByteSize(d) # 0
  /\ p = "shared"
  /\ Settle(Drop(images, ImageNames \ {"source", "cached", "kept"}),
            [entries EXCEPT !["shared"] = @ \cup {FreePool}, !["local"] = {}],
            [i \in DOMAIN pools \cup {FreePool} |-> IF i = FreePool THEN d ELSE pools[i]])
  /\ call' = Idle
  /\ UNCHANGED <<chip, stream, calls>>

-----------------------------------------------------------------------------
(* What Process does, operation by operation.                              *)

Op(do, from, to) == [do |-> do, from |-> from, to |-> to, engine |-> "any", stretch |-> FALSE]
On(engine, op) == [op EXCEPT !.engine = engine]
When(condition, ops) == IF condition THEN ops ELSE <<>>

IntermediateOf(p) == IF p = "shared" THEN "cached" ELSE "localCached"

StageInOutputFormat(s, d) == d.format  \* A plausible error.

StageFormat(s, d) == s.format

PlanAx650(s, d, c) ==
  LET fill == c.request.keep
      same == SameGeometryAndFormat(s, d, c.request)
      geometry == NeedsGeometryChange(s, d, c.request)
      tmp == IntermediateOf(c.processor)
  IN  CASE same -> <<[Op("resize", c.from, c.to) EXCEPT !.stretch = TRUE]>>
        [] ~geometry /\ s.format # d.format -> <<Op("csc", c.from, c.to)>>
        [] ~same /\ s.format = d.format ->
             When(fill /\ geometry, <<Op("fill", c.to, c.to)>>) \o <<Op("resize", c.from, c.to)>>
        [] OTHER ->
             <<Op("make", c.from, tmp)>> \o When(fill, <<Op("fill", tmp, tmp)>>)
               \o <<Op("resize", c.from, tmp), Op("csc", tmp, c.to)>>

PlanAx620e(s, d, c) ==
  LET fill == c.request.keep
      same == SameGeometryAndFormat(s, d, c.request)
      geometry == NeedsGeometryChange(s, d, c.request)
      engine == IF s.format \in Packed THEN "TDP" ELSE "VPP"
      copier == IF s.format = "kNv12" /\ images[c.from].device THEN "VPP" ELSE "any"
  IN  CASE same -> <<On(copier, Op("copy", c.from, c.to))>>
        [] ~geometry /\ s.format # d.format -> <<On("TDP", Op("csc", c.from, c.to))>>
        [] ~same /\ s.format = d.format ->
             When(fill, <<Op("fill", c.to, c.to)>>) \o <<On(engine, Op("resize", c.from, c.to))>>
        [] OTHER ->
             <<Op("make", c.from, "temporary")>> \o When(fill, <<Op("fill", "temporary", "temporary")>>)
               \o <<On("VPP", Op("resize", c.from, "temporary")), On("TDP", Op("csc", "temporary", c.to))>>

PlanAxcl(s, d, c) ==
  LET staged == ~images[c.from].device
      from == IF staged THEN "temporary" ELSE c.from
  IN  IF SameGeometryAndFormat(s, d, c.request)
      THEN <<Op("copy", c.from, c.to)>>
      ELSE When(staged, <<Op("make", c.from, "temporary"), Op("copy", c.from, "temporary")>>)
             \o IF ~NeedsGeometryChange(s, d, c.request)
                THEN <<On("VGP", Op("csc", from, c.to))>>
                ELSE <<Op("clear", c.to, c.to),
                       On(IF d.format \in Packed THEN "VGP" ELSE "VPP", Op("resize", from, c.to))>>

Plan(s, d, c) ==
  CASE chip = "ax650" -> PlanAx650(s, d, c)
    [] chip = "ax620e" -> PlanAx620e(s, d, c)
    [] chip = "axcl" -> PlanAxcl(s, d, c)

(* The descriptor of the image made on the way.                            *)
IntermediateDescriptor(s, d) ==
  CASE chip = "ax650" -> MakeAlignedDescriptor(StageFormat(s, d), d.width, d.height)
    [] chip = "ax620e" -> [format |-> StageFormat(s, d), width |-> d.width, height |-> d.height,
                           stride0 |-> d.width, stride1 |-> d.width]
    [] chip = "axcl" -> [s EXCEPT !.stride0 = 0, !.stride1 = 0]

-----------------------------------------------------------------------------
(* Process.                                                                *)

op == Head(call.todo)
Next1 == [call EXCEPT !.todo = Tail(@), !.retried = FALSE]
From == images[op.from]
To == images[op.to]
Output == ResolveOutput(images[call.from].desc, call.request)

(* AxImage::Ptr Process(source, request): makes the output.                *)
CreateOutput ==
  /\ call.phase = "create"
  /\ Resolvable(Output)
  /\ LET next == [call EXCEPT !.phase = "check"]
     IN  IF chip = "axcl" THEN CreateInCmm("output", Output, next)
                          ELSE CreateInPool(call.processor, "output", Output, next)
  /\ UNCHANGED <<chip, stream, calls>>

CreateOutputFails ==
  /\ call.phase = "create"
  /\ \/ Fails
     \/ Resolvable(Output) /\ chip # "axcl" /\ FailsWithPool(call.processor, Output)

(* bool Process(source, request, destination): its tests.                  *)
CheckRequest ==
  /\ call.phase = "check"
  /\ LET s == images[call.from].desc
         d == images[call.to].desc
     IN  IF /\ ValidateCrop(s, call.request)
            /\ Resolvable(Output)
            /\ FitsOutput(d, Output)
         THEN /\ call' = [call EXCEPT !.phase = "run", !.todo = Plan(s, d, call)]
              /\ UNCHANGED <<chip, images, pools, entries, stream, calls>>
         ELSE Fails

SameSize(image, d) ==  \* A plausible error: the format is not compared.
  image # NoImage /\ image.desc.width = d.width /\ image.desc.height = d.height

Reusable(image, d) == image # NoImage /\ image.desc = d

(* AcquireIntermediate, AX620E's intermediate, AXCL's staged source.       *)
MakeIntermediate ==
  /\ call.phase = "run" /\ call.todo # <<>> /\ op.do = "make"
  /\ LET d == IntermediateDescriptor(From.desc, images[call.to].desc)
     IN  CASE chip = "ax650" ->
                IF Reusable(To, d)
                THEN call' = Next1 /\ UNCHANGED <<images, pools, entries>>
                ELSE Alignable(d) /\ CreateInCmm(op.to, d, Next1)
           [] chip = "ax620e" -> CreateInPool(call.processor, op.to, d, Next1)
           [] chip = "axcl" -> CreateInCmm(op.to, d, Next1)
  /\ UNCHANGED <<chip, stream, calls>>

(* intermediate_ is then empty; AX620E may have made the pool.             *)
MakeIntermediateFails ==
  /\ call.phase = "run" /\ call.todo # <<>> /\ op.do = "make"
  /\ LET d == IntermediateDescriptor(From.desc, images[call.to].desc)
     IN  \/ /\ chip # "ax650" \/ ~Reusable(To, d)
            /\ Leave(IF Alignable(d) THEN Drop(images, {op.to}) ELSE images)
            /\ UNCHANGED <<chip, stream, calls>>
         \/ chip = "ax620e" /\ FailsWithPool(call.processor, d)

(* Where an operation is tried when its first engine has failed: on VPP a  *)
(* resize that was dispatched (AX650) or TDP was asked for (AX620E), on TDP*)
(* a conversion that was dispatched, and in its other ways a copy.         *)
Fallback ==
  CASE op.do = "resize" /\ op.engine \in {"any", "TDP"} -> "VPP"
    [] op.do = "csc" /\ op.engine = "any" -> "TDP"
    [] op.do = "copy" /\ op.engine = "VPP" -> "any"
    [] OTHER -> op.engine

Engine == IF call.retried THEN Fallback ELSE op.engine

(* The part of From that is asked for, and the part the engine reads: its  *)
(* frame is cropped, unless a copy moves the bytes of whole planes.        *)
AskedFor == IF op.do = "resize" THEN Region(From.desc, call.request) ELSE Whole(From.desc)
Read == IF op.do = "copy" /\ Engine = "any" THEN AskedFor ELSE FrameCrop(AskedFor)

(* The part of To the picture covers.                                      *)
Placed ==
  IF op.stretch \/ ~call.request.keep \/ (chip # "ax620e" /\ SameProportions(Read, To.desc))
  THEN Whole(To.desc)
  ELSE IF chip = "ax620e" THEN Rect(Letterbox(AskedFor, To.desc, call.request.align))
  ELSE Region0

Result ==
  CASE op.do \in {"fill", "clear"} -> Painted
    [] op.do \in {"csc", "copy"} -> IF Read = AskedFor THEN From.shows ELSE Blank
    [] op.do = "resize" ->
         [picture |-> From.shows.picture, region |-> Read,
          around |-> IF Placed = Whole(To.desc) THEN "picture" ELSE To.shows.around]

(* An engine, or the CPU, does it.  A fill, and the ways to move bytes that*)
(* CopyImage tries one after the other, are within the step.               *)
Operate ==
  /\ call.phase = "run" /\ call.todo # <<>> /\ op.do # "make"
  /\ images' = [images EXCEPT ![op.to].shows = Result]
  /\ call' = Next1
  /\ UNCHANGED <<chip, pools, entries, stream, calls>>

(* The first engine failed, and has written nothing: the next is asked.    *)
Retry ==
  /\ call.phase = "run" /\ call.todo # <<>>
  /\ ~call.retried /\ Fallback # op.engine
  /\ call' = [call EXCEPT !.retried = TRUE]
  /\ UNCHANGED <<chip, images, pools, entries, stream, calls>>

OperateFails ==
  /\ call.phase = "run" /\ call.todo # <<>> /\ op.do # "make"
  /\ Fails

(* The output holds its pool; the destination is read by whoever gave it.  *)
ProcessReturns ==
  /\ call.phase = "run" /\ call.todo = <<>>
  /\ IF call.kind = "encode"
     THEN /\ Settle(Drop(images, {"localCached", "temporary"}), [entries EXCEPT !["local"] = {}], pools)
          /\ call' = [Idle EXCEPT !.kind = "encode", !.phase = "flush", !.from = "prepared"]
     ELSE Leave(IF call.to = "output" THEN [images EXCEPT !["kept"] = images["output"]] ELSE images)
  /\ UNCHANGED <<chip, stream, calls>>

-----------------------------------------------------------------------------
(* JPEG.  Process makes the output of a decode, and the input of an encode.*)

DecodeJpegBytes(r) ==  \* Allocates the stream buffer.
  /\ call = Idle /\ calls < MaxCalls
  /\ calls' = calls + 1
  /\ ~r.enable_crop /\ ~r.keep
  /\ stream' = TRUE
  /\ call' = [Idle EXCEPT !.kind = "decode", !.phase = "parse", !.processor = "local",
                          !.from = "native", !.to = "output", !.request = r]
  /\ UNCHANGED <<chip, images, pools, entries>>

ParseJpegDimensions(size) ==  \* And makes the native image.
  /\ call.phase = "parse"
  /\ CreateInCmm("native", MakeNativeJpegDescriptor(size.width, size.height), [call EXCEPT !.phase = "decode"])
  /\ UNCHANGED <<chip, stream, calls>>

FailsForgettingStream == Fails  \* A plausible error: an early return that frees nothing.

FailsFreeingStream == Leave(images) /\ stream' = FALSE /\ UNCHANGED <<chip, calls>>

DecodeFails == call.phase \in {"parse", "decode"} /\ FailsFreeingStream

JpegDecodeOneFrame ==
  /\ call.phase = "decode"
  /\ stream' = FALSE
  /\ LET decoded == [images EXCEPT !["native"].shows = Shows(calls, Whole(images["native"].desc))]
     IN  IF HasRequestedOutputTransform(call.request.output, images["native"].desc)
         THEN /\ images' = decoded
              /\ call' = [call EXCEPT !.phase = "create"]
              /\ UNCHANGED <<pools, entries>>
         ELSE Leave([decoded EXCEPT !["kept"] = decoded["native"]])
  /\ UNCHANGED <<chip, calls>>

SourceImage(s) ==
  [desc |-> NormalizeDescriptor(s.desc), device |-> s.device, pool |-> 0, lifetime |-> 0,
   shows |-> Shows(calls + 1, Whole(s.desc))]

EncodeJpegBytes(s) ==
  LET image == SourceImage(s)
      stride == JpegStride(s.desc.width)
      d == MakeNativeJpegDescriptor(s.desc.width, s.desc.height)
  IN  /\ call = Idle /\ calls < MaxCalls
      /\ calls' = calls + 1
      /\ IF EncodableAsIs(image.desc, s.device)
         THEN /\ images' = [images EXCEPT !["source"] = image]
              /\ call' = [Idle EXCEPT !.kind = "encode", !.phase = "flush"]
         ELSE /\ IsValidDescriptor(d)
              /\ images' = [images EXCEPT !["source"] = image, !["prepared"] = MakeImage(d, 0, 0)]
              /\ call' = [Idle EXCEPT !.kind = "encode", !.phase = "check", !.processor = "local",
                           !.to = "prepared",
                           !.request = [output |-> d, enable_crop |-> FALSE, crop |-> Region0,
                                        keep |-> FALSE, align |-> "kCenter"]]
      /\ UNCHANGED <<chip, pools, entries, stream>>

FlushInput ==  \* And allocates the stream buffer.
  /\ call.phase = "flush"
  /\ stream' = TRUE
  /\ call' = [call EXCEPT !.phase = "encode"]
  /\ UNCHANGED <<chip, images, pools, entries, calls>>

FlushInputFails == call.phase = "flush" /\ Fails

JpegEncodeOneFrame == call.phase = "encode" /\ FailsFreeingStream  \* Or succeeds: the same is freed.

-----------------------------------------------------------------------------
(* The application.                                                        *)

ProcessValue(s, r) ==
  /\ call = Idle /\ calls < MaxCalls
  /\ calls' = calls + 1
  /\ images' = [images EXCEPT !["source"] = SourceImage(s)]
  /\ call' = [Idle EXCEPT !.kind = "process", !.phase = "create", !.to = "output", !.request = r]
  /\ UNCHANGED <<chip, pools, entries, stream>>

ProcessInto(s, r, d) ==
  /\ call = Idle /\ calls < MaxCalls
  /\ calls' = calls + 1
  /\ IsValidDescriptor(d)
  /\ images' = [images EXCEPT !["source"] = SourceImage(s), !["destination"] = MakeImage(d, 0, 0)]
  /\ call' = [Idle EXCEPT !.kind = "process", !.phase = "check", !.request = r]
  /\ UNCHANGED <<chip, pools, entries, stream>>

DropProcessor ==
  /\ call = Idle
  /\ entries["shared"] # {} \/ images["cached"] # NoImage
  /\ Settle(Drop(images, {"cached"}), [entries EXCEPT !["shared"] = {}], pools)
  /\ UNCHANGED <<chip, stream, call, calls>>

DropResult ==
  /\ call = Idle
  /\ images["kept"] # NoImage
  /\ Settle(Drop(images, {"kept"}), entries, pools)
  /\ UNCHANGED <<chip, stream, call, calls>>

-----------------------------------------------------------------------------
ImagesInit ==
  /\ chip \in Chips
  /\ images = [n \in ImageNames |-> NoImage]
  /\ pools = <<>>
  /\ entries = [p \in Processors |-> {}]
  /\ stream = FALSE /\ call = Idle /\ calls = 0

ImagesNext ==
  \/ \E s \in Sources, r \in Requests :
       ProcessValue(s, r) \/ \E d \in Destinations : ProcessInto(s, r, d)
  \/ \E r \in Requests : DecodeJpegBytes(r)
  \/ \E s \in Sources : EncodeJpegBytes(s)
  \/ CreateOutput \/ CreateOutputFails \/ CheckRequest
  \/ MakeIntermediate \/ MakeIntermediateFails \/ Operate \/ Retry \/ OperateFails \/ ProcessReturns
  \/ \E size \in JpegSizes : ParseJpegDimensions(size)
  \/ DecodeFails \/ JpegDecodeOneFrame
  \/ FlushInput \/ FlushInputFails \/ JpegEncodeOneFrame
  \/ DropProcessor \/ DropResult

ImagesSpec == ImagesInit /\ [][ImagesNext]_imagesVars

-----------------------------------------------------------------------------
(* Properties.                                                             *)

(* A pool outlives every block taken from it, whoever drops the processor  *)
(* first, and a call that is over, however it ended, has left no stream    *)
(* buffer and no image of its own behind.                                  *)
MemoryReturned ==
  /\ \A n \in Live : images[n].pool # 0 => images[n].pool \in DOMAIN pools
  /\ call = Idle => ~stream /\ Live \subseteq {"source", "cached", "kept"}

(* What an engine is asked for it can do: AX650 and AX620E resize within a *)
(* format, no engine reads nothing or outside the picture or writes outside*)
(* the image, and AXCL's need device addresses.  VPP of AX620E, which takes*)
(* NV12 only, is the first to be asked for nothing else; it is asked for   *)
(* packed RGB once TDP has failed, and the code expects it to refuse.      *)
EnginesFed ==
  call.phase = "run" /\ call.todo # <<>> /\ op.do \in {"resize", "csc", "copy"} =>
    /\ Within(Read, From.desc) /\ Read.width > 0 /\ Read.height > 0
    /\ chip = "ax620e" /\ Engine = "VPP" => From.desc.format = "kNv12" \/ call.retried
    /\ op.do = "resize" =>
         /\ chip # "axcl" => From.desc.format = To.desc.format
         /\ Within(Placed, To.desc)
    /\ op.do # "resize" => From.desc.width = To.desc.width /\ From.desc.height = To.desc.height
    /\ op.do = "copy" => From.desc.format = To.desc.format
    /\ chip = "axcl" /\ op.do # "copy" => From.device /\ To.device

(* When Process is about to succeed the destination shows the picture of   *)
(* this call, the part of it asked for, and nothing old around it, on every*)
(* chip and whatever way was chosen.                                       *)
Delivered ==
  call.phase = "run" /\ call.todo = <<>> =>
    LET shown == images[call.to].shows
    IN  /\ shown.picture = calls
        /\ shown.region = Region(images[call.from].desc, call.request)
        /\ shown.around # "stale"

(* Both, as one invariant.                                                 *)
ProcessedRight == EnginesFed /\ Delivered
=============================================================================
