---------------------------- MODULE ImagesProofs ----------------------------
(***************************************************************************)
(* Memory is returned, for any chips, images, requests and calls; the      *)
(* arithmetic of letterboxes, crops and outputs stays within the images,   *)
(* for every size; and every request is done with what the engines can do  *)
(* and delivers the picture of its own call.                               *)
(***************************************************************************)
EXTENDS Images, SequenceTheorems, TLAPS

(***************************************************************************)
(* The inductive invariant.  A pool survives exactly as long as somebody   *)
(* refers to it, so an image in a pool must hold the pool itself, and every*)
(* entry of a processor must be of a pool that exists.                     *)
(***************************************************************************)
ImageFields == {"desc", "device", "pool", "lifetime", "shows"}

ImagesTyped(im) ==
  DOMAIN im = ImageNames /\ \A n \in ImageNames : im[n] = NoImage \/ DOMAIN im[n] = ImageFields

PoolsHeld(im, en, po) ==
  /\ DOMAIN en = Processors
  /\ \A p \in Processors : en[p] \subseteq DOMAIN po
  /\ \A n \in ImageNames : im[n] # NoImage /\ im[n].pool # 0 =>
                             im[n].lifetime = im[n].pool /\ im[n].pool \in DOMAIN po

(* Only some phases of a call have the stream buffer.                      *)
CallFields == {"kind", "phase", "processor", "from", "to", "request", "todo", "retried"}
IsCall(c) == DOMAIN c = CallFields /\ c.processor \in Processors
CallTyped == IsCall(call)

StreamInv == stream => call.phase \in {"parse", "decode", "encode"}

IdleInv == call = Idle => Live \subseteq {"source", "cached", "kept"}

ChipKnown == chip \in {"ax650", "ax620e", "axcl"}

MemoryInv ==
  CallTyped /\ ImagesTyped(images) /\ PoolsHeld(images, entries, pools) /\ StreamInv /\ IdleInv

LEMMA InvImpliesReturned == MemoryInv => MemoryReturned
BY DEF MemoryInv, PoolsHeld, StreamInv, IdleInv, MemoryReturned, Live, Idle

-----------------------------------------------------------------------------
(* Pools.                                                                  *)

LEMMA SettleInv ==
  ASSUME NEW im, NEW en, NEW po, ImagesTyped(im), PoolsHeld(im, en, po), Settle(im, en, po)
  PROVE  ImagesTyped(images') /\ PoolsHeld(images', entries', pools') /\ images' = im
<1>1. /\ images' = im /\ entries' = en
      /\ DOMAIN pools' = DOMAIN po \cap Referenced(im, en)
  BY DEF Settle, Restrict
<1>2. \A p \in Processors : en[p] \subseteq Referenced(im, en)
  BY DEF Referenced
<1>3. ASSUME NEW n \in ImageNames, im[n] # NoImage
      PROVE  im[n].lifetime \in Referenced(im, en)
  <2>1. n \in {m \in ImageNames : im[m] # NoImage}
    BY <1>3
  <2>2. im[n].lifetime \in {im[k].lifetime : k \in {m \in ImageNames : im[m] # NoImage}}
    BY <2>1
  <2> QED
    BY <2>2 DEF Referenced
<1> QED
  BY <1>1, <1>2, <1>3 DEF PoolsHeld

LEMMA DropInv ==
  ASSUME NEW im, NEW en, NEW po, NEW names, ImagesTyped(im), PoolsHeld(im, en, po)
  PROVE  /\ ImagesTyped(Drop(im, names)) /\ PoolsHeld(Drop(im, names), en, po)
         /\ \A n \in ImageNames : Drop(im, names)[n] # NoImage => n \notin names
BY DEF Drop, ImagesTyped, PoolsHeld

LEMMA LeaveInv ==
  ASSUME NEW im, ImagesTyped(im), PoolsHeld(im, entries, pools), Leave(im), ~stream'
  PROVE  MemoryInv'
<1> DEFINE names == ImageNames \ {"source", "cached", "kept"}
           en == [entries EXCEPT !["local"] = {}]
<1>1. Settle(Drop(im, names), en, pools) /\ call' = Idle
  BY DEF Leave
<1>2. PoolsHeld(im, en, pools)
  BY DEF PoolsHeld, Processors
<1> HIDE DEF names, en
<1>3. /\ ImagesTyped(Drop(im, names)) /\ PoolsHeld(Drop(im, names), en, pools)
      /\ \A n \in ImageNames : Drop(im, names)[n] # NoImage => n \notin names
  BY <1>2, DropInv
<1>4. ImagesTyped(images') /\ PoolsHeld(images', entries', pools') /\ images' = Drop(im, names)
  BY <1>1, <1>3, SettleInv
<1>5. Live' \subseteq {"source", "cached", "kept"}
  BY <1>3, <1>4 DEF Live, names
<1> QED
  BY <1>1, <1>4, <1>5 DEF MemoryInv, StreamInv, IdleInv, CallTyped, IsCall, CallFields, Processors, Idle

(* A new image in one of the places.                                       *)
LEMMA PutInv ==
  ASSUME NEW im, NEW en, NEW po, ImagesTyped(im), PoolsHeld(im, en, po),
         NEW name, NEW d, NEW pool, pool # 0 => pool \in DOMAIN po
  PROVE  LET new == [im EXCEPT ![name] = MakeImage(d, pool, Lifetime(pool))]
         IN  ImagesTyped(new) /\ PoolsHeld(new, en, po)
<1> DEFINE image == MakeImage(d, pool, Lifetime(pool))
<1>1. DOMAIN image = ImageFields /\ image.pool = pool /\ image.lifetime = pool
  BY DEF MakeImage, Lifetime, ImageFields
<1> HIDE DEF image
<1> QED
  BY <1>1 DEF ImagesTyped, PoolsHeld, image

LEMMA CreateInCmmInv ==
  ASSUME MemoryInv, NEW name, NEW d, NEW next, CreateInCmm(name, d, next), next # Idle, IsCall(next),
         stream' => next.phase \in {"parse", "decode", "encode"}
  PROVE  MemoryInv'
<1> DEFINE new == [images EXCEPT ![name] = MakeImage(d, 0, 0)]
<1>1. Settle(new, entries, pools) /\ call' = next
  BY DEF CreateInCmm
<1>2. ImagesTyped(new) /\ PoolsHeld(new, entries, pools)
  BY PutInv DEF MemoryInv, Lifetime
<1> HIDE DEF new
<1>3. ImagesTyped(images') /\ PoolsHeld(images', entries', pools')
  BY <1>1, <1>2, SettleInv
<1> QED
  BY <1>1, <1>3 DEF MemoryInv, StreamInv, IdleInv, CallTyped

LEMMA CreateInPoolInv ==
  ASSUME MemoryInv, NEW p \in Processors, NEW name, NEW d, NEW next,
         CreateInPool(p, name, d, next), next # Idle, IsCall(next),
         stream' => next.phase \in {"parse", "decode", "encode"}
  PROVE  MemoryInv'
<1>1. PICK id : /\ Settle([images EXCEPT ![name] = MakeImage(d, id, Lifetime(id))],
                          [entries EXCEPT ![p] = @ \cup {id}],
                          [i \in DOMAIN pools \cup {id} |-> IF i = id THEN d ELSE pools[i]])
                /\ call' = next
  BY DEF CreateInPool
<1> DEFINE en == [entries EXCEPT ![p] = @ \cup {id}]
           po == [i \in DOMAIN pools \cup {id} |-> IF i = id THEN d ELSE pools[i]]
           new == [images EXCEPT ![name] = MakeImage(d, id, Lifetime(id))]
<1>2. ImagesTyped(images) /\ PoolsHeld(images, en, po) /\ id \in DOMAIN po
  BY DEF MemoryInv, PoolsHeld
<1> HIDE DEF en, po
<1>3. ImagesTyped(new) /\ PoolsHeld(new, en, po)
  BY <1>2, PutInv
<1> HIDE DEF new
<1>4. ImagesTyped(images') /\ PoolsHeld(images', entries', pools')
  BY <1>1, <1>3, SettleInv DEF en, po, new
<1> QED
  BY <1>1, <1>4 DEF MemoryInv, StreamInv, IdleInv, CallTyped

LEMMA FailsInv ==
  ASSUME MemoryInv, Fails, call.phase \notin {"parse", "decode", "encode"}
  PROVE  MemoryInv'
<1>1. ~stream'
  BY DEF Fails, MemoryInv, StreamInv
<1> QED
  BY <1>1, LeaveInv DEF Fails, MemoryInv

LEMMA FailsWithPoolInv ==
  ASSUME MemoryInv, NEW p, NEW d, FailsWithPool(p, d), call.phase \notin {"parse", "decode", "encode"}
  PROVE  MemoryInv'
<1> DEFINE names == ImageNames \ {"source", "cached", "kept"}
           id == FreePool
           en == [entries EXCEPT !["shared"] = @ \cup {id}, !["local"] = {}]
           po == [i \in DOMAIN pools \cup {id} |-> IF i = id THEN d ELSE pools[i]]
<1>1. Settle(Drop(images, names), en, po) /\ call' = Idle /\ stream' = stream
  BY DEF FailsWithPool
<1>2. PoolsHeld(images, en, po)
  <2> HIDE DEF id
  <2> QED
    BY DEF MemoryInv, PoolsHeld, Processors
<1> HIDE DEF names, en, po
<1>3. /\ ImagesTyped(Drop(images, names)) /\ PoolsHeld(Drop(images, names), en, po)
      /\ \A n \in ImageNames : Drop(images, names)[n] # NoImage => n \notin names
  BY <1>2, DropInv DEF MemoryInv
<1>4. ImagesTyped(images') /\ PoolsHeld(images', entries', pools') /\ images' = Drop(images, names)
  BY <1>1, <1>3, SettleInv
<1>5. Live' \subseteq {"source", "cached", "kept"}
  BY <1>3, <1>4 DEF Live, names
<1>6. ~stream'
  BY <1>1 DEF MemoryInv, StreamInv
<1> QED
  BY <1>1, <1>4, <1>5, <1>6 DEF MemoryInv, StreamInv, IdleInv, CallTyped, IsCall, CallFields, Processors, Idle

-----------------------------------------------------------------------------
(* The calls begin.                                                        *)

(* What the call in progress becomes, step by step.                        *)
LEMMA CallLemma ==
  /\ IsCall(Idle) /\ Idle.phase = "idle"
  /\ CallTyped => IsCall(Next1) /\ Next1.phase = call.phase
  /\ CallTyped => \A phase : /\ IsCall([call EXCEPT !.phase = phase])
                             /\ [call EXCEPT !.phase = phase].phase = phase
BY DEF Idle, CallFields, CallTyped, IsCall, Processors, Next1

(* An image of the application's is not in a pool.                         *)
LEMMA SourceInv ==
  ASSUME NEW im, NEW en, NEW po, ImagesTyped(im), PoolsHeld(im, en, po), NEW s
  PROVE  LET new == [im EXCEPT !["source"] = SourceImage(s)]
         IN  ImagesTyped(new) /\ PoolsHeld(new, en, po)
<1> DEFINE image == SourceImage(s)
<1>1. DOMAIN image = ImageFields /\ image.pool = 0
  BY DEF SourceImage, ImageFields
<1> HIDE DEF image
<1> QED
  BY <1>1 DEF ImagesTyped, PoolsHeld, image

LEMMA IdleHasNoStream == ASSUME MemoryInv, call = Idle PROVE ~stream
BY CallLemma DEF MemoryInv, StreamInv

LEMMA ProcessValueInv == ASSUME MemoryInv, NEW s, NEW r, ProcessValue(s, r) PROVE MemoryInv'
<1>1. ImagesTyped(images') /\ PoolsHeld(images', entries', pools')
  BY SourceInv DEF MemoryInv, ProcessValue
<1>2. ~stream'
  BY IdleHasNoStream DEF ProcessValue
<1>3. IsCall(call') /\ call'.phase = "create"
  BY DEF ProcessValue, Idle, CallFields, IsCall, Processors
<1> QED
  BY <1>1, <1>2, <1>3, CallLemma DEF MemoryInv, StreamInv, IdleInv, CallTyped

LEMMA ProcessIntoInv ==
  ASSUME MemoryInv, NEW s, NEW r, NEW d, ProcessInto(s, r, d) PROVE MemoryInv'
<1> DEFINE im == [images EXCEPT !["source"] = SourceImage(s)]
<1>1. ImagesTyped(im) /\ PoolsHeld(im, entries, pools)
  BY SourceInv DEF MemoryInv
<1>2. images' = [im EXCEPT !["destination"] = MakeImage(d, 0, Lifetime(0))]
  BY DEF ProcessInto, Lifetime
<1> HIDE DEF im
<1>3. ImagesTyped(images') /\ PoolsHeld(images', entries, pools)
  BY <1>1, <1>2, PutInv
<1>4. ~stream' /\ entries' = entries /\ pools' = pools
  BY IdleHasNoStream DEF ProcessInto
<1>5. IsCall(call') /\ call'.phase = "check"
  BY DEF ProcessInto, Idle, CallFields, IsCall, Processors
<1> QED
  BY <1>3, <1>4, <1>5, CallLemma DEF MemoryInv, StreamInv, IdleInv, CallTyped

LEMMA EncodeJpegBytesInv == ASSUME MemoryInv, NEW s, EncodeJpegBytes(s) PROVE MemoryInv'
<1> DEFINE im == [images EXCEPT !["source"] = SourceImage(s)]
           d == MakeNativeJpegDescriptor(s.desc.width, s.desc.height)
<1>1. ImagesTyped(im) /\ PoolsHeld(im, entries, pools)
  BY SourceInv DEF MemoryInv
<1>2. images' = im \/ images' = [im EXCEPT !["prepared"] = MakeImage(d, 0, Lifetime(0))]
  BY DEF EncodeJpegBytes, Lifetime, SourceImage
<1> HIDE DEF im, d
<1>3. ImagesTyped(images') /\ PoolsHeld(images', entries, pools)
  <2>1. CASE images' = im
    BY <1>1, <2>1
  <2>2. CASE images' = [im EXCEPT !["prepared"] = MakeImage(d, 0, Lifetime(0))]
    BY <1>1, <2>2, PutInv
  <2> QED
    BY <1>2, <2>1, <2>2
<1>4. ~stream' /\ entries' = entries /\ pools' = pools
  BY IdleHasNoStream DEF EncodeJpegBytes
<1>5. IsCall(call') /\ call'.phase \in {"flush", "check"}
  BY DEF EncodeJpegBytes, Idle, CallFields, IsCall, Processors
<1> QED
  BY <1>3, <1>4, <1>5, CallLemma DEF MemoryInv, StreamInv, IdleInv, CallTyped

LEMMA DecodeJpegBytesInv == ASSUME MemoryInv, NEW r, DecodeJpegBytes(r) PROVE MemoryInv'
<1>1. IsCall(call') /\ call'.phase = "parse"
  BY DEF DecodeJpegBytes, Idle, CallFields, IsCall, Processors
<1> QED
  BY <1>1, CallLemma DEF DecodeJpegBytes, MemoryInv, StreamInv, IdleInv, CallTyped

-----------------------------------------------------------------------------
(* Process.                                                                *)

LEMMA CreateOutputInv ==
  ASSUME MemoryInv, CreateOutput PROVE MemoryInv'
<1> DEFINE next == [call EXCEPT !.phase = "check"]
<1>1. IsCall(next) /\ next # Idle
  BY CallLemma DEF MemoryInv
<1>2. ~stream'
  BY DEF CreateOutput, MemoryInv, StreamInv
<1> HIDE DEF next
<1>3. \/ CreateInCmm("output", Output, next)
      \/ CreateInPool(call.processor, "output", Output, next)
  BY DEF CreateOutput, next
<1>4. call.processor \in Processors
  BY DEF MemoryInv, CallTyped, IsCall
<1> QED
  BY <1>1, <1>2, <1>3, <1>4, CreateInCmmInv, CreateInPoolInv

LEMMA CreateOutputFailsInv == ASSUME MemoryInv, CreateOutputFails PROVE MemoryInv'
BY FailsInv, FailsWithPoolInv DEF CreateOutputFails

LEMMA CheckRequestInv == ASSUME MemoryInv, CheckRequest PROVE MemoryInv'
<1>1. CASE Fails
  BY <1>1, FailsInv DEF CheckRequest
<1>2. CASE /\ \E todo : call' = [call EXCEPT !.phase = "run", !.todo = todo]
           /\ UNCHANGED <<chip, images, pools, entries, stream, calls>>
  <2>1. IsCall(call') /\ call'.phase = "run"
    BY <1>2 DEF MemoryInv, CallTyped, IsCall, CallFields
  <2>2. ~stream'
    BY <1>2 DEF CheckRequest, MemoryInv, StreamInv
  <2> QED
    BY <1>2, <2>1, <2>2, CallLemma DEF MemoryInv, StreamInv, IdleInv, CallTyped
<1> QED
  BY <1>1, <1>2 DEF CheckRequest

(* An image made on the way; op.to need not be one of the places for this. *)
LEMMA MakeIntermediateInv ==
  ASSUME MemoryInv, ChipKnown, MakeIntermediate PROVE MemoryInv'
<1>1. IsCall(Next1) /\ Next1 # Idle
  BY CallLemma DEF MemoryInv, MakeIntermediate
<1>2. ~stream' /\ call.phase = "run" /\ Next1.phase = "run"
  BY CallLemma DEF MakeIntermediate, MemoryInv, StreamInv
<1> DEFINE d == IntermediateDescriptor(From.desc, images[call.to].desc)
<1>3. \/ call' = Next1 /\ UNCHANGED <<images, pools, entries>>
      \/ CreateInCmm(op.to, d, Next1)
      \/ CreateInPool(call.processor, op.to, d, Next1)
      \/ chip \notin {"ax650", "ax620e", "axcl"}
  BY DEF MakeIntermediate
<1>4. CASE call' = Next1 /\ UNCHANGED <<images, pools, entries>>
  BY <1>1, <1>2, <1>4 DEF MemoryInv, StreamInv, IdleInv, CallTyped
<1>5. call.processor \in Processors /\ chip \in {"ax650", "ax620e", "axcl"}
  BY DEF MemoryInv, CallTyped, IsCall, ChipKnown
<1> QED
  BY <1>1, <1>2, <1>3, <1>4, <1>5, CreateInCmmInv, CreateInPoolInv

LEMMA MakeIntermediateFailsInv == ASSUME MemoryInv, MakeIntermediateFails PROVE MemoryInv'
<1>1. ~stream /\ call.phase = "run"
  BY DEF MakeIntermediateFails, MemoryInv, StreamInv
<1>2. \A names : ImagesTyped(Drop(images, names)) /\ PoolsHeld(Drop(images, names), entries, pools)
  BY DropInv DEF MemoryInv
<1>3. CASE \E im : /\ Leave(im) /\ UNCHANGED <<chip, stream, calls>>
                   /\ im = images \/ im = Drop(images, {op.to})
  BY <1>1, <1>2, <1>3, LeaveInv DEF MemoryInv
<1>4. CASE \E d : FailsWithPool(call.processor, d)
  BY <1>1, <1>4, FailsWithPoolInv
<1> QED
  BY <1>3, <1>4 DEF MakeIntermediateFails

(* An engine changes what an image shows, never which images there are.    *)
LEMMA ShowsInv ==
  ASSUME NEW im, NEW en, NEW po, ImagesTyped(im), PoolsHeld(im, en, po), NEW to, NEW result
  PROVE  LET new == [im EXCEPT ![to].shows = result]
         IN  ImagesTyped(new) /\ PoolsHeld(new, en, po)
<1> DEFINE new == [im EXCEPT ![to].shows = result]
<1>1. \A n \in ImageNames : new[n] = im[n] \/ new[n] = [im[n] EXCEPT !.shows = result]
  BY DEF ImagesTyped
<1>2. DOMAIN new = ImageNames
  BY DEF ImagesTyped
<1> HIDE DEF new
<1>3. ASSUME NEW n \in ImageNames
      PROVE  /\ new[n] = NoImage \/ DOMAIN new[n] = ImageFields
             /\ new[n] # NoImage => /\ im[n] # NoImage
                                    /\ new[n].pool = im[n].pool
                                    /\ new[n].lifetime = im[n].lifetime
  <2>1. CASE new[n] = im[n]
    BY <2>1 DEF ImagesTyped
  <2>2. CASE new[n] = [im[n] EXCEPT !.shows = result] /\ im[n] = NoImage
    <3>1. [NoImage EXCEPT !.shows = result] = NoImage
      BY DEF NoImage
    <3> QED
      BY <2>2, <3>1
  <2>3. CASE new[n] = [im[n] EXCEPT !.shows = result] /\ DOMAIN im[n] = ImageFields
    <3>1. DOMAIN new[n] = ImageFields
      BY <2>3
    <3>2. new[n].pool = im[n].pool /\ new[n].lifetime = im[n].lifetime
      BY <2>3 DEF ImageFields
    <3>3. im[n] # NoImage
      BY <2>3 DEF NoImage, ImageFields
    <3> QED
      BY <3>1, <3>2, <3>3
  <2> QED
    BY <1>1, <2>1, <2>2, <2>3 DEF ImagesTyped
<1>4. ImagesTyped(new) /\ PoolsHeld(new, en, po)
  BY <1>2, <1>3 DEF ImagesTyped, PoolsHeld
<1> QED
  BY <1>4 DEF new

LEMMA OperateInv == ASSUME MemoryInv, Operate PROVE MemoryInv'
<1>1. ImagesTyped(images') /\ PoolsHeld(images', entries', pools')
  BY ShowsInv DEF Operate, MemoryInv
<1>2. IsCall(call') /\ call'.phase = "run" /\ ~stream'
  BY CallLemma DEF Operate, MemoryInv, StreamInv
<1> QED
  BY <1>1, <1>2, CallLemma DEF MemoryInv, StreamInv, IdleInv, CallTyped

LEMMA RetryInv == ASSUME MemoryInv, Retry PROVE MemoryInv'
<1>1. IsCall(call') /\ call'.phase = "run" /\ ~stream'
  BY DEF Retry, MemoryInv, StreamInv, CallTyped, IsCall, CallFields
<1> QED
  BY <1>1, CallLemma DEF Retry, MemoryInv, StreamInv, IdleInv, CallTyped

LEMMA OperateFailsInv == ASSUME MemoryInv, OperateFails PROVE MemoryInv'
BY FailsInv DEF OperateFails

(* An image moves to another place with the pool it holds.                 *)
LEMMA MoveInv ==
  ASSUME NEW im, NEW en, NEW po, ImagesTyped(im), PoolsHeld(im, en, po),
         NEW from \in ImageNames, NEW to \in ImageNames
  PROVE  LET new == [im EXCEPT ![to] = im[from]]
         IN  ImagesTyped(new) /\ PoolsHeld(new, en, po)
BY DEF ImagesTyped, PoolsHeld

LEMMA ProcessReturnsInv == ASSUME MemoryInv, ProcessReturns PROVE MemoryInv'
<1>1. ~stream'
  BY DEF ProcessReturns, MemoryInv, StreamInv
<1>2. CASE call.kind = "encode"
  <2> DEFINE names == {"localCached", "temporary"}
             en == [entries EXCEPT !["local"] = {}]
             next == [Idle EXCEPT !.kind = "encode", !.phase = "flush", !.from = "prepared"]
  <2>1. Settle(Drop(images, names), en, pools) /\ call' = next
    BY <1>2 DEF ProcessReturns
  <2>2. PoolsHeld(images, en, pools)
    BY DEF MemoryInv, PoolsHeld, Processors
  <2>3. IsCall(next) /\ next # Idle
    BY DEF Idle, IsCall, CallFields, Processors
  <2> HIDE DEF names, en, next
  <2>4. ImagesTyped(images') /\ PoolsHeld(images', entries', pools')
    BY <2>1, <2>2, DropInv, SettleInv DEF MemoryInv
  <2> QED
    BY <1>1, <2>1, <2>3, <2>4 DEF MemoryInv, StreamInv, IdleInv, CallTyped
<1>3. CASE call.kind # "encode"
  <2>1. \E im : Leave(im) /\ (im = images \/ im = [images EXCEPT !["kept"] = images["output"]])
    BY <1>3 DEF ProcessReturns
  <2>2. LET new == [images EXCEPT !["kept"] = images["output"]]
        IN  ImagesTyped(new) /\ PoolsHeld(new, entries, pools)
    BY MoveInv DEF MemoryInv, ImageNames
  <2> QED
    BY <1>1, <2>1, <2>2, LeaveInv DEF MemoryInv
<1> QED
  BY <1>2, <1>3

-----------------------------------------------------------------------------
(* JPEG.                                                                   *)

LEMMA ParseJpegDimensionsInv ==
  ASSUME MemoryInv, NEW size, ParseJpegDimensions(size) PROVE MemoryInv'
<1> DEFINE next == [call EXCEPT !.phase = "decode"]
           d == MakeNativeJpegDescriptor(size.width, size.height)
<1>1. CreateInCmm("native", d, next)
  BY DEF ParseJpegDimensions
<1>2. IsCall(next) /\ next.phase = "decode"
  BY CallLemma DEF MemoryInv
<1> HIDE DEF next, d
<1>3. next # Idle
  BY <1>2, CallLemma
<1> QED
  BY <1>1, <1>2, <1>3, CreateInCmmInv

LEMMA FailsFreeingStreamInv == ASSUME MemoryInv, FailsFreeingStream PROVE MemoryInv'
BY LeaveInv DEF FailsFreeingStream, MemoryInv

LEMMA JpegDecodeOneFrameInv == ASSUME MemoryInv, JpegDecodeOneFrame PROVE MemoryInv'
<1> DEFINE result == Shows(calls, Whole(images["native"].desc))
           decoded == [images EXCEPT !["native"].shows = result]
<1>1. ~stream'
  BY DEF JpegDecodeOneFrame
<1>2. \/ /\ images' = decoded /\ call' = [call EXCEPT !.phase = "create"]
         /\ UNCHANGED <<pools, entries>>
      \/ Leave([decoded EXCEPT !["kept"] = decoded["native"]])
  BY DEF JpegDecodeOneFrame
<1>3. ImagesTyped(decoded) /\ PoolsHeld(decoded, entries, pools)
  BY ShowsInv DEF MemoryInv
<1> HIDE DEF decoded, result
<1>4. CASE /\ images' = decoded /\ call' = [call EXCEPT !.phase = "create"]
           /\ UNCHANGED <<pools, entries>>
  <2>1. IsCall(call') /\ call'.phase = "create"
    BY <1>4, CallLemma DEF MemoryInv
  <2> QED
    BY <1>1, <1>3, <1>4, <2>1, CallLemma DEF MemoryInv, StreamInv, IdleInv, CallTyped
<1>5. CASE Leave([decoded EXCEPT !["kept"] = decoded["native"]])
  <2>1. LET new == [decoded EXCEPT !["kept"] = decoded["native"]]
        IN  ImagesTyped(new) /\ PoolsHeld(new, entries, pools)
    BY <1>3, MoveInv DEF ImageNames
  <2> QED
    BY <1>1, <1>5, <2>1, LeaveInv
<1> QED
  BY <1>2, <1>4, <1>5

LEMMA FlushInputInv == ASSUME MemoryInv, FlushInput PROVE MemoryInv'
<1>1. IsCall(call') /\ call'.phase = "encode"
  BY CallLemma DEF FlushInput, MemoryInv
<1> QED
  BY <1>1, CallLemma DEF FlushInput, MemoryInv, StreamInv, IdleInv, CallTyped

LEMMA DropProcessorInv == ASSUME MemoryInv, DropProcessor PROVE MemoryInv'
<1> DEFINE en == [entries EXCEPT !["shared"] = {}]
           im == Drop(images, {"cached"})
<1>1. Settle(im, en, pools) /\ UNCHANGED <<stream, call>> /\ call = Idle
  BY DEF DropProcessor
<1>2. PoolsHeld(images, en, pools)
  BY DEF MemoryInv, PoolsHeld, Processors
<1> HIDE DEF en
<1>3. ImagesTyped(im) /\ PoolsHeld(im, en, pools)
  BY <1>2, DropInv DEF MemoryInv
<1>4. \A n \in ImageNames : im[n] # NoImage => images[n] # NoImage
  BY DEF Drop
<1> HIDE DEF im
<1>5. ImagesTyped(images') /\ PoolsHeld(images', entries', pools') /\ images' = im
  BY <1>1, <1>3, SettleInv
<1> QED
  BY <1>1, <1>4, <1>5 DEF MemoryInv, StreamInv, IdleInv, CallTyped, Live

LEMMA DropResultInv == ASSUME MemoryInv, DropResult PROVE MemoryInv'
<1> DEFINE im == Drop(images, {"kept"})
<1>1. Settle(im, entries, pools) /\ UNCHANGED <<stream, call>> /\ call = Idle
  BY DEF DropResult
<1>2. ImagesTyped(im) /\ PoolsHeld(im, entries, pools)
  BY DropInv DEF MemoryInv
<1>3. \A n \in ImageNames : im[n] # NoImage => images[n] # NoImage
  BY DEF Drop
<1> HIDE DEF im
<1>4. ImagesTyped(images') /\ PoolsHeld(images', entries', pools') /\ images' = im
  BY <1>1, <1>2, SettleInv
<1> QED
  BY <1>1, <1>3, <1>4 DEF MemoryInv, StreamInv, IdleInv, CallTyped, Live

-----------------------------------------------------------------------------
LEMMA MemoryInit == ImagesInit => MemoryInv /\ ChipKnown
<1> SUFFICES ASSUME ImagesInit PROVE MemoryInv /\ ChipKnown
  OBVIOUS
<1>1. ImagesTyped(images) /\ \A n \in ImageNames : images[n] = NoImage
  BY DEF ImagesInit, ImagesTyped
<1>2. PoolsHeld(images, entries, pools)
  BY <1>1 DEF ImagesInit, PoolsHeld
<1>3. StreamInv /\ IdleInv
  BY <1>1 DEF ImagesInit, StreamInv, IdleInv, Live
<1>4. CallTyped /\ ChipKnown
  BY CallLemma, ImagesAssumption DEF ImagesInit, CallTyped, ChipKnown
<1> QED
  BY <1>1, <1>2, <1>3, <1>4 DEF MemoryInv

LEMMA MemoryNext == MemoryInv /\ ChipKnown /\ [ImagesNext]_imagesVars => MemoryInv'
<1> SUFFICES ASSUME MemoryInv, ChipKnown, [ImagesNext]_imagesVars PROVE MemoryInv'
  OBVIOUS
<1>1. CASE UNCHANGED imagesVars
  BY <1>1 DEF imagesVars, MemoryInv, CallTyped, StreamInv, IdleInv, Live
<1>2. CASE \E s \in Sources, r \in Requests :
             ProcessValue(s, r) \/ \E d \in Destinations : ProcessInto(s, r, d)
  BY <1>2, ProcessValueInv, ProcessIntoInv
<1>3. CASE \E r \in Requests : DecodeJpegBytes(r)
  BY <1>3, DecodeJpegBytesInv
<1>4. CASE \E s \in Sources : EncodeJpegBytes(s)
  BY <1>4, EncodeJpegBytesInv
<1>5. CASE CreateOutput \/ CreateOutputFails
  BY <1>5, CreateOutputInv, CreateOutputFailsInv
<1>6. CASE CheckRequest
  BY <1>6, CheckRequestInv
<1>7. CASE MakeIntermediate \/ MakeIntermediateFails
  BY <1>7, MakeIntermediateInv, MakeIntermediateFailsInv
<1>8. CASE Operate \/ Retry \/ OperateFails
  BY <1>8, OperateInv, RetryInv, OperateFailsInv
<1>9. CASE ProcessReturns
  BY <1>9, ProcessReturnsInv
<1>10. CASE \E size \in JpegSizes : ParseJpegDimensions(size)
  BY <1>10, ParseJpegDimensionsInv
<1>11. CASE DecodeFails
  BY <1>11, FailsFreeingStreamInv DEF DecodeFails
<1>12. CASE JpegDecodeOneFrame
  BY <1>12, JpegDecodeOneFrameInv
<1>13. CASE FlushInput
  BY <1>13, FlushInputInv
<1>14. CASE FlushInputFails
  BY <1>14, FailsInv DEF FlushInputFails
<1>15. CASE JpegEncodeOneFrame
  BY <1>15, FailsFreeingStreamInv DEF JpegEncodeOneFrame
<1>16. CASE DropProcessor \/ DropResult
  BY <1>16, DropProcessorInv, DropResultInv
<1> QED
  BY <1>1, <1>2, <1>3, <1>4, <1>5, <1>6, <1>7, <1>8, <1>9, <1>10, <1>11, <1>12, <1>13,
     <1>14, <1>15, <1>16 DEF ImagesNext

(* The chip is chosen once: no action changes it.                          *)
LEMMA ChipNext == [ImagesNext]_imagesVars => chip' = chip
BY DEF ImagesNext, imagesVars, ProcessValue, ProcessInto, DecodeJpegBytes, EncodeJpegBytes, CreateOutput,
       CreateOutputFails, CheckRequest, MakeIntermediate, MakeIntermediateFails, Operate, Retry,
       OperateFails, ProcessReturns, ParseJpegDimensions, DecodeFails, JpegDecodeOneFrame, FlushInput,
       FlushInputFails, JpegEncodeOneFrame, DropProcessor, DropResult, Fails, FailsWithPool,
       FailsFreeingStream

(* Whatever the chips, images, requests and number of calls, a pool lives  *)
(* as long as any block of it, and a call that is over has left nothing of *)
(* its own behind (the pools and buffers of the processors and the codec). *)
THEOREM MemoryAlwaysReturned == ImagesSpec => []MemoryReturned
<1>1. MemoryInv /\ ChipKnown /\ [ImagesNext]_imagesVars => (MemoryInv /\ ChipKnown)'
  BY MemoryNext, ChipNext DEF ChipKnown
<1> QED
  BY <1>1, MemoryInit, InvImpliesReturned, PTL DEF ImagesSpec

-----------------------------------------------------------------------------
(* Geometry, for images of every size.                                     *)

LEMMA SideBounds ==
  ASSUME NEW side \in Int, NEW limit \in Nat, limit >= 2
  PROVE  LetterboxSide(side, limit) \in 2..limit /\ Even(LetterboxSide(side, limit))
<1> DEFINE n == AtLeast(1, AtMost(limit, side))
<1>1. n \in 1..limit
  BY DEF AtLeast, AtMost
<1> HIDE DEF n
<1>2. n - (n % 2) \in 0..limit /\ (n - (n % 2)) % 2 = 0
  BY <1>1
<1> DEFINE m == n - (n % 2)
<1>3. LetterboxSide(side, limit) = IF m < 2 THEN 2 ELSE m
  BY DEF LetterboxSide, AlignDownEven, AtLeast, n
<1> HIDE DEF m
<1>4. m \in 0..limit /\ m % 2 = 0
  BY <1>2 DEF m
<1> QED
  BY <1>3, <1>4 DEF Even

LEMMA OffsetBounds ==
  ASSUME NEW pad \in Nat, NEW align \in {"kStart", "kCenter", "kEnd"}
  PROVE  Offset(pad, align) \in 0..pad
BY DEF Offset

(* MakeKeepAspectRatioManual places the picture inside the destination, on *)
(* even sides, for every region and every destination of two lines or more.*)
THEOREM LetterboxInside ==
  ASSUME NEW d, d.width \in Nat, d.height \in Nat, d.width >= 2, d.height >= 2,
         NEW region, region.width \in Nat \ {0}, region.height \in Nat \ {0},
         NEW align \in {"kStart", "kCenter", "kEnd"}
  PROVE  LET box == Letterbox(region, d, align)
         IN  /\ box \in Crop /\ Within(box, d)
             /\ box.width >= 2 /\ box.height >= 2 /\ Even(box.width) /\ Even(box.height)
<1> DEFINE byWidth == (region.height * d.width) \div region.width
           byHeight == (region.width * d.height) \div region.height
           limited == region.width * d.height >= region.height * d.width
           width == IF limited THEN d.width ELSE byHeight
           height == IF limited THEN byWidth ELSE d.height
           w == LetterboxSide(width, d.width)
           h == LetterboxSide(height, d.height)
<1>1. byWidth \in Int /\ byHeight \in Int
  BY SMT
<1>2. width \in Int /\ height \in Int
  <2> HIDE DEF byWidth, byHeight, limited
  <2> QED
    BY <1>1
<1>3. Letterbox(region, d, align) =
        [x |-> Offset(d.width - w, align), y |-> Offset(d.height - h, align), width |-> w, height |-> h]
  BY DEF Letterbox
<1> HIDE DEF width, height
<1>4. w \in 2..d.width /\ Even(w) /\ h \in 2..d.height /\ Even(h)
  BY <1>2, SideBounds
<1> HIDE DEF w, h
<1>5. Offset(d.width - w, align) \in 0..(d.width - w) /\ Offset(d.height - h, align) \in 0..(d.height - h)
  BY <1>4, OffsetBounds
<1> QED
  BY <1>3, <1>4, <1>5 DEF Within, Crop

(* A crop that ValidateCrop accepts lies inside the source, unless its far *)
(* corner overflows a uint32_t: the code adds before it compares.          *)
THEOREM CropInside ==
  ASSUME NEW source, source.width \in Nat, source.height \in Nat,
         NEW r, r.enable_crop, r.crop \in Crop, ValidateCrop(source, r),
         r.crop.x + r.crop.width < WordSize, r.crop.y + r.crop.height < WordSize
  PROVE  Within(Region(source, r), source)
<1> DEFINE right == r.crop.x + r.crop.width
           bottom == r.crop.y + r.crop.height
<1>1. r.crop.x >= 0 /\ r.crop.y >= 0 /\ right % WordSize <= source.width /\ bottom % WordSize <= source.height
  BY DEF ValidateCrop
<1>2. right \in Nat /\ bottom \in Nat
  BY <1>1 DEF Crop
<1>3. \A n \in Nat : n < WordSize => n % WordSize = n
  BY WordSizeAssumption
<1> HIDE DEF right, bottom
<1>4. right <= source.width /\ bottom <= source.height
  <2>1. right < WordSize /\ bottom < WordSize
    BY DEF right, bottom
  <2> QED
    BY <1>1, <1>2, <1>3, <2>1
<1> QED
  BY <1>1, <1>4 DEF Region, Within, right, bottom

(* The widest side that an AX_S16 holds.                                   *)
MaxShort == ShortSize \div 2 - 1

LEMMA ShortIs == ASSUME NEW n \in Nat, n <= MaxShort PROVE S16(n) = n /\ n % ShortSize = n
<1>1. ShortSize \in Nat \ {0} /\ n < ShortSize \div 2
  BY ShortSizeAssumption DEF MaxShort
<1>2. n < ShortSize
  BY <1>1
<1>3. n % ShortSize = n
  BY <1>1, <1>2
<1> QED
  BY <1>1, <1>3 DEF S16

LEMMA RegionIs ==
  ASSUME NEW d, d.width \in Nat, d.height \in Nat, d.width <= MaxShort, d.height <= MaxShort,
         NEW region \in Crop, Within(region, d)
  PROVE  FrameCrop(region) = region /\ Rect(region) = region
<1>1. MaxShort \in Int
  BY ShortSizeAssumption DEF MaxShort
<1>2. /\ region.x \in Nat /\ region.y \in Nat /\ region.width \in Nat /\ region.height \in Nat
      /\ region.x <= d.width /\ region.y <= d.height /\ region.width <= d.width /\ region.height <= d.height
  BY DEF Crop, Within
<1>3. \A n \in {region.x, region.y, region.width, region.height} : n \in Nat /\ n <= MaxShort
  BY <1>1, <1>2
<1>4. \A n \in {region.x, region.y, region.width, region.height} : S16(n) = n /\ n % ShortSize = n
  BY <1>3, ShortIs
<1>5. region = [x |-> region.x, y |-> region.y, width |-> region.width, height |-> region.height]
  BY DEF Crop
<1> QED
  BY <1>4, <1>5 DEF FrameCrop, Rect

(* A stride that MakeAlignedDescriptor chooses holds the line, to the next *)
(* sixteen pixels and no further.                                          *)
LEMMA AlignedStrideHolds ==
  ASSUME NEW format \in {"kNv12"} \cup Packed, NEW width \in Nat
  PROVE  LET stride == AlignedStride(format, width)
             least == MinStrideForFormat(format, width)
         IN  /\ stride \in Nat /\ stride >= least
             /\ stride < least + (IF format \in Packed THEN 48 ELSE 16)
             /\ format \in Packed => stride % 3 = 0
<1>1. CASE format = "kNv12"
  <2>1. /\ AlignedStride(format, width) = ((width + 16 - 1) \div 16) * 16
        /\ MinStrideForFormat(format, width) = width
    BY <1>1 DEF AlignedStride, AlignUp, MinStrideForFormat, Packed
  <2>2. format \notin Packed
    BY <1>1 DEF Packed
  <2> QED
    BY <2>1, <2>2
<1>2. CASE format \in Packed
  <2>1. format # "kNv12"
    BY <1>2 DEF Packed
  <2>2. /\ AlignedStride(format, width) = ((3 * width + 48 - 1) \div 48) * 48
        /\ MinStrideForFormat(format, width) = 3 * width
    BY <1>2, <2>1 DEF AlignedStride, AlignUp, MinStrideForFormat
  <2> QED
    BY <1>2, <2>2
<1> QED
  BY <1>1, <1>2

(* What MakeAlignedDescriptor makes AxImage::Create accepts, for every     *)
(* format and size that it does not refuse itself.                         *)
THEOREM AlignedIsValid ==
  ASSUME NEW format \in {"kNv12"} \cup Packed, NEW width \in Nat \ {0}, NEW height \in Nat \ {0},
         Alignable(MakeAlignedDescriptor(format, width, height))
  PROVE  IsValidDescriptor(MakeAlignedDescriptor(format, width, height))
<1> DEFINE d == MakeAlignedDescriptor(format, width, height)
           stride == AlignedStride(format, width)
<1>1. /\ d.format = format /\ d.width = width /\ d.height = height /\ d.stride0 = stride
      /\ format = "kNv12" => d.stride1 = stride
  BY DEF MakeAlignedDescriptor
<1>2. stride >= MinStrideForFormat(format, width) /\ (format \in Packed => stride % 3 = 0)
  BY AlignedStrideHolds
<1>3. format # "kUnknown"
  BY DEF Packed
<1>4. format = "kNv12" => Even(width) /\ Even(height)
  BY <1>1 DEF Alignable
<1> HIDE DEF d, stride
<1>5. IsValidDescriptor(d)
  BY <1>1, <1>2, <1>3, <1>4 DEF IsValidDescriptor, StrideAllowed
<1> QED
  BY <1>5 DEF d
-----------------------------------------------------------------------------
(* Every request is done with what the engines can do.                     *)

(***************************************************************************)
(* Two hypotheses.  No far corner of a crop overflows a uint32_t, the      *)
(* exception CropInside states.  No source, output asked for or JPEG       *)
(* picture has a side that an AX_S16 does not hold, because what a frame is*)
(* cropped to is cast to it; and on AX620E nothing is a single pixel wide  *)
(* or high, because its letterbox has sides of two at least (LetterboxSide).*)
(***************************************************************************)
CropsFit == \A r \in Requests : r.enable_crop => /\ r.crop.x + r.crop.width < WordSize
                                                 /\ r.crop.y + r.crop.height < WordSize

Broad(d) == "ax620e" \in Chips => d.width # 1 /\ d.height # 1

Narrow(d) == d.width <= MaxShort /\ d.height <= MaxShort

SidesFit ==
  /\ \A s \in Sources : Broad(s.desc) /\ Narrow(s.desc)
  /\ \A r \in Requests : Broad(r.output) /\ Narrow(r.output) /\ (r.enable_crop => Broad(r.crop))
  /\ \A size \in JpegSizes : Narrow(size)

RequestFits(r) ==
  /\ r \in Request
  /\ Broad(r.output) /\ Narrow(r.output)
  /\ r.enable_crop => /\ Broad(r.crop)
                      /\ r.crop.x + r.crop.width < WordSize /\ r.crop.y + r.crop.height < WordSize

PictureFits(d) ==
  d \in Descriptor /\ d.format # "kUnknown" /\ d.width # 0 /\ d.height # 0 /\ Broad(d) /\ Narrow(d)

(***************************************************************************)
(* What a call has when it comes to Process, to its tests, and past them.  *)
(***************************************************************************)
Src == images[call.from].desc
Dst == images[call.to].desc
MidName == IF chip = "ax650" THEN IntermediateOf(call.processor) ELSE "temporary"
Mid == images[MidName].desc

FromReady ==
  /\ call.from \in {"source", "native"}
  /\ images[call.from] # NoImage
  /\ PictureFits(Src)
  /\ images[call.from].device \in BOOLEAN
  /\ images[call.from].shows = Shows(calls, Whole(Src))
  /\ RequestFits(call.request)

ToReady ==
  /\ call.to \in {"output", "destination", "prepared"}
  /\ images[call.to] # NoImage
  /\ images[call.to].device = TRUE

RunReady ==
  /\ Dst.width \in Nat \ {0} /\ Dst.height \in Nat \ {0} /\ Broad(Dst) /\ Narrow(Dst)
  /\ ValidateCrop(Src, call.request)

(***************************************************************************)
(* What images show on the way, and what the image made on the way is like.*)
(***************************************************************************)
ShowsPicture(n) == images[n] # NoImage /\ images[n].shows.picture = calls
ShowsAsked(n) ==
  /\ ShowsPicture(n)
  /\ images[n].shows.region = Region(Src, call.request)
  /\ images[n].shows.around # "stale"

SizedAs(d, e) == d.width = e.width /\ d.height = e.height

MidFits ==
  /\ images[MidName] # NoImage
  /\ Mid.format = Src.format
  /\ chip = "axcl" => SizedAs(Mid, Src) /\ images[MidName].device = TRUE
  /\ chip # "axcl" => SizedAs(Mid, Dst)
  /\ chip = "ax620e" => Src.format = "kNv12"

(***************************************************************************)
(* The operations left to do, from the plan to its end.  Does names one,   *)
(* Paints one that clears; Straight takes all that x shows to the          *)
(* destination, Scales takes the part asked for from x to y and Covers     *)
(* says that nothing old is left around it.                                *)
(***************************************************************************)
Does(o, do, x, y) == o.do = do /\ o.from = x /\ o.to = y
Paints(o, y) == o.do \in {"fill", "clear"} /\ o.to = y

Straight(o, x) ==
  /\ o.do \in {"csc", "copy"} /\ o.from = x /\ o.to = call.to
  /\ SizedAs(images[x].desc, Dst)
  /\ o.do = "copy" => images[x].desc.format = Dst.format
  /\ chip = "ax620e" /\ o.engine = "VPP" => images[x].desc.format = "kNv12"
  /\ chip = "axcl" /\ o.do = "csc" => images[x].device = TRUE

Scales(o, x, y) ==
  /\ Does(o, "resize", x, y)
  /\ chip # "axcl" => images[x].desc.format = images[y].desc.format
  /\ chip = "ax620e" /\ o.engine = "VPP" => images[x].desc.format = "kNv12"
  /\ chip = "axcl" => images[x].device = TRUE

Covers(o, x, y) ==
  \/ o.stretch = TRUE
  \/ call.request.keep = FALSE
  \/ images[y].shows.around # "stale"
  \/ chip # "ax620e" /\ SameProportions(Region(images[x].desc, call.request), images[y].desc)

(* With the image on the way not made yet.                                 *)
Making(todo) ==
  \/ /\ chip # "axcl" /\ call.request.keep = FALSE
     /\ \E k, o, l : /\ todo = <<k, o, l>>
                     /\ Does(k, "make", call.from, MidName)
                     /\ Does(o, "resize", call.from, MidName) /\ Does(l, "csc", MidName, call.to)
  \/ /\ chip # "axcl"
     /\ \E k, p, o, l : /\ todo = <<k, p, o, l>>
                        /\ Does(k, "make", call.from, MidName) /\ Paints(p, MidName)
                        /\ Does(o, "resize", call.from, MidName) /\ Does(l, "csc", MidName, call.to)
  \/ /\ chip = "axcl" /\ call.request.enable_crop = FALSE /\ SizedAs(Src, Dst)
     /\ \E k, q, l : /\ todo = <<k, q, l>>
                     /\ Does(k, "make", call.from, MidName)
                     /\ Does(q, "copy", call.from, MidName) /\ Does(l, "csc", MidName, call.to)
  \/ /\ chip = "axcl"
     /\ \E k, q, p, o : /\ todo = <<k, q, p, o>>
                        /\ Does(k, "make", call.from, MidName)
                        /\ Does(q, "copy", call.from, MidName)
                        /\ Paints(p, call.to) /\ Does(o, "resize", MidName, call.to)

(* With the picture to be brought there first.                             *)
Staging(todo) ==
  /\ MidFits
  /\ \/ /\ chip # "axcl"
        /\ \E o, l : /\ todo = <<o, l>>
                     /\ Scales(o, call.from, MidName) /\ Covers(o, call.from, MidName)
                     /\ Straight(l, MidName)
     \/ /\ chip # "axcl"
        /\ \E p, o, l : /\ todo = <<p, o, l>>
                        /\ Paints(p, MidName) /\ Scales(o, call.from, MidName) /\ Straight(l, MidName)
     \/ /\ chip = "axcl" /\ call.request.enable_crop = FALSE
        /\ \E q, l : /\ todo = <<q, l>>
                     /\ Does(q, "copy", call.from, MidName) /\ Straight(l, MidName)
     \/ /\ chip = "axcl"
        /\ \E q, p, o : /\ todo = <<q, p, o>>
                        /\ Does(q, "copy", call.from, MidName)
                        /\ Paints(p, call.to) /\ Scales(o, MidName, call.to)

(* With the destination to be filled, from x.                              *)
Filling(todo, x) ==
  \/ /\ ShowsAsked(x)
     /\ \E o : todo = <<o>> /\ Straight(o, x)
  \/ /\ ShowsPicture(x) /\ SizedAs(images[x].desc, Src)
     /\ \E o : todo = <<o>> /\ Scales(o, x, call.to) /\ Covers(o, x, call.to)
  \/ /\ ShowsPicture(x) /\ SizedAs(images[x].desc, Src)
     /\ \E p, o : todo = <<p, o>> /\ Paints(p, call.to) /\ Scales(o, x, call.to)

Left(todo) ==
  \/ Making(todo)
  \/ Staging(todo)
  \/ \E x \in {call.from, MidName} : Filling(todo, x)
  \/ todo = <<>> /\ ShowsAsked(call.to)

NativeReady ==
  /\ images["native"] # NoImage
  /\ PictureFits(images["native"].desc)
  /\ images["native"].device \in BOOLEAN

CallInv ==
  /\ call.phase \in {"parse", "decode"} =>
       call.from = "native" /\ call.to = "output" /\ RequestFits(call.request)
  /\ call.phase = "decode" => NativeReady
  /\ call.phase = "create" => FromReady /\ call.to = "output"
  /\ call.phase = "check" => FromReady /\ ToReady
  /\ call.phase = "run" => FromReady /\ ToReady /\ RunReady /\ Left(call.todo)

-----------------------------------------------------------------------------
(* The plans, operation by operation.                                      *)

LEMMA Pair == \A a, b : <<a>> \o <<b>> = <<a, b>>
<1> SUFFICES ASSUME NEW a, NEW b PROVE <<a>> \o <<b>> = <<a, b>>
  OBVIOUS
<1> DEFINE S == {a, b}
<1>1. <<a>> \in Seq(S) /\ <<b>> \in Seq(S) /\ <<a, b>> \in Seq(S)
  OBVIOUS
<1>2. Len(<<a>>) = 1 /\ Len(<<b>>) = 1 /\ Len(<<a, b>>) = 2
  OBVIOUS
<1> HIDE DEF S
<1>3. /\ <<a>> \o <<b>> \in Seq(S) /\ Len(<<a>> \o <<b>>) = 2
      /\ \A i \in 1 .. 2 : (<<a>> \o <<b>>)[i] = IF i <= 1 THEN <<a>>[i] ELSE <<b>>[i - 1]
  BY <1>1, <1>2, ConcatProperties
<1>4. \A i \in 1 .. 2 : (<<a>> \o <<b>>)[i] = <<a, b>>[i]
  BY <1>3
<1> QED
  BY <1>1, <1>2, <1>3, <1>4, SeqEqual

LEMMA Triple == \A a, b, c : <<a>> \o <<b, c>> = <<a, b, c>> /\ <<a, b>> \o <<c>> = <<a, b, c>>
<1> SUFFICES ASSUME NEW a, NEW b, NEW c
             PROVE  <<a>> \o <<b, c>> = <<a, b, c>> /\ <<a, b>> \o <<c>> = <<a, b, c>>
  OBVIOUS
<1> DEFINE S == {a, b, c}
<1>1. /\ <<a>> \in Seq(S) /\ <<c>> \in Seq(S) /\ <<a, b>> \in Seq(S)
      /\ <<b, c>> \in Seq(S) /\ <<a, b, c>> \in Seq(S)
  OBVIOUS
<1>2. Len(<<a>>) = 1 /\ Len(<<c>>) = 1 /\ Len(<<a, b>>) = 2 /\ Len(<<b, c>>) = 2 /\ Len(<<a, b, c>>) = 3
  OBVIOUS
<1> HIDE DEF S
<1>3. /\ <<a>> \o <<b, c>> \in Seq(S) /\ Len(<<a>> \o <<b, c>>) = 3
      /\ \A i \in 1 .. 3 : (<<a>> \o <<b, c>>)[i] = IF i <= 1 THEN <<a>>[i] ELSE <<b, c>>[i - 1]
  BY <1>1, <1>2, ConcatProperties
<1>4. /\ <<a, b>> \o <<c>> \in Seq(S) /\ Len(<<a, b>> \o <<c>>) = 3
      /\ \A i \in 1 .. 3 : (<<a, b>> \o <<c>>)[i] = IF i <= 2 THEN <<a, b>>[i] ELSE <<c>>[i - 2]
  BY <1>1, <1>2, ConcatProperties
<1>5. \A i \in 1 .. 3 : (<<a>> \o <<b, c>>)[i] = <<a, b, c>>[i] /\ (<<a, b>> \o <<c>>)[i] = <<a, b, c>>[i]
  BY <1>3, <1>4
<1> QED
  BY <1>1, <1>2, <1>3, <1>4, <1>5, SeqEqual

LEMMA Quadruple == \A a, b, c, d : <<a, b>> \o <<c, d>> = <<a, b, c, d>>
<1> SUFFICES ASSUME NEW a, NEW b, NEW c, NEW d PROVE <<a, b>> \o <<c, d>> = <<a, b, c, d>>
  OBVIOUS
<1> DEFINE S == {a, b, c, d}
<1>1. <<a, b>> \in Seq(S) /\ <<c, d>> \in Seq(S) /\ <<a, b, c, d>> \in Seq(S)
  OBVIOUS
<1>2. Len(<<a, b>>) = 2 /\ Len(<<c, d>>) = 2 /\ Len(<<a, b, c, d>>) = 4
  OBVIOUS
<1> HIDE DEF S
<1>3. /\ <<a, b>> \o <<c, d>> \in Seq(S) /\ Len(<<a, b>> \o <<c, d>>) = 4
      /\ \A i \in 1 .. 4 : (<<a, b>> \o <<c, d>>)[i] = IF i <= 2 THEN <<a, b>>[i] ELSE <<c, d>>[i - 2]
  BY <1>1, <1>2, ConcatProperties
<1>4. \A i \in 1 .. 4 : (<<a, b>> \o <<c, d>>)[i] = <<a, b, c, d>>[i]
  BY <1>3
<1> QED
  BY <1>1, <1>2, <1>3, <1>4, SeqEqual

LEMMA Single == \A a, b : <<>> \o <<a>> = <<a>> /\ <<>> \o <<a, b>> = <<a, b>>
<1> SUFFICES ASSUME NEW a, NEW b PROVE <<>> \o <<a>> = <<a>> /\ <<>> \o <<a, b>> = <<a, b>>
  OBVIOUS
<1>1. <<a>> \in Seq({a, b}) /\ <<a, b>> \in Seq({a, b})
  OBVIOUS
<1> QED
  BY <1>1, ConcatEmptySeq

LEMMA OpFields ==
  \A do, x, y, e :
    /\ Does(Op(do, x, y), do, x, y)
    /\ Does(On(e, Op(do, x, y)), do, x, y) /\ On(e, Op(do, x, y)).engine = e
    /\ Does([Op(do, x, y) EXCEPT !.stretch = TRUE], do, x, y)
    /\ [Op(do, x, y) EXCEPT !.stretch = TRUE].stretch = TRUE
BY DEF Op, On, Does

(* A source of the destination's size, wanted as a whole, is shown as it is*)
(* asked for, and in the destination's proportions.                        *)
LEMMA FromShows ==
  ASSUME FromReady
  PROVE  /\ ShowsPicture(call.from) /\ SizedAs(Src, Src)
         /\ call.request.enable_crop \in BOOLEAN /\ call.request.keep \in BOOLEAN
         /\ ~call.request.enable_crop => ShowsAsked(call.from)
         /\ ~call.request.enable_crop /\ SizedAs(Src, Dst) => SameProportions(Region(Src, call.request), Dst)
<1>1. call.request.enable_crop \in BOOLEAN /\ call.request.keep \in BOOLEAN
  BY DEF FromReady, RequestFits, Request
<1>2. ShowsPicture(call.from) /\ SizedAs(Src, Src)
  BY DEF FromReady, ShowsPicture, Shows, SizedAs
<1>3. ~call.request.enable_crop => ShowsAsked(call.from)
  BY <1>2 DEF FromReady, ShowsAsked, Shows, Region, Whole
<1>4. ASSUME ~call.request.enable_crop, SizedAs(Src, Dst)
      PROVE  SameProportions(Region(Src, call.request), Dst)
  <2>1. Src.width \in Nat /\ Src.height \in Nat
    BY DEF FromReady, PictureFits, Descriptor
  <2>2. /\ Region(Src, call.request).width = Src.width /\ Region(Src, call.request).height = Src.height
        /\ Dst.width = Src.width /\ Dst.height = Src.height
    BY <1>4 DEF Region, SizedAs
  <2>3. Src.width * Src.height = Src.height * Src.width
    BY <2>1
  <2> QED
    BY <2>2, <2>3 DEF SameProportions
<1> QED
  BY <1>1, <1>2, <1>3, <1>4

LEMMA PlanAx650Left ==
  ASSUME FromReady, ToReady, RunReady, chip = "ax650"
  PROVE  Left(PlanAx650(Src, Dst, call))
<1> DEFINE r == call.request
           same == SameGeometryAndFormat(Src, Dst, r)
           geometry == NeedsGeometryChange(Src, Dst, r)
           plan == PlanAx650(Src, Dst, call)
<1>0. chip # "axcl" /\ chip # "ax620e" /\ MidName = IntermediateOf(call.processor)
  BY DEF MidName
<1>1. r.enable_crop \in BOOLEAN /\ r.keep \in BOOLEAN /\ ShowsPicture(call.from) /\ SizedAs(Src, Src)
  BY FromShows
<1>2. same => ~geometry /\ Src.format = Dst.format
  BY DEF SameGeometryAndFormat, NeedsGeometryChange
<1>3. ~geometry => ~r.enable_crop /\ SizedAs(Src, Dst)
  BY DEF NeedsGeometryChange, SizedAs
<1>4. CASE same
  <2> DEFINE o == [Op("resize", call.from, call.to) EXCEPT !.stretch = TRUE]
  <2>1. plan = <<o>>
    BY <1>2, <1>4 DEF PlanAx650
  <2>2. Does(o, "resize", call.from, call.to) /\ o.stretch = TRUE
    BY OpFields
  <2> HIDE DEF o, plan
  <2>3. Scales(o, call.from, call.to) /\ Covers(o, call.from, call.to)
    BY <1>0, <1>2, <1>4, <2>2 DEF Scales, Covers, Src, Dst
  <2>4. Filling(plan, call.from)
    BY <1>1, <2>1, <2>3 DEF Filling, Src
  <2> QED
    BY <2>4 DEF Left, plan
<1>5. CASE ~geometry /\ Src.format # Dst.format
  <2> DEFINE o == Op("csc", call.from, call.to)
  <2>1. plan = <<o>>
    BY <1>2, <1>5 DEF PlanAx650
  <2>2. Does(o, "csc", call.from, call.to)
    BY OpFields
  <2> HIDE DEF o, plan
  <2>3. Straight(o, call.from) /\ ShowsAsked(call.from)
    BY <1>0, <1>3, <1>5, <2>2, FromShows DEF Straight, Does, Src
  <2>4. Filling(plan, call.from)
    BY <2>1, <2>3 DEF Filling
  <2> QED
    BY <2>4 DEF Left, plan
<1>6. CASE ~same /\ Src.format = Dst.format
  <2> DEFINE p == Op("fill", call.to, call.to)
             o == Op("resize", call.from, call.to)
  <2>1. plan = When(r.keep /\ geometry, <<p>>) \o <<o>>
    BY <1>2, <1>6 DEF PlanAx650
  <2>2. plan = IF r.keep /\ geometry THEN <<p, o>> ELSE <<o>>
    BY <2>1, Pair, Single DEF When
  <2>3. Does(o, "resize", call.from, call.to) /\ Does(p, "fill", call.to, call.to)
    BY OpFields
  <2> HIDE DEF o, p, plan
  <2>4. Scales(o, call.from, call.to) /\ Paints(p, call.to)
    BY <1>0, <1>6, <2>3 DEF Scales, Paints, Does, Src, Dst
  <2>5. ~(r.keep /\ geometry) => Covers(o, call.from, call.to)
    BY <1>0, <1>1, <1>3, FromShows DEF Covers, Src, Dst
  <2>6. Filling(plan, call.from)
    BY <1>1, <2>2, <2>4, <2>5 DEF Filling, Src
  <2> QED
    BY <2>6 DEF Left, plan
<1>7. CASE geometry /\ Src.format # Dst.format
  <2> DEFINE k == Op("make", call.from, MidName)
             p == Op("fill", MidName, MidName)
             o == Op("resize", call.from, MidName)
             l == Op("csc", MidName, call.to)
  <2>1. plan = <<k>> \o When(r.keep, <<p>>) \o <<o, l>>
    BY <1>0, <1>2, <1>7 DEF PlanAx650
  <2>2. plan = IF r.keep THEN <<k, p, o, l>> ELSE <<k, o, l>>
    <3>1. CASE r.keep
      <4>1. <<k>> \o <<p>> = <<k, p>> /\ <<k, p>> \o <<o, l>> = <<k, p, o, l>>
        BY Pair, Quadruple
      <4> QED
        BY <2>1, <3>1, <4>1 DEF When
    <3>2. CASE ~r.keep
      <4>1. <<k>> \o <<>> = <<k>>
        BY ConcatEmptySeq
      <4> QED
        BY <2>1, <3>2, <4>1, Triple DEF When
    <3> QED
      BY <3>1, <3>2
  <2>3. /\ Does(k, "make", call.from, MidName) /\ Does(p, "fill", MidName, MidName)
        /\ Does(o, "resize", call.from, MidName) /\ Does(l, "csc", MidName, call.to)
    BY OpFields
  <2> HIDE DEF k, p, o, l, plan
  <2>4. Paints(p, MidName)
    BY <2>3 DEF Paints, Does
  <2>5. Making(plan)
    BY <1>0, <1>1, <2>2, <2>3, <2>4 DEF Making
  <2> QED
    BY <2>5 DEF Left, plan
<1> QED
  BY <1>4, <1>5, <1>6, <1>7

LEMMA PlanAx620eLeft ==
  ASSUME FromReady, ToReady, RunReady, chip = "ax620e"
  PROVE  Left(PlanAx620e(Src, Dst, call))
<1> DEFINE r == call.request
           same == SameGeometryAndFormat(Src, Dst, r)
           geometry == NeedsGeometryChange(Src, Dst, r)
           engine == IF Src.format \in Packed THEN "TDP" ELSE "VPP"
           plan == PlanAx620e(Src, Dst, call)
<1>0. chip # "axcl" /\ MidName = "temporary"
  BY DEF MidName
<1>1. r.enable_crop \in BOOLEAN /\ r.keep \in BOOLEAN /\ ShowsPicture(call.from) /\ SizedAs(Src, Src)
  BY FromShows
<1>2. same => ~geometry /\ Src.format = Dst.format
  BY DEF SameGeometryAndFormat, NeedsGeometryChange
<1>3. ~geometry => ~r.enable_crop /\ SizedAs(Src, Dst)
  BY DEF NeedsGeometryChange, SizedAs
<1>4. CASE same
  <2> DEFINE copier == IF Src.format = "kNv12" /\ images[call.from].device THEN "VPP" ELSE "any"
             o == On(copier, Op("copy", call.from, call.to))
  <2>1. plan = <<o>>
    BY <1>2, <1>4 DEF PlanAx620e
  <2>2. copier = "VPP" => Src.format = "kNv12"
    OBVIOUS
  <2> HIDE DEF copier
  <2>3. Does(o, "copy", call.from, call.to) /\ o.engine = copier
    BY DEF Op, On, Does
  <2> HIDE DEF o, plan
  <2>4. Straight(o, call.from) /\ ShowsAsked(call.from)
    BY <1>0, <1>2, <1>3, <1>4, <2>2, <2>3, FromShows DEF Straight, Does, Src, Dst
  <2>5. Filling(plan, call.from)
    BY <2>1, <2>4 DEF Filling
  <2> QED
    BY <2>5 DEF Left, plan
<1>5. CASE ~geometry /\ Src.format # Dst.format
  <2> DEFINE o == On("TDP", Op("csc", call.from, call.to))
  <2>1. plan = <<o>>
    BY <1>2, <1>5 DEF PlanAx620e
  <2>2. Does(o, "csc", call.from, call.to) /\ o.engine = "TDP"
    BY DEF Op, On, Does
  <2> HIDE DEF o, plan
  <2>3. Straight(o, call.from) /\ ShowsAsked(call.from)
    BY <1>0, <1>3, <1>5, <2>2, FromShows DEF Straight, Does, Src
  <2>4. Filling(plan, call.from)
    BY <2>1, <2>3 DEF Filling
  <2> QED
    BY <2>4 DEF Left, plan
<1>6. CASE ~same /\ Src.format = Dst.format
  <2> DEFINE p == Op("fill", call.to, call.to)
             o == On(engine, Op("resize", call.from, call.to))
  <2>1. plan = When(r.keep, <<p>>) \o <<o>>
    BY <1>2, <1>6 DEF PlanAx620e
  <2>2. plan = IF r.keep THEN <<p, o>> ELSE <<o>>
    BY <2>1, Pair, Single DEF When
  <2>3. engine = "VPP" => Src.format = "kNv12"
    BY DEF FromReady, PictureFits, Descriptor, Formats
  <2> HIDE DEF engine
  <2>4. /\ Does(o, "resize", call.from, call.to) /\ o.engine = engine
        /\ Does(p, "fill", call.to, call.to)
    <3>1. Does(o, "resize", call.from, call.to) /\ o.engine = engine
      BY DEF Op, On, Does
    <3>2. Does(p, "fill", call.to, call.to)
      BY OpFields
    <3> QED
      BY <3>1, <3>2
  <2> HIDE DEF o, p, plan
  <2>5. Scales(o, call.from, call.to) /\ Paints(p, call.to)
    BY <1>0, <1>6, <2>3, <2>4 DEF Scales, Paints, Does, Src, Dst
  <2>6. ~r.keep => Covers(o, call.from, call.to)
    BY <1>1 DEF Covers
  <2>7. Filling(plan, call.from)
    BY <1>1, <2>2, <2>5, <2>6 DEF Filling, Src
  <2> QED
    BY <2>7 DEF Left, plan
<1>7. CASE geometry /\ Src.format # Dst.format
  <2> DEFINE k == Op("make", call.from, MidName)
             p == Op("fill", MidName, MidName)
             o == On("VPP", Op("resize", call.from, MidName))
             l == On("TDP", Op("csc", MidName, call.to))
  <2>1. plan = <<k>> \o When(r.keep, <<p>>) \o <<o, l>>
    BY <1>0, <1>2, <1>7 DEF PlanAx620e
  <2>2. plan = IF r.keep THEN <<k, p, o, l>> ELSE <<k, o, l>>
    <3>1. CASE r.keep
      <4>1. <<k>> \o <<p>> = <<k, p>> /\ <<k, p>> \o <<o, l>> = <<k, p, o, l>>
        BY Pair, Quadruple
      <4> QED
        BY <2>1, <3>1, <4>1 DEF When
    <3>2. CASE ~r.keep
      <4>1. <<k>> \o <<>> = <<k>>
        BY ConcatEmptySeq
      <4> QED
        BY <2>1, <3>2, <4>1, Triple DEF When
    <3> QED
      BY <3>1, <3>2
  <2>3. /\ Does(k, "make", call.from, MidName) /\ Does(p, "fill", MidName, MidName)
        /\ Does(o, "resize", call.from, MidName) /\ Does(l, "csc", MidName, call.to)
    BY OpFields
  <2> HIDE DEF k, p, o, l, plan
  <2>4. Paints(p, MidName)
    BY <2>3 DEF Paints, Does
  <2>5. Making(plan)
    BY <1>0, <1>1, <2>2, <2>3, <2>4 DEF Making
  <2> QED
    BY <2>5 DEF Left, plan
<1> QED
  BY <1>4, <1>5, <1>6, <1>7

LEMMA PlanAxclLeft ==
  ASSUME FromReady, ToReady, RunReady, chip = "axcl"
  PROVE  Left(PlanAxcl(Src, Dst, call))
<1> DEFINE r == call.request
           same == SameGeometryAndFormat(Src, Dst, r)
           geometry == NeedsGeometryChange(Src, Dst, r)
           staged == ~images[call.from].device
           from == IF staged THEN "temporary" ELSE call.from
           engine == IF Dst.format \in Packed THEN "VGP" ELSE "VPP"
           plan == PlanAxcl(Src, Dst, call)
           k == Op("make", call.from, MidName)
           q == Op("copy", call.from, MidName)
           c == On("VGP", Op("csc", from, call.to))
           p == Op("clear", call.to, call.to)
           o == On(engine, Op("resize", from, call.to))
<1>0. MidName = "temporary"
  BY DEF MidName
<1>1. r.enable_crop \in BOOLEAN /\ r.keep \in BOOLEAN /\ ShowsPicture(call.from) /\ SizedAs(Src, Src)
  BY FromShows
<1>2. same => ~geometry /\ Src.format = Dst.format
  BY DEF SameGeometryAndFormat, NeedsGeometryChange
<1>3. ~geometry => ~r.enable_crop /\ SizedAs(Src, Dst)
  BY DEF NeedsGeometryChange, SizedAs
<1>4. images[call.from].device \in BOOLEAN
  BY DEF FromReady
<1>5. CASE same
  <2> DEFINE a == Op("copy", call.from, call.to)
  <2>1. plan = <<a>>
    BY <1>5 DEF PlanAxcl
  <2>2. Does(a, "copy", call.from, call.to)
    BY OpFields
  <2> HIDE DEF a, plan
  <2>3. Straight(a, call.from) /\ ShowsAsked(call.from)
    BY <1>2, <1>3, <1>5, <2>2, FromShows DEF Straight, Does, Src, Dst
  <2>4. Filling(plan, call.from)
    BY <2>1, <2>3 DEF Filling
  <2> QED
    BY <2>4 DEF Left, plan
<1>6. CASE ~same
  <2>1. plan = When(staged, <<k, q>>) \o (IF ~geometry THEN <<c>> ELSE <<p, o>>)
    BY <1>0, <1>6 DEF PlanAxcl
  <2>2. /\ staged /\ ~geometry => plan = <<k, q, c>>
        /\ staged /\ geometry => plan = <<k, q, p, o>>
        /\ ~staged /\ ~geometry => plan = <<c>>
        /\ ~staged /\ geometry => plan = <<p, o>>
    <3>1. CASE staged
      BY <2>1, <3>1, Triple, Quadruple, SMTT(60) DEF When
    <3>2. CASE ~staged
      BY <2>1, <3>2, Single DEF When
    <3> QED
      BY <3>1, <3>2
  <2>8. IF staged THEN from = MidName ELSE from = call.from /\ images[call.from].device = TRUE
    BY <1>0, <1>4
  <2> HIDE DEF staged, from, engine
  <2>3. /\ Does(k, "make", call.from, MidName) /\ Does(q, "copy", call.from, MidName)
        /\ Does(c, "csc", from, call.to) /\ Does(o, "resize", from, call.to)
        /\ Does(p, "clear", call.to, call.to)
    <3>1. Does(k, "make", call.from, MidName)
      BY OpFields
    <3>2. Does(q, "copy", call.from, MidName)
      BY OpFields
    <3>3. Does(p, "clear", call.to, call.to)
      BY OpFields
    <3>4. Does(c, "csc", from, call.to)
      BY OpFields
    <3>5. Does(o, "resize", from, call.to)
      BY OpFields
    <3> QED
      BY <3>1, <3>2, <3>3, <3>4, <3>5
  <2> HIDE DEF k, q, c, p, o, plan
  <2>4. Paints(p, call.to)
    BY <2>3 DEF Paints, Does
  <2>5. CASE staged
    <3>1. Making(plan)
      BY <1>0, <1>1, <1>3, <2>2, <2>3, <2>4, <2>5, <2>8 DEF Making
    <3> QED
      BY <3>1 DEF Left, plan
  <2>6. CASE ~staged /\ ~geometry
    <3>1. Straight(c, call.from) /\ ShowsAsked(call.from)
      BY <1>3, <2>3, <2>6, <2>8, FromShows DEF Straight, Does, Src
    <3>2. Filling(plan, call.from)
      BY <2>2, <2>6, <3>1 DEF Filling
    <3> QED
      BY <3>2 DEF Left, plan
  <2>7. CASE ~staged /\ geometry
    <3>1. Scales(o, call.from, call.to)
      BY <2>3, <2>7, <2>8 DEF Scales
    <3>2. Filling(plan, call.from)
      BY <1>1, <2>2, <2>4, <2>7, <3>1 DEF Filling, Src
    <3> QED
      BY <3>2 DEF Left, plan
  <2> QED
    BY <2>5, <2>6, <2>7
<1> QED
  BY <1>5, <1>6

LEMMA PlanLeft ==
  ASSUME ChipKnown, FromReady, ToReady, RunReady
  PROVE  Left(Plan(Src, Dst, call))
<1>1. CASE chip = "ax650"
  BY <1>1, PlanAx650Left DEF Plan
<1>2. CASE chip = "ax620e"
  BY <1>2, PlanAx620eLeft DEF Plan
<1>3. CASE chip = "axcl"
  BY <1>3, PlanAxclLeft DEF Plan
<1> QED
  BY <1>1, <1>2, <1>3 DEF ChipKnown

-----------------------------------------------------------------------------
(* One operation.                                                          *)

(* What stays when an engine, or a new image, changes what is in y.        *)
Kept(n) ==
  /\ images'[n].desc = images[n].desc /\ images'[n].device = images[n].device
  /\ images[n] # NoImage => images'[n] # NoImage

SameCall ==
  /\ UNCHANGED <<chip, calls>>
  /\ call'.from = call.from /\ call'.to = call.to
  /\ call'.request = call.request /\ call'.processor = call.processor

Places ==
  /\ call.from \in {"source", "native"}
  /\ call.to \in {"output", "destination", "prepared"}
  /\ MidName \in {"cached", "localCached", "temporary"}
  /\ {call.from, call.to, MidName} \subseteq ImageNames

LEMMA WhichPlaces == FromReady /\ ToReady => Places
BY DEF FromReady, ToReady, Places, ImageNames, MidName, IntermediateOf

LEMMA ReadyStays ==
  ASSUME FromReady, ToReady, RunReady, SameCall, \A n \in {call.from, call.to} : Kept(n),
         images'[call.from].shows = images[call.from].shows
  PROVE  /\ Src' = Src /\ Dst' = Dst /\ MidName' = MidName
         /\ FromReady' /\ ToReady' /\ RunReady'
<1>1. Src' = Src /\ Dst' = Dst /\ MidName' = MidName
  BY DEF SameCall, Kept, Src, Dst, MidName
<1>2. FromReady'
  BY <1>1 DEF FromReady, SameCall, Kept
<1>3. ToReady'
  BY DEF ToReady, SameCall, Kept
<1>4. RunReady'
  BY <1>1 DEF RunReady, SameCall
<1> QED
  BY <1>1, <1>2, <1>3, <1>4

LEMMA OpsStay ==
  ASSUME SameCall, \A n \in {call.from, call.to, MidName} : Kept(n)
  PROVE  /\ MidName' = MidName
         /\ \A o : \A x \in {call.from, MidName} :
              /\ Straight(o, x) => Straight(o, x)'
              /\ \A y \in {call.to, MidName} : Scales(o, x, y) => Scales(o, x, y)'
         /\ \A o, y : Paints(o, y) => Paints(o, y)'
         /\ \A o, do, x, y : Does(o, do, x, y) => Does(o, do, x, y)'
         /\ MidFits => MidFits'
         /\ \A n \in {call.from, call.to, MidName} :
              images'[n].shows = images[n].shows =>
                /\ ShowsPicture(n) => ShowsPicture(n)'
                /\ ShowsAsked(n) => ShowsAsked(n)'
                /\ \A o : \A x \in {call.from, MidName} : Covers(o, x, n) => Covers(o, x, n)'
<1>1. MidName' = MidName /\ Src' = Src /\ Dst' = Dst /\ Mid' = Mid
  BY DEF SameCall, Kept, Src, Dst, Mid, MidName
<1>2. \A n \in {call.from, call.to, MidName} :
        images'[n].desc = images[n].desc /\ images'[n].device = images[n].device
  BY DEF Kept
<1>3. chip' = chip /\ calls' = calls /\ call'.to = call.to /\ call'.request = call.request
  BY DEF SameCall
<1>4. ASSUME NEW o, NEW x \in {call.from, MidName}, Straight(o, x) PROVE Straight(o, x)'
  BY <1>1, <1>2, <1>3, <1>4 DEF Straight
<1>5. ASSUME NEW o, NEW x \in {call.from, MidName}, NEW y \in {call.to, MidName}, Scales(o, x, y)
      PROVE  Scales(o, x, y)'
  BY <1>1, <1>2, <1>3, <1>5 DEF Scales, Does
<1>6. MidFits => MidFits'
  BY <1>1, <1>2, <1>3 DEF MidFits, Kept
<1>7. ASSUME NEW n \in {call.from, call.to, MidName}, images'[n].shows = images[n].shows
      PROVE  /\ ShowsPicture(n) => ShowsPicture(n)'
             /\ ShowsAsked(n) => ShowsAsked(n)'
             /\ \A o : \A x \in {call.from, MidName} : Covers(o, x, n) => Covers(o, x, n)'
  <2>1. ShowsPicture(n) => ShowsPicture(n)'
    BY <1>3, <1>7 DEF ShowsPicture, Kept
  <2>2. ShowsAsked(n) => ShowsAsked(n)'
    BY <1>1, <1>3, <1>7, <2>1 DEF ShowsAsked
  <2>3. ASSUME NEW o, NEW x \in {call.from, MidName}, Covers(o, x, n) PROVE Covers(o, x, n)'
    BY <1>2, <1>3, <1>7, <2>3 DEF Covers
  <2> QED
    BY <2>1, <2>2, <2>3
<1> QED
  BY <1>1, <1>4, <1>5, <1>6, <1>7 DEF Paints, Does

(* The part of the source that is asked for.                               *)
LEMMA RegionInside ==
  ASSUME FromReady, ValidateCrop(Src, call.request), NEW d, SizedAs(d, Src)
  PROVE  /\ Region(d, call.request) \in Crop /\ Within(Region(d, call.request), d)
         /\ Region(d, call.request).width \in Nat \ {0} /\ Region(d, call.request).height \in Nat \ {0}
<1> DEFINE r == call.request
<1>1. d.width \in Nat \ {0} /\ d.height \in Nat \ {0} /\ d.width = Src.width /\ d.height = Src.height
  BY DEF FromReady, PictureFits, Descriptor, SizedAs
<1>2. r.enable_crop \in BOOLEAN /\ r.crop \in Crop
  BY DEF FromReady, RequestFits, Request
<1>3. CASE r.enable_crop
  <2>1. r.crop.x + r.crop.width < WordSize /\ r.crop.y + r.crop.height < WordSize
    BY <1>3 DEF FromReady, RequestFits
  <2>2. ValidateCrop(Src, r) /\ r.crop.width # 0 /\ r.crop.height # 0
    BY <1>3 DEF ValidateCrop
  <2>3. Within(Region(Src, r), Src)
    BY <1>1, <1>2, <1>3, <2>1, <2>2, CropInside
  <2>4. Region(d, r) = r.crop /\ Region(Src, r) = r.crop
    BY <1>3 DEF Region
  <2>5. Within(r.crop, d)
    BY <1>1, <2>3, <2>4 DEF Within
  <2> QED
    BY <1>2, <2>2, <2>4, <2>5 DEF Crop
<1>4. CASE ~r.enable_crop
  <2>1. Region(d, r) = [x |-> 0, y |-> 0, width |-> d.width, height |-> d.height]
    BY <1>4 DEF Region
  <2> QED
    BY <1>1, <2>1 DEF Within, Crop
<1> QED
  BY <1>2, <1>3, <1>4

(* The casts of a frame's crop leave the part asked for as it is.          *)
LEMMA ReadIs ==
  ASSUME FromReady, RunReady,
         \/ op.do = "resize" /\ SizedAs(From.desc, Src)
         \/ op.do \in {"csc", "copy"} /\ (SizedAs(From.desc, Src) \/ SizedAs(From.desc, Dst))
  PROVE  /\ Read = AskedFor /\ Within(Read, From.desc)
         /\ Read.width \in Nat \ {0} /\ Read.height \in Nat \ {0}
<1>1. /\ From.desc.width \in Nat \ {0} /\ From.desc.height \in Nat \ {0}
      /\ From.desc.width <= MaxShort /\ From.desc.height <= MaxShort
  BY DEF FromReady, PictureFits, Descriptor, RunReady, Narrow, SizedAs
<1>2. /\ AskedFor \in Crop /\ Within(AskedFor, From.desc)
      /\ AskedFor.width \in Nat \ {0} /\ AskedFor.height \in Nat \ {0}
  <2>1. CASE op.do = "resize"
    <3>1. SizedAs(From.desc, Src) /\ AskedFor = Region(From.desc, call.request)
      BY <2>1 DEF AskedFor
    <3>2. ValidateCrop(Src, call.request)
      BY DEF RunReady
    <3> QED
      BY <3>1, <3>2, RegionInside
  <2>2. CASE op.do # "resize"
    <3>1. AskedFor = [x |-> 0, y |-> 0, width |-> From.desc.width, height |-> From.desc.height]
      BY <2>2 DEF AskedFor, Whole
    <3> QED
      BY <1>1, <3>1 DEF Crop, Within
  <2> QED
    BY <2>1, <2>2
<1>3. FrameCrop(AskedFor) = AskedFor
  BY <1>1, <1>2, RegionIs
<1>4. Read = AskedFor
  BY <1>3 DEF Read
<1> QED
  BY <1>2, <1>4

(* What the engine leaves in the image it writes.                          *)
LEMMA ResultIs ==
  /\ op.do \in {"fill", "clear"} => Result.around # "stale"
  /\ op.do \in {"csc", "copy"} /\ Read = AskedFor => Result = From.shows
  /\ op.do = "resize" /\ Read = AskedFor =>
       /\ Result.picture = From.shows.picture
       /\ Result.region = Region(From.desc, call.request)
       /\ Covers(op, op.from, op.to) => Result.around # "stale"
<1>1. op.do \in {"fill", "clear"} => Result.around # "stale"
  BY DEF Result, Painted, Blank
<1>2. op.do \in {"csc", "copy"} /\ Read = AskedFor => Result = From.shows
  BY DEF Result
<1>3. ASSUME op.do = "resize", Read = AskedFor
      PROVE  /\ Result.picture = From.shows.picture
             /\ Result.region = Region(From.desc, call.request)
             /\ Covers(op, op.from, op.to) => Result.around # "stale"
  <2>1. Read = Region(From.desc, call.request)
    BY <1>3 DEF AskedFor
  <2>2. Result = [picture |-> From.shows.picture, region |-> Read,
                  around |-> IF Placed = Whole(To.desc) THEN "picture" ELSE To.shows.around]
    BY <1>3 DEF Result
  <2>3. Covers(op, op.from, op.to) => Placed = Whole(To.desc) \/ To.shows.around # "stale"
    BY <2>1 DEF Covers, Placed, From, To
  <2> QED
    BY <2>1, <2>2, <2>3
<1> QED
  BY <1>1, <1>2, <1>3

LEMMA OperateEffect ==
  ASSUME MemoryInv, Operate, op.to \in ImageNames, images[op.to] # NoImage
  PROVE  /\ SameCall /\ call'.todo = Tail(call.todo) /\ call'.phase = "run"
         /\ \A n \in ImageNames : Kept(n) /\ (n # op.to => images'[n].shows = images[n].shows)
         /\ images'[op.to].shows = Result
<1>1. images' = [images EXCEPT ![op.to].shows = Result] /\ call' = Next1 /\ UNCHANGED <<chip, calls>>
  BY DEF Operate
<1>2. DOMAIN images = ImageNames /\ DOMAIN images[op.to] = ImageFields
  BY DEF MemoryInv, ImagesTyped
<1>3. SameCall /\ call'.todo = Tail(call.todo) /\ call'.phase = "run"
  BY <1>1 DEF SameCall, Next1, MemoryInv, CallTyped, IsCall, CallFields, Operate
<1>4. images'[op.to] = [images[op.to] EXCEPT !.shows = Result]
  BY <1>1, <1>2
<1>5. /\ images'[op.to].shows = Result
      /\ images'[op.to].desc = images[op.to].desc /\ images'[op.to].device = images[op.to].device
      /\ DOMAIN images'[op.to] = ImageFields
  BY <1>2, <1>4 DEF ImageFields
<1>6. images'[op.to] # NoImage
  BY <1>5 DEF NoImage, ImageFields
<1>7. \A n \in ImageNames : n # op.to => images'[n] = images[n]
  BY <1>1, <1>2
<1> QED
  BY <1>3, <1>5, <1>6, <1>7 DEF Kept

(* An operation done leaves the rest of its plan.                          *)
LEMMA Asked ==
  ASSUME FromReady, NEW d, SizedAs(d, Src) PROVE Region(d, call.request) = Region(Src, call.request)
BY DEF Region, SizedAs

LEMMA OneOf == \A o : Head(<<o>>) = o /\ Tail(<<o>>) = <<>>
OBVIOUS

LEMMA OneOfMore ==
  \A o, l, m : /\ Head(<<o, l>>) = o /\ Tail(<<o, l>>) = <<l>>
               /\ Head(<<o, l, m>>) = o /\ Tail(<<o, l, m>>) = <<l, m>>
OBVIOUS

LEMMA OneOfFour ==
  \A o, l, m, n : Head(<<o, l, m, n>>) = o /\ Tail(<<o, l, m, n>>) = <<l, m, n>>
OBVIOUS

LEMMA MakingMakes == ASSUME NEW t, Making(t) PROVE Head(t).do = "make"
<1>1. \E k, q, p, o : (t = <<k, q, p>> \/ t = <<k, q, p, o>>) /\ Does(k, "make", call.from, MidName)
  BY DEF Making
<1> QED
  BY <1>1, OneOfMore, OneOfFour DEF Does

LEMMA OperateKeeps ==
  ASSUME MemoryInv, FromReady, ToReady, RunReady, Operate, op.to \in {call.to, MidName}, images[op.to] # NoImage
  PROVE  /\ FromReady' /\ ToReady' /\ RunReady'
         /\ Src' = Src /\ Dst' = Dst /\ MidName' = MidName
         /\ SameCall /\ \A n \in {call.from, call.to, MidName} : Kept(n)
         /\ call'.todo = Tail(call.todo)
         /\ images'[op.to].shows = Result
         /\ \A n \in {call.from, call.to, MidName} : n # op.to => images'[n].shows = images[n].shows
         /\ call.from # call.to /\ call.from # MidName /\ call.to # MidName
<1>1. Places
  BY WhichPlaces
<1>2. op.to \in ImageNames /\ call.from # call.to /\ call.from # MidName /\ call.to # MidName
  BY <1>1 DEF Places
<1>3. /\ SameCall /\ call'.todo = Tail(call.todo)
      /\ \A n \in ImageNames : Kept(n) /\ (n # op.to => images'[n].shows = images[n].shows)
      /\ images'[op.to].shows = Result
  BY <1>2, OperateEffect
<1>4. /\ \A n \in {call.from, call.to, MidName} : Kept(n)
      /\ \A n \in {call.from, call.to, MidName} : n # op.to => images'[n].shows = images[n].shows
  BY <1>1, <1>3 DEF Places
<1>5. FromReady' /\ ToReady' /\ RunReady' /\ Src' = Src /\ Dst' = Dst /\ MidName' = MidName
  BY <1>2, <1>3, <1>4, ReadyStays
<1> QED
  BY <1>2, <1>3, <1>4, <1>5

(* A copy of the source, on the way.                                       *)
LEMMA CopyIs ==
  ASSUME FromReady, RunReady, op.do = "copy", op.from = call.from
  PROVE  Result = images[call.from].shows
<1>1. From = images[call.from] /\ SizedAs(From.desc, Src)
  BY DEF From, Src, SizedAs
<1>2. Read = AskedFor
  BY <1>1, ReadIs
<1> QED
  BY <1>1, <1>2, ResultIs

LEMMA StagingNext ==
  ASSUME MemoryInv, FromReady, ToReady, RunReady, Operate, Staging(call.todo)
  PROVE  FromReady' /\ ToReady' /\ RunReady' /\ Left(call.todo)'
<1>1. PICK mid : mid = MidName
  OBVIOUS
<1>2. MidFits /\ images[mid] # NoImage
  BY <1>1 DEF Staging, MidFits
<1>3. CASE chip # "axcl" /\ \E o, l : /\ call.todo = <<o, l>>
                                      /\ Scales(o, call.from, mid) /\ Covers(o, call.from, mid)
                                      /\ Straight(l, mid)
  <2>1. PICK o, l : /\ call.todo = <<o, l>>
                    /\ Scales(o, call.from, mid) /\ Covers(o, call.from, mid) /\ Straight(l, mid)
    BY <1>3
  <2>2. op = o /\ Tail(call.todo) = <<l>> /\ op.do = "resize" /\ op.from = call.from /\ op.to = mid
    BY <2>1, OneOfMore DEF op, Scales, Does
  <2>3. /\ FromReady' /\ ToReady' /\ RunReady' /\ MidName' = mid
        /\ SameCall /\ \A n \in {call.from, call.to, mid} : Kept(n)
        /\ call'.todo = <<l>> /\ images'[mid].shows = Result /\ Src' = Src
    BY <1>1, <1>2, <2>2, OperateKeeps
  <2>4. Straight(l, mid)'
    BY <1>1, <2>1, <2>3, OpsStay
  <2>5. ShowsAsked(mid)'
    <3>1. From.shows.picture = calls /\ From.desc = Src /\ SizedAs(From.desc, Src)
      BY <2>2 DEF From, FromReady, Shows, Src, SizedAs
    <3>2. Read = AskedFor
      BY <2>2, <3>1, ReadIs
    <3>3. /\ Result.picture = From.shows.picture
          /\ Result.region = Region(From.desc, call.request)
          /\ Result.around # "stale"
      BY <2>1, <2>2, <3>2, ResultIs
    <3> QED
      BY <1>2, <2>3, <3>1, <3>3 DEF ShowsAsked, ShowsPicture, SameCall, Kept
  <2>6. Filling(<<l>>, mid)'
    BY <2>4, <2>5 DEF Filling
  <2> QED
    BY <2>3, <2>6 DEF Left
<1>4. CASE chip # "axcl" /\ \E p, o, l : /\ call.todo = <<p, o, l>>
                                         /\ Paints(p, mid) /\ Scales(o, call.from, mid) /\ Straight(l, mid)
  <2>1. PICK p, o, l : /\ call.todo = <<p, o, l>>
                       /\ Paints(p, mid) /\ Scales(o, call.from, mid) /\ Straight(l, mid)
    BY <1>4
  <2>2. op = p /\ Tail(call.todo) = <<o, l>> /\ op.do \in {"fill", "clear"} /\ op.to = mid
    BY <2>1, OneOfMore DEF op, Paints
  <2>3. /\ FromReady' /\ ToReady' /\ RunReady' /\ MidName' = mid
        /\ SameCall /\ \A n \in {call.from, call.to, mid} : Kept(n)
        /\ call'.todo = <<o, l>> /\ images'[mid].shows = Result
    BY <1>1, <1>2, <2>2, OperateKeeps
  <2>4. Straight(l, mid)' /\ Scales(o, call.from, mid)' /\ MidFits' /\ chip' = chip /\ call'.from = call.from
    BY <1>1, <1>2, <2>1, <2>3, OpsStay DEF SameCall
  <2>5. Covers(o, call.from, mid)'
    BY <2>2, <2>3, ResultIs DEF Covers
  <2>6. Staging(<<o, l>>)'
    BY <1>4, <2>3, <2>4, <2>5 DEF Staging
  <2> QED
    BY <2>3, <2>6 DEF Left
<1>5. CASE /\ chip = "axcl" /\ call.request.enable_crop = FALSE
           /\ \E q, l : call.todo = <<q, l>> /\ Does(q, "copy", call.from, mid) /\ Straight(l, mid)
  <2>1. PICK q, l : call.todo = <<q, l>> /\ Does(q, "copy", call.from, mid) /\ Straight(l, mid)
    BY <1>5
  <2>2. op = q /\ Tail(call.todo) = <<l>> /\ op.do = "copy" /\ op.from = call.from /\ op.to = mid
    BY <2>1, OneOfMore DEF op, Does
  <2>3. /\ FromReady' /\ ToReady' /\ RunReady' /\ MidName' = mid
        /\ SameCall /\ \A n \in {call.from, call.to, mid} : Kept(n)
        /\ call'.todo = <<l>> /\ images'[mid].shows = Result /\ Src' = Src
    BY <1>1, <1>2, <2>2, OperateKeeps
  <2>4. Straight(l, mid)'
    BY <1>1, <2>1, <2>3, OpsStay
  <2>5. ShowsAsked(mid)'
    <3>1. Result = images[call.from].shows
      BY <2>2, CopyIs
    <3>2. ShowsAsked(call.from)
      BY <1>5, FromShows
    <3> QED
      BY <1>2, <2>3, <3>1, <3>2 DEF ShowsAsked, ShowsPicture, SameCall, Kept
  <2>6. Filling(<<l>>, mid)'
    BY <2>4, <2>5 DEF Filling
  <2> QED
    BY <2>3, <2>6 DEF Left
<1>6. CASE /\ chip = "axcl"
           /\ \E q, p, o : /\ call.todo = <<q, p, o>>
                           /\ Does(q, "copy", call.from, mid) /\ Paints(p, call.to) /\ Scales(o, mid, call.to)
  <2>1. PICK q, p, o : /\ call.todo = <<q, p, o>>
                       /\ Does(q, "copy", call.from, mid) /\ Paints(p, call.to) /\ Scales(o, mid, call.to)
    BY <1>6
  <2>2. op = q /\ Tail(call.todo) = <<p, o>> /\ op.do = "copy" /\ op.from = call.from /\ op.to = mid
    BY <2>1, OneOfMore DEF op, Does
  <2>3. /\ FromReady' /\ ToReady' /\ RunReady' /\ MidName' = mid
        /\ SameCall /\ \A n \in {call.from, call.to, mid} : Kept(n)
        /\ call'.todo = <<p, o>> /\ images'[mid].shows = Result /\ Src' = Src
    BY <1>1, <1>2, <2>2, OperateKeeps
  <2>4. Paints(p, call.to)' /\ Scales(o, mid, call.to)' /\ call'.to = call.to
    <3>1. Scales(o, mid, call.to)'
      BY <1>1, <2>1, <2>3, OpsStay DEF SameCall
    <3> QED
      BY <2>1, <2>3, <3>1 DEF Paints, SameCall
  <2>5. ShowsPicture(mid)' /\ SizedAs(images[mid].desc, Src)'
    <3>1. Result = images[call.from].shows
      BY <2>2, CopyIs
    <3>2. ShowsPicture(call.from)
      BY FromShows
    <3>3. SizedAs(images[mid].desc, Src)
      BY <1>1, <1>2, <1>6 DEF MidFits, Mid
    <3> QED
      BY <1>2, <2>3, <3>1, <3>2, <3>3 DEF ShowsPicture, SameCall, Kept
  <2>6. Filling(<<p, o>>, mid)'
    BY <2>4, <2>5 DEF Filling
  <2> QED
    BY <2>3, <2>6 DEF Left
<1> QED
  BY <1>1, <1>3, <1>4, <1>5, <1>6 DEF Staging

LEMMA FillingNext ==
  ASSUME MemoryInv, FromReady, ToReady, RunReady, Operate,
         NEW x, x \in {call.from, MidName}, Filling(call.todo, x)
  PROVE  FromReady' /\ ToReady' /\ RunReady' /\ Left(call.todo)'
<1>1. images[call.to] # NoImage /\ x # call.to /\ SizedAs(Src, Src) /\ x \in {call.from, call.to, MidName}
  BY WhichPlaces DEF ToReady, Places, SizedAs
<1>2. CASE ShowsAsked(x) /\ \E o : call.todo = <<o>> /\ Straight(o, x)
  <2>1. PICK o : call.todo = <<o>> /\ Straight(o, x)
    BY <1>2
  <2>2. op = o /\ Tail(call.todo) = <<>> /\ op.do \in {"csc", "copy"} /\ op.from = x /\ op.to = call.to
    BY <2>1, OneOf DEF op, Straight
  <2>3. /\ FromReady' /\ ToReady' /\ RunReady' /\ SameCall
        /\ call'.todo = <<>> /\ images'[call.to].shows = Result /\ Src' = Src
    BY <1>1, <2>2, OperateKeeps
  <2>4. ShowsAsked(call.to)'
    <3>1. From = images[x] /\ SizedAs(From.desc, Dst)
      BY <2>1, <2>2 DEF From, Straight
    <3>2. Result = images[x].shows
      BY <2>2, <3>1, ReadIs, ResultIs
    <3> QED
      BY <1>2, <2>3, <3>2 DEF ShowsAsked, ShowsPicture, SameCall, ToReady
  <2> QED
    BY <2>3, <2>4 DEF Left
<1>3. CASE /\ ShowsPicture(x) /\ SizedAs(images[x].desc, Src)
           /\ \E o : call.todo = <<o>> /\ Scales(o, x, call.to) /\ Covers(o, x, call.to)
  <2>1. PICK o : call.todo = <<o>> /\ Scales(o, x, call.to) /\ Covers(o, x, call.to)
    BY <1>3
  <2>2. op = o /\ Tail(call.todo) = <<>> /\ op.do = "resize" /\ op.from = x /\ op.to = call.to
    BY <2>1, OneOf DEF op, Scales, Does
  <2>3. /\ FromReady' /\ ToReady' /\ RunReady' /\ SameCall
        /\ call'.todo = <<>> /\ images'[call.to].shows = Result /\ Src' = Src
    BY <1>1, <2>2, OperateKeeps
  <2>4. ShowsAsked(call.to)'
    <3>1. Read = AskedFor /\ From = images[x]
      <4>1. From = images[x] /\ SizedAs(From.desc, Src)
        BY <1>3, <2>2 DEF From
      <4> QED
        BY <2>2, <4>1, ReadIs
    <3>2. /\ Result.picture = images[x].shows.picture
          /\ Result.region = Region(images[x].desc, call.request)
          /\ Result.around # "stale"
      BY <2>1, <2>2, <3>1, ResultIs
    <3>3. Region(images[x].desc, call.request) = Region(Src, call.request)
      BY <1>3, Asked
    <3> QED
      BY <1>3, <2>3, <3>2, <3>3 DEF ShowsAsked, ShowsPicture, SameCall, ToReady
  <2> QED
    BY <2>3, <2>4 DEF Left
<1>4. CASE /\ ShowsPicture(x) /\ SizedAs(images[x].desc, Src)
           /\ \E p, o : call.todo = <<p, o>> /\ Paints(p, call.to) /\ Scales(o, x, call.to)
  <2>1. PICK p, o : call.todo = <<p, o>> /\ Paints(p, call.to) /\ Scales(o, x, call.to)
    BY <1>4
  <2>2. op = p /\ Tail(call.todo) = <<o>> /\ op.do \in {"fill", "clear"} /\ op.to = call.to
    BY <2>1, OneOfMore DEF op, Paints
  <2>3. /\ FromReady' /\ ToReady' /\ RunReady' /\ SameCall /\ MidName' = MidName /\ Src' = Src
        /\ \A n \in {call.from, call.to, MidName} : Kept(n)
        /\ call'.todo = <<o>> /\ images'[call.to].shows = Result
        /\ images'[x].shows = images[x].shows
    BY <1>1, <2>2, OperateKeeps
  <2>4. Scales(o, x, call.to)' /\ call'.to = call.to
    BY <2>1, <2>3, OpsStay DEF SameCall
  <2>5. Covers(o, x, call.to)'
    BY <2>2, <2>3, <2>4, ResultIs DEF Covers
  <2>6. ShowsPicture(x)' /\ SizedAs(images[x].desc, Src)'
    BY <1>1, <1>4, <2>3 DEF ShowsPicture, SameCall, Kept
  <2>7. Filling(<<o>>, x)'
    BY <2>4, <2>5, <2>6 DEF Filling
  <2>8. x \in {call.from, MidName}'
    BY <2>3 DEF SameCall
  <2> QED
    BY <2>3, <2>7, <2>8 DEF Left
<1> QED
  BY <1>2, <1>3, <1>4 DEF Filling

LEMMA OperateNext ==
  ASSUME MemoryInv, FromReady, ToReady, RunReady, Left(call.todo), Operate
  PROVE  FromReady' /\ ToReady' /\ RunReady' /\ Left(call.todo)'
<1>1. call.todo # <<>> /\ op.do # "make"
  BY DEF Operate
<1>2. ~Making(call.todo)
  BY <1>1, MakingMakes DEF op
<1> QED
  BY <1>1, <1>2, StagingNext, FillingNext DEF Left

-----------------------------------------------------------------------------
(* The image made on the way.                                              *)

LEMMA NormalizedKeeps ==
  ASSUME NEW d, {"format", "width", "height"} \subseteq DOMAIN d
  PROVE  /\ NormalizeDescriptor(d).format = d.format
         /\ NormalizeDescriptor(d).width = d.width /\ NormalizeDescriptor(d).height = d.height
BY DEF NormalizeDescriptor

LEMMA MadeIs ==
  ASSUME NEW d, NEW pool, NEW lifetime
  PROVE  /\ MakeImage(d, pool, lifetime).desc = NormalizeDescriptor(d)
         /\ MakeImage(d, pool, lifetime).device = TRUE
         /\ MakeImage(d, pool, lifetime) # NoImage
<1> DEFINE image == MakeImage(d, pool, lifetime)
<1>1. DOMAIN image = ImageFields /\ image.desc = NormalizeDescriptor(d) /\ image.device = TRUE
  BY DEF MakeImage, ImageFields
<1> HIDE DEF image
<1>2. image # NoImage
  BY <1>1 DEF NoImage, ImageFields
<1> QED
  BY <1>1, <1>2 DEF image

(* A smaller stride is refused, so AX620E makes none in a packed format.   *)
LEMMA PackedRefused ==
  ASSUME FromReady, RunReady, chip = "ax620e", IsValidDescriptor(IntermediateDescriptor(Src, Dst))
  PROVE  Src.format = "kNv12"
<1> DEFINE d == IntermediateDescriptor(Src, Dst)
<1>1. d.format = Src.format /\ d.width = Dst.width /\ d.stride0 = Dst.width
  BY DEF IntermediateDescriptor, StageFormat
<1>2. Dst.width \in Nat /\ Dst.width # 0
  BY DEF RunReady
<1> HIDE DEF d
<1>3. d.format \notin Packed
  <2> SUFFICES ASSUME d.format \in Packed PROVE FALSE
    OBVIOUS
  <2>1. MinStrideForFormat(d.format, d.width) = 3 * Dst.width
    BY <1>1 DEF MinStrideForFormat, Packed
  <2>2. Dst.width >= 3 * Dst.width
    BY <1>1, <1>2, <2>1 DEF IsValidDescriptor, StrideAllowed, d
  <2> QED
    BY <1>2, <2>2
<1> QED
  BY <1>1, <1>3 DEF FromReady, PictureFits, Descriptor, Formats

LEMMA IntermediateIs ==
  ASSUME FromReady, ChipKnown
  PROVE  LET e == NormalizeDescriptor(IntermediateDescriptor(Src, Dst))
             d == IntermediateDescriptor(Src, Dst)
         IN  /\ e.format = Src.format /\ d.format = Src.format
             /\ chip = "axcl" => SizedAs(e, Src)
             /\ chip # "axcl" => SizedAs(e, Dst) /\ SizedAs(d, Dst)
<1> DEFINE d == IntermediateDescriptor(Src, Dst)
<1>1. CASE chip = "ax650"
  <2>1. /\ DOMAIN d = {"format", "width", "height", "stride0", "stride1"}
        /\ d.format = Src.format /\ d.width = Dst.width /\ d.height = Dst.height
    BY <1>1 DEF IntermediateDescriptor, MakeAlignedDescriptor, StageFormat
  <2> HIDE DEF d
  <2> QED
    BY <1>1, <2>1, NormalizedKeeps DEF d, SizedAs
<1>2. CASE chip = "ax620e"
  <2>1. /\ DOMAIN d = {"format", "width", "height", "stride0", "stride1"}
        /\ d.format = Src.format /\ d.width = Dst.width /\ d.height = Dst.height
    BY <1>2 DEF IntermediateDescriptor, StageFormat
  <2> HIDE DEF d
  <2> QED
    BY <1>2, <2>1, NormalizedKeeps DEF d, SizedAs
<1>3. CASE chip = "axcl"
  <2>1. Src \in Descriptor
    BY DEF FromReady, PictureFits
  <2>2. d = [Src EXCEPT !.stride0 = 0, !.stride1 = 0]
    BY <1>3 DEF IntermediateDescriptor
  <2>3. /\ DOMAIN d = {"format", "width", "height", "stride0", "stride1"}
        /\ d.format = Src.format /\ d.width = Src.width /\ d.height = Src.height
    BY <2>1, <2>2 DEF Descriptor
  <2> HIDE DEF d
  <2> QED
    BY <1>3, <2>3, NormalizedKeeps DEF d, SizedAs
<1> QED
  BY <1>1, <1>2, <1>3 DEF ChipKnown

LEMMA MakeEffect ==
  ASSUME MemoryInv, ChipKnown, FromReady, ToReady, RunReady, MakeIntermediate,
         op.from = call.from, op.to = MidName
  PROVE  /\ SameCall /\ call'.todo = Tail(call.todo)
         /\ images'[call.from] = images[call.from] /\ images'[call.to] = images[call.to]
         /\ MidFits'
<1> DEFINE d == IntermediateDescriptor(Src, Dst)
           made(pool, lifetime) == [images EXCEPT ![MidName] = MakeImage(d, pool, lifetime)]
<1>1. From.desc = Src /\ To = images[MidName]
  BY DEF From, To, Src
<1>2. /\ call' = Next1 /\ UNCHANGED <<chip, stream, calls>>
      /\ \/ chip = "ax650" /\ Reusable(images[MidName], d) /\ images' = images
         \/ /\ IsValidDescriptor(d)
            /\ \E pool, lifetime : images' = made(pool, lifetime)
  <2>1. CASE chip = "ax650"
    <3>1. \/ Reusable(images[MidName], d) /\ call' = Next1 /\ images' = images
          \/ CreateInCmm(MidName, d, Next1)
      BY <1>1, <2>1 DEF MakeIntermediate, Dst
    <3> QED
      BY <2>1, <3>1 DEF CreateInCmm, Settle, MakeIntermediate
  <2>2. CASE chip = "ax620e"
    <3>1. CreateInPool(call.processor, MidName, d, Next1)
      BY <1>1, <2>2 DEF MakeIntermediate, Dst
    <3> QED
      BY <2>2, <3>1 DEF CreateInPool, Settle, MakeIntermediate
  <2>3. CASE chip = "axcl"
    <3>1. CreateInCmm(MidName, d, Next1)
      BY <1>1, <2>3 DEF MakeIntermediate, Dst
    <3> QED
      BY <2>3, <3>1 DEF CreateInCmm, Settle, MakeIntermediate
  <2> QED
    BY <2>1, <2>2, <2>3 DEF ChipKnown
<1>3. SameCall /\ call'.todo = Tail(call.todo) /\ MidName' = MidName
  BY <1>2 DEF SameCall, Next1, MemoryInv, CallTyped, IsCall, CallFields, MidName
<1>4. DOMAIN images = ImageNames /\ Places
  BY WhichPlaces DEF MemoryInv, ImagesTyped
<1> DEFINE e == NormalizeDescriptor(d)
<1>5. e.format = Src.format /\ d.format = Src.format /\ (chip = "axcl" => SizedAs(e, Src))
      /\ (chip # "axcl" => SizedAs(e, Dst) /\ SizedAs(d, Dst))
  BY IntermediateIs
<1>6. chip = "ax620e" /\ IsValidDescriptor(d) => Src.format = "kNv12"
  BY PackedRefused
<1> HIDE DEF d, e
<1>7. CASE chip = "ax650" /\ Reusable(images[MidName], d) /\ images' = images
  <2>1. MidFits
    BY <1>5, <1>7 DEF MidFits, Mid, Reusable
  <2>2. Mid' = Mid /\ Src' = Src /\ Dst' = Dst
    BY <1>3, <1>7 DEF Mid, Src, Dst, SameCall
  <2> QED
    BY <1>2, <1>3, <1>7, <2>1, <2>2 DEF MidFits
<1>8. CASE IsValidDescriptor(d) /\ \E pool, lifetime : images' = made(pool, lifetime)
  <2>1. PICK pool, lifetime : images' = made(pool, lifetime)
    BY <1>8
  <2>2. /\ images'[MidName].desc = e /\ images'[MidName].device = TRUE /\ images'[MidName] # NoImage
        /\ images'[call.from] = images[call.from] /\ images'[call.to] = images[call.to]
    BY <1>4, <2>1, MadeIs DEF Places, e
  <2>3. Mid' = e /\ Src' = Src /\ Dst' = Dst
    BY <1>3, <2>2 DEF Mid, Src, Dst, SameCall
  <2>4. MidFits'
    BY <1>2, <1>3, <1>5, <1>6, <1>8, <2>2, <2>3 DEF MidFits
  <2> QED
    BY <1>3, <2>2, <2>4
<1> QED
  BY <1>2, <1>7, <1>8

LEMMA MakeKeeps ==
  ASSUME MemoryInv, ChipKnown, FromReady, ToReady, RunReady, MakeIntermediate,
         op.from = call.from, op.to = MidName
  PROVE  /\ FromReady' /\ ToReady' /\ RunReady' /\ MidFits'
         /\ SameCall /\ call'.todo = Tail(call.todo)
         /\ MidName' = MidName /\ Src' = Src /\ Dst' = Dst
         /\ images'[call.from].desc = Src /\ images'[call.to].desc = Dst
         /\ images'[MidName].desc = Mid'
<1>1. /\ SameCall /\ call'.todo = Tail(call.todo) /\ MidFits'
      /\ images'[call.from] = images[call.from] /\ images'[call.to] = images[call.to]
  BY MakeEffect
<1>2. \A n \in {call.from, call.to} : Kept(n)
  BY <1>1 DEF Kept, FromReady, ToReady
<1>3. FromReady' /\ ToReady' /\ RunReady' /\ MidName' = MidName /\ Src' = Src /\ Dst' = Dst
  BY <1>1, <1>2, ReadyStays
<1> QED
  BY <1>1, <1>3 DEF Mid, Src, Dst

LEMMA MakeIntermediateNext ==
  ASSUME MemoryInv, ChipKnown, FromReady, ToReady, RunReady, Left(call.todo), MakeIntermediate
  PROVE  FromReady' /\ ToReady' /\ RunReady' /\ Left(call.todo)'
<1>1. call.todo # <<>> /\ op.do = "make"
  BY DEF MakeIntermediate
<1>2. ~Staging(call.todo)
  <2> SUFFICES ASSUME Staging(call.todo) PROVE op.do # "make"
    BY <1>1
  <2>1. \E o, l, m : /\ call.todo = <<o, l>> \/ call.todo = <<o, l, m>>
                     /\ o.do \in {"resize", "fill", "clear", "copy"}
    BY DEF Staging, Scales, Paints, Does
  <2> QED
    BY <2>1, OneOfMore DEF op
<1>3. \A x : ~Filling(call.todo, x)
  <2> SUFFICES ASSUME NEW x, Filling(call.todo, x) PROVE op.do # "make"
    BY <1>1
  <2>1. \E o, l : /\ call.todo = <<o>> \/ call.todo = <<o, l>>
                  /\ o.do \in {"resize", "fill", "clear", "csc", "copy"}
    BY DEF Filling, Straight, Scales, Paints, Does
  <2> QED
    BY <2>1, OneOf, OneOfMore DEF op
<1>4. Making(call.todo)
  BY <1>1, <1>2, <1>3 DEF Left
<1>5. PICK mid : mid = MidName
  OBVIOUS
<1>6. CASE /\ chip # "axcl" /\ call.request.keep = FALSE
           /\ \E k, o, l : /\ call.todo = <<k, o, l>>
                           /\ Does(k, "make", call.from, mid)
                           /\ Does(o, "resize", call.from, mid) /\ Does(l, "csc", mid, call.to)
  <2>1. PICK k, o, l : /\ call.todo = <<k, o, l>>
                       /\ Does(k, "make", call.from, mid)
                       /\ Does(o, "resize", call.from, mid) /\ Does(l, "csc", mid, call.to)
    BY <1>6
  <2>2. Tail(call.todo) = <<o, l>> /\ op.from = call.from /\ op.to = MidName
    BY <1>5, <2>1, OneOfMore DEF op, Does
  <2>3. /\ FromReady' /\ ToReady' /\ RunReady' /\ MidFits' /\ SameCall /\ call'.todo = <<o, l>>
        /\ MidName' = mid /\ Src' = Src /\ Dst' = Dst
        /\ images'[call.from].desc = Src /\ images'[call.to].desc = Dst /\ images'[mid].desc = Mid'
    BY <1>5, <2>2, MakeKeeps
  <2>4. Scales(o, call.from, mid)'
    BY <1>6, <2>1, <2>3 DEF Scales, Does, SameCall, MidFits
  <2>5. Covers(o, call.from, mid)'
    BY <1>6, <2>3 DEF Covers, SameCall
  <2>6. Straight(l, mid)'
    BY <1>6, <2>1, <2>3 DEF Straight, Does, SameCall, MidFits
  <2>7. Staging(<<o, l>>)'
    BY <1>6, <2>3, <2>4, <2>5, <2>6 DEF Staging, SameCall
  <2> QED
    BY <2>3, <2>7 DEF Left
<1>7. CASE /\ chip # "axcl"
           /\ \E k, p, o, l : /\ call.todo = <<k, p, o, l>>
                              /\ Does(k, "make", call.from, mid) /\ Paints(p, mid)
                              /\ Does(o, "resize", call.from, mid) /\ Does(l, "csc", mid, call.to)
  <2>1. PICK k, p, o, l : /\ call.todo = <<k, p, o, l>>
                          /\ Does(k, "make", call.from, mid) /\ Paints(p, mid)
                          /\ Does(o, "resize", call.from, mid) /\ Does(l, "csc", mid, call.to)
    BY <1>7
  <2>2. Tail(call.todo) = <<p, o, l>> /\ op.from = call.from /\ op.to = MidName
    BY <1>5, <2>1, OneOfFour DEF op, Does
  <2>3. /\ FromReady' /\ ToReady' /\ RunReady' /\ MidFits' /\ SameCall /\ call'.todo = <<p, o, l>>
        /\ MidName' = mid /\ Src' = Src /\ Dst' = Dst
        /\ images'[call.from].desc = Src /\ images'[call.to].desc = Dst /\ images'[mid].desc = Mid'
    BY <1>5, <2>2, MakeKeeps
  <2>4. Scales(o, call.from, mid)'
    BY <1>7, <2>1, <2>3 DEF Scales, Does, SameCall, MidFits
  <2>5. Paints(p, mid)'
    BY <2>1 DEF Paints
  <2>6. Straight(l, mid)'
    BY <1>7, <2>1, <2>3 DEF Straight, Does, SameCall, MidFits
  <2>7. Staging(<<p, o, l>>)'
    BY <1>7, <2>3, <2>4, <2>5, <2>6 DEF Staging, SameCall
  <2> QED
    BY <2>3, <2>7 DEF Left
<1>8. CASE /\ chip = "axcl" /\ call.request.enable_crop = FALSE /\ SizedAs(Src, Dst)
           /\ \E k, q, l : /\ call.todo = <<k, q, l>>
                           /\ Does(k, "make", call.from, mid)
                           /\ Does(q, "copy", call.from, mid) /\ Does(l, "csc", mid, call.to)
  <2>1. PICK k, q, l : /\ call.todo = <<k, q, l>>
                       /\ Does(k, "make", call.from, mid)
                       /\ Does(q, "copy", call.from, mid) /\ Does(l, "csc", mid, call.to)
    BY <1>8
  <2>2. Tail(call.todo) = <<q, l>> /\ op.from = call.from /\ op.to = MidName
    BY <1>5, <2>1, OneOfMore DEF op, Does
  <2>3. /\ FromReady' /\ ToReady' /\ RunReady' /\ MidFits' /\ SameCall /\ call'.todo = <<q, l>>
        /\ MidName' = mid /\ Src' = Src /\ Dst' = Dst
        /\ images'[call.from].desc = Src /\ images'[call.to].desc = Dst /\ images'[mid].desc = Mid'
    BY <1>5, <2>2, MakeKeeps
  <2>4. Does(q, "copy", call.from, mid)'
    BY <2>1, <2>3 DEF Does, SameCall
  <2>5. Straight(l, mid)'
    BY <1>8, <2>1, <2>3 DEF Straight, Does, SameCall, MidFits, SizedAs
  <2>6. Staging(<<q, l>>)'
    BY <1>8, <2>3, <2>4, <2>5 DEF Staging, SameCall
  <2> QED
    BY <2>3, <2>6 DEF Left
<1>9. CASE /\ chip = "axcl"
           /\ \E k, q, p, o : /\ call.todo = <<k, q, p, o>>
                              /\ Does(k, "make", call.from, mid)
                              /\ Does(q, "copy", call.from, mid)
                              /\ Paints(p, call.to) /\ Does(o, "resize", mid, call.to)
  <2>1. PICK k, q, p, o : /\ call.todo = <<k, q, p, o>>
                          /\ Does(k, "make", call.from, mid)
                          /\ Does(q, "copy", call.from, mid)
                          /\ Paints(p, call.to) /\ Does(o, "resize", mid, call.to)
    BY <1>9
  <2>2. Tail(call.todo) = <<q, p, o>> /\ op.from = call.from /\ op.to = MidName
    BY <1>5, <2>1, OneOfFour DEF op, Does
  <2>3. /\ FromReady' /\ ToReady' /\ RunReady' /\ MidFits' /\ SameCall /\ call'.todo = <<q, p, o>>
        /\ MidName' = mid /\ Src' = Src /\ Dst' = Dst
        /\ images'[call.from].desc = Src /\ images'[call.to].desc = Dst /\ images'[mid].desc = Mid'
    BY <1>5, <2>2, MakeKeeps
  <2>4. Does(q, "copy", call.from, mid)' /\ Paints(p, call.to)'
    BY <2>1, <2>3 DEF Does, Paints, SameCall
  <2>5. Scales(o, mid, call.to)'
    BY <1>9, <2>1, <2>3 DEF Scales, Does, SameCall, MidFits
  <2>6. Staging(<<q, p, o>>)'
    BY <1>9, <2>3, <2>4, <2>5 DEF Staging, SameCall
  <2> QED
    BY <2>3, <2>6 DEF Left
<1> QED
  BY <1>4, <1>5, <1>6, <1>7, <1>8, <1>9 DEF Making

-----------------------------------------------------------------------------
(* The tests of Process.                                                   *)

LEMMA LeftStays ==
  ASSUME SameCall, images' = images, NEW t, Left(t) PROVE Left(t)'
<1>1. MidName' = MidName /\ Src' = Src /\ Dst' = Dst /\ Mid' = Mid
  BY DEF SameCall, Src, Dst, Mid, MidName
<1>2. /\ chip' = chip /\ calls' = calls /\ call'.from = call.from /\ call'.to = call.to
      /\ call'.request = call.request
  BY DEF SameCall
<1>3. \A o, x : Straight(o, x) => Straight(o, x)'
  BY <1>1, <1>2 DEF Straight
<1>4. \A o, x, y : Scales(o, x, y) => Scales(o, x, y)'
  BY <1>1, <1>2 DEF Scales, Does
<1>5. \A o, x, y : Covers(o, x, y) => Covers(o, x, y)'
  BY <1>1, <1>2 DEF Covers
<1>6. \A x : /\ ShowsPicture(x) => ShowsPicture(x)'
             /\ ShowsAsked(x) => ShowsAsked(x)'
             /\ SizedAs(images[x].desc, Src) => SizedAs(images[x].desc, Src)'
  BY <1>1, <1>2 DEF ShowsPicture, ShowsAsked
<1>7. MidFits => MidFits'
  BY <1>1, <1>2 DEF MidFits
<1>8. Making(t) => Making(t)'
  BY <1>1, <1>2 DEF Making, Does, Paints
<1>9. PICK from, to, mid : from = call.from /\ to = call.to /\ mid = MidName
  OBVIOUS
<1>10. Staging(t) => Staging(t)'
  <2> SUFFICES ASSUME Staging(t) PROVE Staging(t)'
    OBVIOUS
  <2>1. MidFits' /\ chip' = chip /\ call'.from = from /\ call'.to = to /\ MidName' = mid
    BY <1>1, <1>2, <1>7, <1>9 DEF Staging
  <2>2. CASE /\ chip # "axcl"
             /\ \E o, l : t = <<o, l>> /\ Scales(o, from, mid) /\ Covers(o, from, mid) /\ Straight(l, mid)
    BY <1>3, <1>4, <1>5, <2>1, <2>2 DEF Staging
  <2>3. CASE /\ chip # "axcl"
             /\ \E p, o, l : t = <<p, o, l>> /\ Paints(p, mid) /\ Scales(o, from, mid) /\ Straight(l, mid)
    BY <1>3, <1>4, <2>1, <2>3 DEF Staging, Paints
  <2>4. CASE /\ chip = "axcl" /\ call.request.enable_crop = FALSE
             /\ \E q, l : t = <<q, l>> /\ Does(q, "copy", from, mid) /\ Straight(l, mid)
    BY <1>2, <1>3, <2>1, <2>4 DEF Staging, Does
  <2>5. CASE /\ chip = "axcl"
             /\ \E q, p, o : /\ t = <<q, p, o>>
                             /\ Does(q, "copy", from, mid) /\ Paints(p, to) /\ Scales(o, mid, to)
    BY <1>4, <2>1, <2>5 DEF Staging, Does, Paints
  <2> QED
    BY <1>9, <2>2, <2>3, <2>4, <2>5 DEF Staging
<1>11. \A x : Filling(t, x) => Filling(t, x)'
  <2> SUFFICES ASSUME NEW x, Filling(t, x) PROVE Filling(t, x)'
    OBVIOUS
  <2>1. call'.to = to
    BY <1>2, <1>9
  <2>2. CASE ShowsAsked(x) /\ \E o : t = <<o>> /\ Straight(o, x)
    BY <1>3, <1>6, <2>1, <2>2 DEF Filling
  <2>3. CASE /\ ShowsPicture(x) /\ SizedAs(images[x].desc, Src)
             /\ \E o : t = <<o>> /\ Scales(o, x, to) /\ Covers(o, x, to)
    BY <1>4, <1>5, <1>6, <2>1, <2>3 DEF Filling
  <2>4. CASE /\ ShowsPicture(x) /\ SizedAs(images[x].desc, Src)
             /\ \E p, o : t = <<p, o>> /\ Paints(p, to) /\ Scales(o, x, to)
    BY <1>4, <1>6, <2>1, <2>4 DEF Filling, Paints
  <2> QED
    BY <1>9, <2>2, <2>3, <2>4 DEF Filling
<1>12. ShowsAsked(to) => ShowsAsked(to)'
  BY <1>6
<1>13. (\E x \in {call.from, MidName} : Filling(t, x)) => (\E x \in {call.from, MidName} : Filling(t, x))'
  BY <1>1, <1>2, <1>11
<1> QED
  BY <1>2, <1>8, <1>9, <1>10, <1>12, <1>13 DEF Left

(* Asking another engine changes nothing of the rest of the plan.          *)
LEMMA RetryNext ==
  ASSUME MemoryInv, FromReady, ToReady, RunReady, Left(call.todo), Retry
  PROVE  FromReady' /\ ToReady' /\ RunReady' /\ Left(call.todo)'
<1>1. SameCall /\ call'.todo = call.todo /\ images' = images
  BY DEF Retry, SameCall, MemoryInv, CallTyped, IsCall, CallFields
<1>2. FromReady' /\ ToReady' /\ RunReady'
  BY <1>1, ReadyStays DEF Kept
<1>3. PICK t : t = call.todo
  OBVIOUS
<1>4. Left(t)'
  BY <1>1, <1>3, LeftStays
<1> QED
  BY <1>1, <1>2, <1>3, <1>4

LEMMA OutputSides ==
  ASSUME FromReady, ValidateCrop(Src, call.request), Resolvable(Output)
  PROVE  Output.width \in Nat \ {0} /\ Output.height \in Nat \ {0} /\ Broad(Output) /\ Narrow(Output)
<1> DEFINE r == call.request
           Size(asked, cropped, whole) ==
             IF asked # 0 THEN asked ELSE IF r.enable_crop /\ cropped # 0 THEN cropped ELSE whole
<1>1. /\ Output.width = Size(r.output.width, r.crop.width, Src.width)
      /\ Output.height = Size(r.output.height, r.crop.height, Src.height)
  BY DEF Output, ResolveOutput, Src
<1>2. /\ r.output.width \in Nat /\ r.output.height \in Nat /\ r.crop.width \in Nat /\ r.crop.height \in Nat
      /\ Broad(r.output) /\ Narrow(r.output) /\ (r.enable_crop => Broad(r.crop))
  BY DEF FromReady, RequestFits, Request, Descriptor, Crop
<1>3. Src.width \in Nat \ {0} /\ Src.height \in Nat \ {0} /\ Broad(Src) /\ Narrow(Src)
  BY DEF FromReady, PictureFits, Descriptor
<1>4. Output.width \in Nat \ {0} /\ Output.height \in Nat \ {0} /\ Broad(Output)
  BY <1>1, <1>2, <1>3 DEF Resolvable, Broad
<1>5. r.enable_crop => r.crop.width <= Src.width /\ r.crop.height <= Src.height
  <2> SUFFICES ASSUME r.enable_crop PROVE r.crop.width <= Src.width /\ r.crop.height <= Src.height
    OBVIOUS
  <2>1. Region(Src, r) \in Crop /\ Within(Region(Src, r), Src) /\ Region(Src, r) = r.crop
    BY RegionInside DEF SizedAs, Region
  <2> QED
    BY <1>3, <2>1 DEF Crop, Within
<1>6. Narrow(Output)
  <2>1. MaxShort \in Int
    BY ShortSizeAssumption DEF MaxShort
  <2> QED
    BY <1>1, <1>2, <1>3, <1>5, <2>1 DEF Narrow
<1> QED
  BY <1>4, <1>6

LEMMA CheckRequestNext ==
  ASSUME MemoryInv, ChipKnown, call.phase = "check", FromReady, ToReady, CheckRequest
  PROVE  \/ call' = Idle
         \/ call'.phase = "run" /\ FromReady' /\ ToReady' /\ RunReady' /\ Left(call.todo)'
<1>1. \/ call' = Idle
      \/ /\ ValidateCrop(Src, call.request) /\ Resolvable(Output) /\ FitsOutput(Dst, Output)
         /\ call' = [call EXCEPT !.phase = "run", !.todo = Plan(Src, Dst, call)]
         /\ UNCHANGED <<chip, images, pools, entries, stream, calls>>
  BY DEF CheckRequest, Fails, Leave, Src, Dst
<1>2. ASSUME ValidateCrop(Src, call.request), Resolvable(Output), FitsOutput(Dst, Output),
             call' = [call EXCEPT !.phase = "run", !.todo = Plan(Src, Dst, call)],
             UNCHANGED <<chip, images, pools, entries, stream, calls>>
      PROVE  call'.phase = "run" /\ FromReady' /\ ToReady' /\ RunReady' /\ Left(call.todo)'
  <2>1. RunReady
    BY <1>2, OutputSides DEF RunReady, FitsOutput, Broad, Narrow
  <2> DEFINE plan == Plan(Src, Dst, call)
  <2>2. Left(plan)
    BY <2>1, PlanLeft
  <2> HIDE DEF plan
  <2>3. SameCall /\ call'.todo = plan /\ call'.phase = "run" /\ images' = images
    BY <1>2 DEF SameCall, MemoryInv, CallTyped, IsCall, CallFields, plan
  <2>4. Left(call.todo)'
    <3>1. PICK t : t = plan
      OBVIOUS
    <3>2. Left(t)'
      BY <2>2, <2>3, <3>1, LeftStays
    <3> QED
      BY <2>3, <3>1, <3>2
  <2>5. FromReady' /\ ToReady' /\ RunReady'
    BY <2>1, <2>3, ReadyStays DEF Kept
  <2> QED
    BY <2>3, <2>4, <2>5
<1> QED
  BY <1>1, <1>2

-----------------------------------------------------------------------------
(* Calls begin with what Process needs, and leave it alone until then.     *)

LEMMA CallOver ==
  ASSUME call'.phase \notin {"parse", "decode", "create", "check", "run"} PROVE CallInv'
BY DEF CallInv

LEMMA SourceFits ==
  ASSUME SidesFit, NEW s \in Sources
  PROVE  /\ SourceImage(s) # NoImage
         /\ PictureFits(SourceImage(s).desc)
         /\ SourceImage(s).device \in BOOLEAN
         /\ SourceImage(s).shows = Shows(calls + 1, Whole(SourceImage(s).desc))
<1> DEFINE image == SourceImage(s)
           e == NormalizeDescriptor(s.desc)
<1>1. s.desc \in Descriptor /\ IsValidDescriptor(s.desc) /\ s.device \in BOOLEAN
  BY ImagesAssumption
<1>2. s.desc.width # 0 /\ s.desc.height # 0 /\ s.desc.format # "kUnknown"
      /\ Broad(s.desc) /\ Narrow(s.desc)
  BY <1>1 DEF SidesFit, IsValidDescriptor
<1>3. e.format = s.desc.format /\ e.width = s.desc.width /\ e.height = s.desc.height
  BY <1>1, NormalizedKeeps DEF Descriptor
<1>4. e \in Descriptor
  <2>1. MinStrideForFormat(s.desc.format, s.desc.width) \in Nat
    BY <1>1 DEF MinStrideForFormat, Descriptor
  <2> QED
    BY <1>1, <2>1 DEF NormalizeDescriptor, Descriptor
<1>5. Whole(e) = Whole(s.desc)
  BY <1>3 DEF Whole
<1>6. /\ DOMAIN image = ImageFields /\ image.desc = e /\ image.device = s.device
      /\ image.shows = Shows(calls + 1, Whole(s.desc))
  BY DEF SourceImage, ImageFields
<1> HIDE DEF image, e
<1>7. image # NoImage
  BY <1>6 DEF NoImage, ImageFields
<1>8. PictureFits(image.desc)
  BY <1>2, <1>3, <1>4, <1>6 DEF PictureFits, Broad, Narrow
<1> QED
  BY <1>1, <1>5, <1>6, <1>7, <1>8 DEF image

LEMMA AskedFits == ASSUME CropsFit, SidesFit, NEW r \in Requests PROVE RequestFits(r)
BY ImagesAssumption DEF CropsFit, SidesFit, RequestFits

(* A call of the application: its source, and a request of its own.        *)
LEMMA Begins ==
  ASSUME MemoryInv, SidesFit, NEW s \in Sources, images'["source"] = SourceImage(s), calls' = calls + 1,
         call'.from = "source", RequestFits(call'.request)
  PROVE  FromReady'
<1>1. /\ SourceImage(s) # NoImage /\ PictureFits(SourceImage(s).desc) /\ SourceImage(s).device \in BOOLEAN
      /\ SourceImage(s).shows = Shows(calls + 1, Whole(SourceImage(s).desc))
  BY SourceFits
<1> QED
  BY <1>1 DEF FromReady, Src

LEMMA ProcessCalls ==
  ASSUME MemoryInv, CropsFit, SidesFit, NEW s \in Sources, NEW r \in Requests,
         ProcessValue(s, r) \/ \E d \in Destinations : ProcessInto(s, r, d)
  PROVE  CallInv'
<1>1. DOMAIN images = ImageNames /\ RequestFits(r)
  BY AskedFits DEF MemoryInv, ImagesTyped
<1>2. CASE ProcessValue(s, r)
  <2>1. images'["source"] = SourceImage(s) /\ calls' = calls + 1
    BY <1>1, <1>2 DEF ProcessValue, ImageNames
  <2>2. call'.phase = "create" /\ call'.from = "source" /\ call'.to = "output" /\ call'.request = r
    BY <1>2 DEF ProcessValue, Idle
  <2> QED
    BY <1>1, <2>1, <2>2, Begins DEF CallInv
<1>3. CASE \E d \in Destinations : ProcessInto(s, r, d)
  <2>1. PICK d \in Destinations : ProcessInto(s, r, d)
    BY <1>3
  <2>2. images' = [images EXCEPT !["source"] = SourceImage(s), !["destination"] = MakeImage(d, 0, 0)]
    BY <2>1 DEF ProcessInto
  <2>3. images'["source"] = SourceImage(s) /\ images'["destination"] = MakeImage(d, 0, 0)
    BY <1>1, <2>2 DEF ImageNames
  <2>4. /\ call'.phase = "check" /\ call'.from = "source" /\ call'.to = "destination" /\ call'.request = r
        /\ calls' = calls + 1
    BY <2>1 DEF ProcessInto, Idle
  <2>5. ToReady'
    BY <2>3, <2>4, MadeIs DEF ToReady
  <2> QED
    BY <1>1, <2>3, <2>4, <2>5, Begins DEF CallInv
<1> QED
  BY <1>2, <1>3

LEMMA JpegStrideIs == \A n \in Nat : JpegStride(n) \in Nat
BY DEF JpegStride, AlignUp

LEMMA EncodeCalls ==
  ASSUME MemoryInv, SidesFit, NEW s \in Sources, EncodeJpegBytes(s) PROVE CallInv'
<1> DEFINE d == MakeNativeJpegDescriptor(s.desc.width, s.desc.height)
           r == [output |-> d, enable_crop |-> FALSE, crop |-> Region0, keep |-> FALSE, align |-> "kCenter"]
<1>1. \/ call' = [Idle EXCEPT !.kind = "encode", !.phase = "flush"]
      \/ /\ images' = [images EXCEPT !["source"] = SourceImage(s), !["prepared"] = MakeImage(d, 0, 0)]
         /\ calls' = calls + 1
         /\ call' = [Idle EXCEPT !.kind = "encode", !.phase = "check", !.processor = "local",
                                 !.to = "prepared", !.request = r]
  BY DEF EncodeJpegBytes
<1>2. s.desc \in Descriptor
  BY ImagesAssumption
<1>3. RequestFits(r)
  <2>1. d \in Descriptor /\ d.width = s.desc.width /\ d.height = s.desc.height
    <3>1. s.desc.width \in Nat /\ s.desc.height \in Nat
      BY <1>2 DEF Descriptor
    <3>2. JpegStride(s.desc.width) \in Nat
      BY <3>1, JpegStrideIs
    <3> QED
      BY <3>1, <3>2 DEF MakeNativeJpegDescriptor, Descriptor, Formats
  <2> HIDE DEF d
  <2>2. r \in Request
    BY <2>1 DEF Request, Crop, Region0
  <2> QED
    BY <2>1, <2>2 DEF RequestFits, SidesFit, Broad, Narrow
<1> HIDE DEF d, r
<1>4. CASE call' = [Idle EXCEPT !.kind = "encode", !.phase = "flush"]
  BY <1>4, CallOver DEF Idle
<1>5. CASE /\ images' = [images EXCEPT !["source"] = SourceImage(s), !["prepared"] = MakeImage(d, 0, 0)]
           /\ calls' = calls + 1
           /\ call' = [Idle EXCEPT !.kind = "encode", !.phase = "check", !.processor = "local",
                                   !.to = "prepared", !.request = r]
  <2>1. call'.phase = "check" /\ call'.from = "source" /\ call'.to = "prepared" /\ call'.request = r
    BY <1>5 DEF Idle
  <2>2. images'["source"] = SourceImage(s) /\ images'["prepared"] = MakeImage(d, 0, 0)
    BY <1>5 DEF MemoryInv, ImagesTyped, ImageNames
  <2>3. ToReady'
    BY <2>1, <2>2, MadeIs DEF ToReady
  <2> QED
    BY <1>3, <1>5, <2>1, <2>2, <2>3, Begins DEF CallInv
<1> QED
  BY <1>1, <1>4, <1>5

LEMMA DecodeCalls ==
  ASSUME CropsFit, SidesFit, NEW r \in Requests, DecodeJpegBytes(r) PROVE CallInv'
<1>1. RequestFits(r)
  BY AskedFits
<1>2. call'.phase = "parse" /\ call'.from = "native" /\ call'.to = "output" /\ call'.request = r
  BY DEF DecodeJpegBytes, Idle
<1> QED
  BY <1>1, <1>2 DEF CallInv

(* The JPEG decoder's NV12 has even sides.                                 *)
LEMMA ParseCalls ==
  ASSUME MemoryInv, CallInv, SidesFit, NEW size \in JpegSizes, ParseJpegDimensions(size) PROVE CallInv'
<1> DEFINE d == MakeNativeJpegDescriptor(size.width, size.height)
           e == NormalizeDescriptor(d)
<1>1. /\ images' = [images EXCEPT !["native"] = MakeImage(d, 0, 0)]
      /\ call' = [call EXCEPT !.phase = "decode"] /\ IsValidDescriptor(d) /\ call.phase = "parse"
  BY DEF ParseJpegDimensions, CreateInCmm, Settle
<1>2. /\ d \in Descriptor /\ d.format = "kNv12" /\ d.width \in Nat /\ d.height \in Nat
      /\ {"format", "width", "height"} \subseteq DOMAIN d /\ Narrow(d)
  <2>1. size.width \in Nat /\ size.height \in Nat
    BY ImagesAssumption
  <2>2. JpegStride(size.width) \in Nat
    BY <2>1, JpegStrideIs
  <2> QED
    BY <2>1, <2>2 DEF MakeNativeJpegDescriptor, Descriptor, Formats, SidesFit, Narrow
<1> HIDE DEF d
<1>3. d.width \notin {0, 1} /\ d.height \notin {0, 1}
  BY <1>1, <1>2 DEF IsValidDescriptor, Even
<1>4. PictureFits(e)
  <2>1. MinStrideForFormat(d.format, d.width) \in Nat
    BY <1>2 DEF MinStrideForFormat
  <2>2. e \in Descriptor
    BY <1>2, <2>1 DEF NormalizeDescriptor, Descriptor
  <2>3. e.format = d.format /\ e.width = d.width /\ e.height = d.height
    BY <1>2, NormalizedKeeps
  <2> HIDE DEF e
  <2> QED
    BY <1>2, <1>3, <2>2, <2>3 DEF PictureFits, Broad, Narrow
<1> HIDE DEF e
<1>5. images'["native"] # NoImage /\ images'["native"].desc = e /\ images'["native"].device = TRUE
  BY <1>1, MadeIs DEF MemoryInv, ImagesTyped, ImageNames, e
<1>6. NativeReady'
  BY <1>4, <1>5 DEF NativeReady
<1>7. /\ call'.phase = "decode" /\ call'.from = call.from /\ call'.to = call.to
      /\ call'.request = call.request
  BY <1>1 DEF MemoryInv, CallTyped, IsCall, CallFields
<1> QED
  BY <1>1, <1>6, <1>7 DEF CallInv

LEMMA JpegDecodeCalls == ASSUME MemoryInv, CallInv, JpegDecodeOneFrame PROVE CallInv'
<1> DEFINE result == Shows(calls, Whole(images["native"].desc))
           decoded == [images EXCEPT !["native"].shows = result]
<1>1. call.phase = "decode" /\ calls' = calls
  BY DEF JpegDecodeOneFrame
<1>2. \/ call' = Idle
      \/ images' = decoded /\ call' = [call EXCEPT !.phase = "create"]
  BY DEF JpegDecodeOneFrame, Leave
<1>3. CASE call' = Idle
  BY <1>3, CallOver DEF Idle
<1>4. CASE images' = decoded /\ call' = [call EXCEPT !.phase = "create"]
  <2>1. NativeReady /\ call.from = "native" /\ call.to = "output" /\ RequestFits(call.request)
    BY <1>1 DEF CallInv
  <2>2. DOMAIN images = ImageNames /\ DOMAIN images["native"] = ImageFields
    BY <2>1 DEF MemoryInv, ImagesTyped, ImageNames, NativeReady
  <2>3. images'["native"] = [images["native"] EXCEPT !.shows = result]
    BY <1>4, <2>2 DEF ImageNames
  <2> HIDE DEF result
  <2>4. /\ images'["native"].desc = images["native"].desc /\ images'["native"].device = images["native"].device
        /\ images'["native"].shows = result /\ DOMAIN images'["native"] = ImageFields
    BY <2>2, <2>3 DEF ImageFields
  <2>5. images'["native"] # NoImage
    BY <2>4 DEF NoImage, ImageFields
  <2>6. /\ call'.phase = "create" /\ call'.from = "native" /\ call'.to = "output"
        /\ call'.request = call.request
    BY <1>4, <2>1 DEF MemoryInv, CallTyped, IsCall, CallFields
  <2>7. FromReady'
    BY <1>1, <2>1, <2>4, <2>5, <2>6 DEF FromReady, Src, NativeReady, result
  <2> QED
    BY <2>6, <2>7 DEF CallInv
<1> QED
  BY <1>2, <1>3, <1>4

LEMMA CreateOutputCalls == ASSUME MemoryInv, ChipKnown, CallInv, CreateOutput PROVE CallInv'
<1>1. FromReady /\ call.to = "output"
  BY DEF CallInv, CreateOutput
<1>2. /\ \E pool, lifetime : images' = [images EXCEPT !["output"] = MakeImage(Output, pool, lifetime)]
      /\ call' = [call EXCEPT !.phase = "check"] /\ UNCHANGED <<chip, calls>>
  <2>1. CASE chip = "axcl"
    BY <2>1 DEF CreateOutput, CreateInCmm, Settle
  <2>2. CASE chip # "axcl"
    BY <2>2 DEF CreateOutput, CreateInPool, Settle
  <2> QED
    BY <2>1, <2>2
<1>3. PICK pool, lifetime : images' = [images EXCEPT !["output"] = MakeImage(Output, pool, lifetime)]
  BY <1>2
<1>4. /\ call'.phase = "check" /\ call'.from = call.from /\ call'.to = "output"
      /\ call'.request = call.request
  BY <1>1, <1>2 DEF MemoryInv, CallTyped, IsCall, CallFields
<1>5. images'[call.from] = images[call.from] /\ images'["output"] = MakeImage(Output, pool, lifetime)
  BY <1>1, <1>3 DEF MemoryInv, ImagesTyped, ImageNames, FromReady
<1>6. FromReady'
  BY <1>1, <1>2, <1>4, <1>5 DEF FromReady, Src
<1>7. ToReady'
  BY <1>4, <1>5, MadeIs DEF ToReady
<1> QED
  BY <1>4, <1>6, <1>7 DEF CallInv

LEMMA CallStays == ASSUME CallInv, UNCHANGED imagesVars PROVE CallInv'
<1>1. UNCHANGED <<chip, images, call, calls>>
  BY DEF imagesVars
<1>2. SameCall /\ images' = images /\ Src' = Src /\ Dst' = Dst
  BY <1>1 DEF SameCall, Src, Dst
<1>3. FromReady => FromReady'
  BY <1>1, <1>2 DEF FromReady
<1>4. ToReady => ToReady'
  BY <1>1 DEF ToReady
<1>5. RunReady => RunReady'
  BY <1>1, <1>2 DEF RunReady
<1>6. NativeReady => NativeReady'
  BY <1>1 DEF NativeReady
<1>7. Left(call.todo) => Left(call.todo)'
  <2>1. PICK t : t = call.todo
    OBVIOUS
  <2>2. Left(t) => Left(t)'
    BY <1>2, LeftStays
  <2> QED
    BY <1>1, <2>1, <2>2
<1> QED
  BY <1>1, <1>3, <1>4, <1>5, <1>6, <1>7 DEF CallInv

LEMMA CallNext ==
  ASSUME CropsFit, SidesFit, MemoryInv, ChipKnown, CallInv, [ImagesNext]_imagesVars PROVE CallInv'
<1>1. CASE UNCHANGED imagesVars
  BY <1>1, CallStays
<1>2. CASE \E s \in Sources, r \in Requests :
             ProcessValue(s, r) \/ \E d \in Destinations : ProcessInto(s, r, d)
  BY <1>2, ProcessCalls
<1>3. CASE (\E r \in Requests : DecodeJpegBytes(r)) \/ (\E s \in Sources : EncodeJpegBytes(s))
  BY <1>3, DecodeCalls, EncodeCalls
<1>4. CASE CreateOutput \/ (\E size \in JpegSizes : ParseJpegDimensions(size)) \/ JpegDecodeOneFrame
  BY <1>4, CreateOutputCalls, ParseCalls, JpegDecodeCalls
<1>5. CASE CheckRequest
  <2>1. call.phase = "check"
    BY <1>5 DEF CheckRequest
  <2>2. FromReady /\ ToReady
    BY <2>1 DEF CallInv
  <2>3. \/ call' = Idle
        \/ call'.phase = "run" /\ FromReady' /\ ToReady' /\ RunReady' /\ Left(call.todo)'
    BY <1>5, <2>1, <2>2, CheckRequestNext
  <2> QED
    BY <2>3 DEF CallInv, Idle
<1>6. CASE MakeIntermediate \/ Operate \/ Retry
  <2>1. call.phase = "run" /\ call'.phase = "run"
    BY <1>6 DEF MakeIntermediate, Operate, Retry, CreateInCmm, CreateInPool, Next1,
           MemoryInv, CallTyped, IsCall,
                CallFields, ChipKnown
  <2>2. FromReady /\ ToReady /\ RunReady /\ Left(call.todo)
    BY <2>1 DEF CallInv
  <2>3. FromReady' /\ ToReady' /\ RunReady' /\ Left(call.todo)'
    BY <1>6, <2>2, MakeIntermediateNext, OperateNext, RetryNext
  <2> QED
    BY <2>1, <2>3 DEF CallInv
<1>7. CASE CreateOutputFails \/ MakeIntermediateFails \/ OperateFails \/ FlushInputFails \/ DecodeFails
            \/ JpegEncodeOneFrame
  <2>1. call' = Idle
    BY <1>7 DEF CreateOutputFails, MakeIntermediateFails, OperateFails, FlushInputFails, DecodeFails,
                JpegEncodeOneFrame, FailsFreeingStream, Fails, FailsWithPool, Leave
  <2> QED
    BY <2>1, CallOver DEF Idle
<1>8. CASE ProcessReturns
  <2>1. call' = Idle \/ call' = [Idle EXCEPT !.kind = "encode", !.phase = "flush", !.from = "prepared"]
    BY <1>8 DEF ProcessReturns, Leave
  <2>2. Idle.phase = "idle" /\ DOMAIN Idle = CallFields
    BY DEF Idle, CallFields
  <2>3. call'.phase = "idle" \/ call'.phase = "flush"
    BY <2>1, <2>2 DEF CallFields
  <2> QED
    BY <2>3, CallOver
<1>9. CASE FlushInput
  <2>1. call'.phase = "encode"
    BY <1>9 DEF FlushInput, MemoryInv, CallTyped, IsCall, CallFields
  <2> QED
    BY <2>1, CallOver
<1>10. CASE DropProcessor \/ DropResult
  <2>1. call' = Idle
    BY <1>10 DEF DropProcessor, DropResult
  <2> QED
    BY <2>1, CallOver DEF Idle
<1> QED
  BY <1>1, <1>2, <1>3, <1>4, <1>5, <1>6, <1>7, <1>8, <1>9, <1>10 DEF ImagesNext

-----------------------------------------------------------------------------
(* What the rest of a plan means.                                          *)

(* What EnginesFed asks of the operation at hand.                          *)
OpFed ==
  /\ Within(Read, From.desc) /\ Read.width > 0 /\ Read.height > 0
  /\ chip = "ax620e" /\ Engine = "VPP" => From.desc.format = "kNv12" \/ call.retried
  /\ op.do = "resize" =>
       /\ chip # "axcl" => From.desc.format = To.desc.format
       /\ Within(Placed, To.desc)
  /\ op.do # "resize" => From.desc.width = To.desc.width /\ From.desc.height = To.desc.height
  /\ op.do = "copy" => From.desc.format = To.desc.format
  /\ chip = "axcl" /\ op.do # "copy" => From.device /\ To.device

(* The first engine asked is the operation's own.                          *)
LEMMA EngineFed ==
  ASSUME chip = "ax620e" /\ op.engine = "VPP" => From.desc.format = "kNv12"
  PROVE  chip = "ax620e" /\ Engine = "VPP" => From.desc.format = "kNv12" \/ call.retried
BY DEF Engine

LEMMA ScaleFed ==
  ASSUME chip \in Chips, FromReady, ToReady, RunReady, NEW x, NEW y, Scales(op, x, y),
         SizedAs(images[x].desc, Src), SizedAs(images[y].desc, Dst),
         chip = "axcl" => images[y].device = TRUE
  PROVE  OpFed
<1>1. /\ op.do = "resize" /\ From = images[x] /\ To = images[y]
      /\ chip # "axcl" => From.desc.format = To.desc.format
      /\ chip = "ax620e" /\ op.engine = "VPP" => From.desc.format = "kNv12"
      /\ chip = "axcl" => From.device = TRUE /\ To.device = TRUE
  BY DEF Scales, Does, From, To
<1>2. /\ Read = AskedFor /\ Within(Read, From.desc)
      /\ Read.width \in Nat \ {0} /\ Read.height \in Nat \ {0}
  BY <1>1, ReadIs
<1>3. /\ To.desc.width \in Nat /\ To.desc.height \in Nat
      /\ To.desc.width <= MaxShort /\ To.desc.height <= MaxShort
      /\ chip = "ax620e" => To.desc.width >= 2 /\ To.desc.height >= 2
  BY <1>1 DEF SizedAs, RunReady, Broad, Narrow
<1>4. call.request.align \in {"kStart", "kCenter", "kEnd"}
  BY DEF FromReady, RequestFits, Request
<1>5. Within(Placed, To.desc)
  <2> DEFINE box == Letterbox(AskedFor, To.desc, call.request.align)
  <2>1. \/ Placed \in {Whole(To.desc), Region0}
        \/ chip = "ax620e" /\ Placed = Rect(box)
    BY DEF Placed
  <2>2. Within(Whole(To.desc), To.desc) /\ Within(Region0, To.desc)
    BY <1>3 DEF Whole, Region0, Within
  <2>3. chip = "ax620e" => box \in Crop /\ Within(box, To.desc)
    BY <1>2, <1>3, <1>4, LetterboxInside
  <2> HIDE DEF box
  <2>4. chip = "ax620e" => Rect(box) = box
    BY <1>3, <2>3, RegionIs
  <2> QED
    BY <2>1, <2>2, <2>3, <2>4
<1>6. chip = "ax620e" /\ Engine = "VPP" => From.desc.format = "kNv12" \/ call.retried
  BY <1>1, EngineFed
<1>7. Read.width > 0 /\ Read.height > 0
  BY <1>2
<1> QED
  BY <1>1, <1>2, <1>5, <1>6, <1>7 DEF OpFed

LEMMA StraightFed ==
  ASSUME FromReady, ToReady, RunReady, NEW x, Straight(op, x) PROVE OpFed
<1>1. /\ op.do \in {"csc", "copy"} /\ From = images[x] /\ To = images[call.to] /\ SizedAs(From.desc, Dst)
      /\ chip = "ax620e" /\ op.engine = "VPP" => From.desc.format = "kNv12"
  BY DEF Straight, From, To
<1>2. Within(Read, From.desc) /\ Read.width > 0 /\ Read.height > 0
  BY <1>1, ReadIs
<1>3. chip = "ax620e" /\ Engine = "VPP" => From.desc.format = "kNv12" \/ call.retried
  BY <1>1, EngineFed
<1> QED
  BY <1>1, <1>2, <1>3 DEF Straight, ToReady, OpFed, SizedAs, Dst

LEMMA StagedFed ==
  ASSUME FromReady, RunReady, MidFits, chip = "axcl", Does(op, "copy", call.from, MidName) PROVE OpFed
<1>1. op.do = "copy" /\ From = images[call.from] /\ SizedAs(From.desc, Src) /\ To = images[MidName]
  BY DEF Does, From, To, SizedAs, Src
<1>2. Within(Read, From.desc) /\ Read.width > 0 /\ Read.height > 0
  BY <1>1, ReadIs
<1> QED
  BY <1>1, <1>2 DEF MidFits, OpFed, SizedAs, Src, Mid

LEMMA LeftFed ==
  ASSUME chip \in Chips, FromReady, ToReady, RunReady, Left(call.todo), call.todo # <<>>,
         op.do \in {"resize", "csc", "copy"}
  PROVE  OpFed
<1>1. SizedAs(Src, Src) /\ SizedAs(Dst, Dst)
  BY DEF SizedAs
<1>2. ~Making(call.todo)
  BY MakingMakes DEF op
<1>3. CASE Staging(call.todo)
  <2>1. MidFits
    BY <1>3 DEF Staging
  <2>2. \/ chip # "axcl" /\ Scales(op, call.from, MidName)
        \/ \E y : Paints(op, y)
        \/ chip = "axcl" /\ Does(op, "copy", call.from, MidName)
    <3>1. \E o, l, m : /\ call.todo = <<o, l>> \/ call.todo = <<o, l, m>>
                       /\ \/ chip # "axcl" /\ Scales(o, call.from, MidName)
                          \/ Paints(o, MidName)
                          \/ chip = "axcl" /\ Does(o, "copy", call.from, MidName)
      BY <1>3 DEF Staging
    <3> QED
      BY <3>1, OneOfMore DEF op
  <2>3. CASE chip # "axcl" /\ Scales(op, call.from, MidName)
    BY <1>1, <2>1, <2>3, ScaleFed DEF MidFits, Mid, Src
  <2>4. CASE \E y : Paints(op, y)
    BY <2>4 DEF Paints
  <2>5. CASE chip = "axcl" /\ Does(op, "copy", call.from, MidName)
    BY <2>1, <2>5, StagedFed
  <2> QED
    BY <2>2, <2>3, <2>4, <2>5
<1>4. CASE \E x \in {call.from, MidName} : Filling(call.todo, x)
  <2>1. PICK x : Filling(call.todo, x)
    BY <1>4
  <2>2. \E o, l : /\ call.todo = <<o>> \/ call.todo = <<o, l>>
                  /\ \/ Straight(o, x)
                     \/ SizedAs(images[x].desc, Src) /\ Scales(o, x, call.to)
                     \/ Paints(o, call.to)
    BY <2>1 DEF Filling
  <2>3. \/ Straight(op, x)
        \/ SizedAs(images[x].desc, Src) /\ Scales(op, x, call.to)
        \/ Paints(op, call.to)
    BY <2>2, OneOf, OneOfMore DEF op
  <2>4. CASE Straight(op, x)
    BY <2>4, StraightFed
  <2>5. CASE SizedAs(images[x].desc, Src) /\ Scales(op, x, call.to)
    BY <1>1, <2>5, ScaleFed DEF ToReady, Dst
  <2>6. CASE Paints(op, call.to)
    BY <2>6 DEF Paints
  <2> QED
    BY <2>3, <2>4, <2>5, <2>6
<1> QED
  BY <1>2, <1>3, <1>4 DEF Left

LEMMA LeftDelivers ==
  ASSUME Left(call.todo), call.todo = <<>> PROVE ShowsAsked(call.to)
<1>1. ~Making(call.todo)
  <2>1. \A k, o, l, m : call.todo # <<k, o, l>> /\ call.todo # <<k, o, l, m>>
    OBVIOUS
  <2> QED
    BY <2>1 DEF Making
<1>2. ~Staging(call.todo)
  <2>1. \A k, o, l : call.todo # <<o, l>> /\ call.todo # <<k, o, l>>
    OBVIOUS
  <2> QED
    BY <2>1 DEF Staging
<1>3. \A x : ~Filling(call.todo, x)
  <2>1. \A o, l : call.todo # <<o>> /\ call.todo # <<o, l>>
    OBVIOUS
  <2> QED
    BY <2>1 DEF Filling
<1> QED
  BY <1>1, <1>2, <1>3 DEF Left

LEMMA CallInvProcesses == chip \in Chips /\ CallInv => ProcessedRight
<1> SUFFICES ASSUME chip \in Chips, CallInv, call.phase = "run" PROVE ProcessedRight
  BY DEF ProcessedRight, EnginesFed, Delivered
<1>1. FromReady /\ ToReady /\ RunReady /\ Left(call.todo)
  BY DEF CallInv
<1>2. EnginesFed
  BY <1>1, LeftFed DEF EnginesFed, OpFed
<1>3. Delivered
  BY <1>1, LeftDelivers DEF Delivered, ShowsAsked, ShowsPicture, Src
<1> QED
  BY <1>2, <1>3 DEF ProcessedRight

(* Provided no far corner of a crop overflows, no side of a source, of an  *)
(* output asked for or of a JPEG picture is longer than an AX_S16 holds    *)
(* and, with AX620E among the chips, nothing is a single pixel wide or     *)
(* high, the first engine asked is asked only for what it can do, the      *)
(* engine asked after its failure too, but for VPP of AX620E which may then*)
(* be asked for packed RGB, and when Process is about to succeed the       *)
(* destination shows the part that was asked for of the picture of this    *)
(* very call with nothing old around it: whatever the chips, images,       *)
(* destinations, requests, JPEG sizes and number of calls, and whatever way*)
(* the plan takes and image it finds to reuse.                             *)
THEOREM RequestsProcessedRight == ASSUME CropsFit, SidesFit PROVE ImagesSpec => []ProcessedRight
<1> DEFINE Inv == MemoryInv /\ ChipKnown /\ chip \in Chips /\ CallInv
<1>1. ImagesInit => Inv
  BY MemoryInit, CallOver DEF ImagesInit, CallInv, Idle
<1>2. Inv /\ [ImagesNext]_imagesVars => Inv'
  BY MemoryNext, ChipNext, CallNext DEF ChipKnown
<1>3. Inv => ProcessedRight
  BY CallInvProcesses
<1> QED
  BY <1>1, <1>2, <1>3, PTL DEF ImagesSpec
=============================================================================
