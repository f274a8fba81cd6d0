------------------------------ MODULE MCSupport ------------------------------
(***************************************************************************)
(* The parts of the SDK that work apart from each other, for TLC: a        *)
(* behaviour picks one of them and uses only that one, so the states of    *)
(* the parts add up and do not multiply.  Every property is about one part.*)
(***************************************************************************)
EXTENDS Demuxer, Muxer, PipelineManager, AxSystem, Images, Drawer

CONSTANTS Parts, a, b, other

VARIABLE part

supportVars == <<part, demuxerVars, muxerVars, managerVars, systemVars, imagesVars, drawerVars>>

-----------------------------------------------------------------------------
(* Demuxer: files whose samples are reordered, lack durations, cannot be   *)
(* read, have an odd length prefix or no time scale; files come before     *)
(* cameras, because what a session leaves behind does not matter to a file.*)

Uri(scheme, mp4) == [blank |-> FALSE, scheme |-> scheme, mp4 |-> mp4]
MCUris == {Uri("none", TRUE), Uri("rtsp", FALSE), Uri("file", TRUE)}

FileSample(d, offset, key, sizes) == [dur |-> d, cts |-> offset, key |-> key, sizes |-> sizes]
FileOf(samples, timescale) == [samples |-> samples, timescale |-> timescale, nalLength |-> 4]

Unreadable == FileOf(<<FileSample(1, 0, TRUE, {})>>, 1)
MCFiles == {
  FileOf(<<FileSample(1, 1, TRUE, {4}), FileSample(1, 2, FALSE, {4}), FileSample(1, 0, FALSE, {4})>>, 2),
  FileOf(<<FileSample(1, 0, TRUE, {4}), FileSample(0, 0, FALSE, {4}), FileSample(2, 0, FALSE, {})>>, 2),
  FileOf(<<FileSample(0, 0, FALSE, {2}), FileSample(0, 0, FALSE, {1})>>, 1),
  FileOf(<<FileSample(1, 0, TRUE, {4})>>, 0),
  Unreadable}
MCBarrenFiles == {Unreadable}

DemuxerClient == type' = "kMp4File" => session = 0

-----------------------------------------------------------------------------
(* Muxer: a gets the packets, b wants the same paths.  A file has no state *)
(* and is opened alone.                                                    *)

SinkUri(kind, port) == [kind |-> kind, target |-> [port |-> port, path |-> 1]]
MCSinkUris == {SinkUri("mp4", 0), SinkUri("rtsp", 554), SinkUri("file", 0)}
PacketOf(pts, d, key, config, sample, codec) ==
  [pts |-> pts, dur |-> d, key |-> key, config |-> config, sample |-> sample, codec |-> codec]
MCPackets == {PacketOf(0, 3, TRUE, TRUE, TRUE, "kH264"), PacketOf(4, 0, FALSE, FALSE, TRUE, "kUnknown"),
              PacketOf(1, 4, FALSE, FALSE, FALSE, "kJpeg")}

MuxerClients ==
  /\ sinks'[b] # sinks[b] => Len(sinks'[b]) # Len(sinks[b])
  /\ Len(opening'[b].left) < 2
  /\ Len(opening'[a].left) = 2 => \A i \in 1..2 : opening'[a].left[i].kind # "file"

-----------------------------------------------------------------------------
(* Images.                                                                 *)

Desc(format, width, height, stride0, stride1) ==
  [format |-> format, width |-> width, height |-> height, stride0 |-> stride0, stride1 |-> stride1]

MCSources == {
  [desc |-> Desc("kNv12", 4, 4, 16, 16), device |-> TRUE],
  [desc |-> Desc("kNv12", 4, 4, 0, 0), device |-> FALSE],
  [desc |-> Desc("kRgb24", 4, 4, 48, 0), device |-> TRUE],
  [desc |-> Desc("kNv12", 4, 4, 64, 64), device |-> TRUE]}

MCDestinations == {Desc("kNv12", 4, 4, 16, 16), Desc("kRgb24", 2, 2, 48, 0),
                   Desc("kRgb24", 4, 4, 0, 0), Desc("kNv12", 4, 2, 16, 16)}

Resize(output, keep, align) ==
  [output |-> output, enable_crop |-> FALSE, crop |-> Region0, keep |-> keep, align |-> align]
CropOf(output, keep, x, y, width, height) ==
  [output |-> output, enable_crop |-> TRUE, crop |-> [x |-> x, y |-> y, width |-> width, height |-> height],
   keep |-> keep, align |-> "kEnd"]
AsSource == Desc("kUnknown", 0, 0, 0, 0)

MCRequests == {
  Resize(AsSource, FALSE, "kCenter"), Resize(Desc("kNv12", 4, 4, 16, 0), TRUE, "kCenter"),
  Resize(Desc("kRgb24", 0, 0, 0, 0), FALSE, "kCenter"), Resize(Desc("kRgb24", 2, 2, 0, 0), TRUE, "kStart"),
  Resize(Desc("kNv12", 4, 2, 0, 0), TRUE, "kCenter"), Resize(Desc("kNv12", 4, 2, 0, 0), FALSE, "kCenter"),
  Resize(Desc("kRgb24", 2, 2, 0, 0), FALSE, "kStart"), Resize(Desc("kNv12", 3, 2, 0, 0), FALSE, "kCenter"),
  CropOf(AsSource, FALSE, 2, 2, 2, 2), CropOf(Desc("kNv12", 4, 4, 0, 0), TRUE, 0, 2, 4, 2),
  CropOf(Desc("kRgb24", 4, 4, 0, 0), TRUE, 0, 0, 4, 2), CropOf(Desc("kRgb24", 2, 2, 0, 0), FALSE, 2, 2, 4, 2),
  CropOf(AsSource, FALSE, 1, 0, 2, 2)}

MCJpegSizes == {[width |-> 4, height |-> 4], [width |-> 3, height |-> 4]}

-----------------------------------------------------------------------------
(* Drawing on a picture of 8 by 6 whose UV plane begins after 8 rows.      *)

Box(kind, x, y, width, height) ==
  [kind |-> kind, x |-> x, y |-> y, width |-> width, height |-> height, thickness |-> 1]
Path(kind, points) == [kind |-> kind, points |-> [i \in 1..points |-> [x |-> i, y |-> 0]]]
MosaicAt(x) == [x |-> x, y |-> 0, width |-> 2, height |-> 2]
BitmapOf(width, bits, size) == [width |-> width, height |-> 2, bits |-> bits, size |-> size]
Detections == <<Box("rect", 0, 0, 8, 6), Box("rect", -5, 2, 7, 3), Box("rect", 9, 0, 4, 4), Box("rect", 2, 2, 0, 1)>>

MCFrameSize == [width |-> 8, height |-> 6, rows |-> 8]
MCDrawFrames == {
  [Nothing EXCEPT !.mosaics = <<MosaicAt(0)>>, !.bitmaps = <<BitmapOf(4, 32, 32)>>, !.lines = <<Path("line", 2)>>,
                  !.polygons = <<Path("polygon", 3)>>, !.rects = <<Detections[1]>>],
  [Nothing EXCEPT !.rects = Detections],
  [Nothing EXCEPT !.bitmaps = <<BitmapOf(128, 1, 32)>>],
  [Nothing EXCEPT !.mosaics = <<MosaicAt(0), MosaicAt(-1)>>],
  [Nothing EXCEPT !.bitmaps = <<BitmapOf(4, 24, 24)>>],
  [Nothing EXCEPT !.mosaics = <<MosaicAt(1)>>, !.lines = <<Path("line", 2), Path("line", 1)>>]}

(* Drawing is on its own snapshot of the commands.                         *)
DrawerClient == drawing'.phase \notin Over => prepared' = prepared /\ drawing'.refused \in {{}, {1}, {2, 5}}

-----------------------------------------------------------------------------
SupportInit ==
  /\ part \in Parts
  /\ DemuxerInit /\ MuxerInit /\ ManagerInit /\ SystemInit /\ ImagesInit /\ DrawerInit
  /\ part # "images" => chip = "ax650"
  /\ part # "system" => ~axcl
  /\ part # "drawer" => board = "ax650" /\ ~surfaces["frame"].cached

SupportNext ==
  /\ UNCHANGED part
  /\ \/ /\ part = "demuxer" /\ DemuxerNext /\ DemuxerClient
        /\ UNCHANGED <<muxerVars, managerVars, systemVars, imagesVars, drawerVars>>
     \/ /\ part = "muxer" /\ MuxerNext /\ MuxerClients
        /\ UNCHANGED <<demuxerVars, managerVars, systemVars, imagesVars, drawerVars>>
     \/ /\ part = "manager" /\ ManagerNext
        /\ UNCHANGED <<demuxerVars, muxerVars, systemVars, imagesVars, drawerVars>>
     \/ /\ part = "system" /\ SystemNext
        /\ UNCHANGED <<demuxerVars, muxerVars, managerVars, imagesVars, drawerVars>>
     \/ /\ part = "images" /\ ImagesNext
        /\ UNCHANGED <<demuxerVars, muxerVars, managerVars, systemVars, drawerVars>>
     \/ /\ part = "drawer" /\ DrawerNext /\ DrawerClient
        /\ UNCHANGED <<demuxerVars, muxerVars, managerVars, systemVars, imagesVars>>

(* DemuxerFairness holds of every behaviour that leaves the demuxer alone. *)
SupportSpec == SupportInit /\ [][SupportNext]_supportVars /\ DemuxerFairness
=============================================================================
