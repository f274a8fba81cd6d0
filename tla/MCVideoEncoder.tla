--------------------------- MODULE MCVideoEncoder ---------------------------
(***************************************************************************)
(* VideoEncoder on small instances.                                        *)
(***************************************************************************)
EXTENDS VideoEncoder, TLC

CONSTANTS b1, b2, b3, b4, p1, p2, send

MCBuffers == {b1, b2, b3, b4}

\* Staging images differ in nothing but their memory, producers in nothing.
MCSymmetry == Permutations(Producers) \union Permutations(Buffers)
=============================================================================
