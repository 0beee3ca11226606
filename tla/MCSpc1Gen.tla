------------------------------ MODULE MCSpc1Gen ------------------------------
(* Two BSUs: the first with a walk on the first volume, the second with    *)
(* random access to the second volume and a stream on the third.  The walk *)
(* has a tree of eight leaves of two blocks, a sector of the hotspot left. *)
EXTENDS Spc1Gen, TLC

MCVolumes == <<340, 6, 8>>
MCUsed == (0 :> {2}) @@ (1 :> {5, 8})

\* Nothing reads the last command.
WithoutCmd == <<generator, tree, stream, idx>>
=============================================================================
