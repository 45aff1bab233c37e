----------------------------- MODULE MCPreload ------------------------------
(***************************************************************************)
(* Preload for TLC: one chunk per block, two kinds of data and buffers of  *)
(* one and two chunks, the longer one reaching past the end of the slot.   *)
(***************************************************************************)
EXTENDS Preload

MCBuffers == {<<d>> : d \in Data} \cup {<<d, d>> : d \in Data}
=============================================================================
