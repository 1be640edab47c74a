----------------------------- MODULE MCGimbalLaser -----------------------------
(***************************************************************************)
(* GimbalLaser for TLC.  The executors of the receiver and of the voice    *)
(* node are the same class on the same kind of thread, and no property     *)
(* tells them apart.                                                       *)
(***************************************************************************)
EXTENDS GimbalLaser

Symmetry == Permutations(Executors)
=============================================================================
