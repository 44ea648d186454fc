--------------------------- MODULE MCSpinBarrier ---------------------------
(***************************************************************************)
(* Finite instances of SpinBarrier.  The workers are interchangeable, so   *)
(* the safety runs use symmetry.                                           *)
(***************************************************************************)
EXTENDS SpinBarrier, TLC

Symmetry == Permutations(Thread)
=============================================================================
