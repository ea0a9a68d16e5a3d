----------------------------- MODULE MCJobQueue -----------------------------
(***************************************************************************)
(* JobQueue for TLC.  The two delivery ids are interchangeable, so the     *)
(* safety runs use their symmetry.                                         *)
(***************************************************************************)
EXTENDS JobQueue, TLC

KeySymmetry == Permutations(Keys)

=============================================================================
