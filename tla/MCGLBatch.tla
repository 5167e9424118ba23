----------------------------- MODULE MCGLBatch -----------------------------
(***************************************************************************)
(* A command with one byte (glDepthMask), and one with four bytes and one  *)
(* (glSampleCoverage).                                                     *)
(***************************************************************************)
EXTENDS GLBatch_proofs, TLC

MCArgEnds == [f \in Commands |-> IF f = "glDepthMask" THEN <<1>> ELSE <<4, 5>>]
Symmetry == Permutations(Threads)

\* The hypothesis of the theorems.
ASSUME InstanceFits == ArgumentsFit
=============================================================================
