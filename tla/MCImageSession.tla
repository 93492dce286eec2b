--------------------------- MODULE MCImageSession ---------------------------
(***************************************************************************)
(* Small instances of ImageSession.  Blocks are interchangeable: no action  *)
(* or property names one, so their permutations are a symmetry.             *)
(***************************************************************************)
EXTENDS ImageSession, TLC

BlockSymmetry == Permutations(Blocks)
=============================================================================
