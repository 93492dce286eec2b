---------------------------- MODULE MCFuseBuffers ----------------------------
(***************************************************************************)
(* Small instances of FuseBuffers.  Names and handle slots are              *)
(* interchangeable; inode numbers are not, since flush_pending sorts them.  *)
(***************************************************************************)
EXTENDS FuseBuffers, TLC

FuseSymmetry == Permutations(Names) \cup Permutations(Fhs)
=============================================================================
