----------------------------- MODULE MCRecovery -----------------------------
(***************************************************************************)
(* Small instances of Recovery: a DAT/DSC pair and a standalone image.      *)
(* Processes that may all play the same roles are interchangeable; inodes   *)
(* are not, since a replaced member takes the least unused one.             *)
(***************************************************************************)
EXTENDS Recovery, TLC

PairFiles == <<"dat", "dsc">>
SingleFiles == <<"bin">>

Interchangeable == Permutations(Procs)
=============================================================================
