--------------------------- MODULE MCMergedTrace ---------------------------
(***************************************************************************)
(* MergedTrace for TLC.  Only the readers are taken in an order, which is  *)
(* that of the writers: the threads that use them are interchangeable.     *)
(***************************************************************************)
EXTENDS MergedTrace, TLC

ThreadSymmetry == Permutations(Thread)
=============================================================================
