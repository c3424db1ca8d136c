----------------------------- MODULE MCMemoList -----------------------------
(***************************************************************************)
(* MemoList on small instances.                                            *)
(***************************************************************************)
EXTENDS MemoList

CONSTANTS t1, t2     \* two texts that are not empty

=============================================================================
