----------------------------- MODULE MCMemoNotes -----------------------------
(***************************************************************************)
(* MemoNotes on small instances.                                           *)
(***************************************************************************)
EXTENDS MemoNotes, TLC

MemoSymmetry == Permutations(Notes) \cup Permutations(Texts)

=============================================================================
