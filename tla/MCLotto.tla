------------------------------- MODULE MCLotto -------------------------------
(***************************************************************************)
(* Lotto on small instances.  Which of the columns was drawn first makes   *)
(* no difference to the store, so columns may be permuted.                 *)
(***************************************************************************)
EXTENDS Lotto, TLC

ColumnSymmetry == Permutations(Columns)

=============================================================================
