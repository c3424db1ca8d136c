--------------------------- MODULE MCPersonPictures ---------------------------
(* A small instance of PersonPictures: each person has a picture.  Cells   *)
(* are alike, and so are people.                                           *)
EXTENDS PersonPictures, TLC

McPicture == [r \in Rows |-> r]
Symmetry == Permutations(Cells) \cup Permutations(Rows)
===============================================================================
