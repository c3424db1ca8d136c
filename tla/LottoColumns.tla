---------------------------- MODULE LottoColumns ----------------------------
(***************************************************************************)
(* What every handler of LottoDraw/LottoDraw/ViewController.swift shares:  *)
(* the columns of the draw on the screen.  Lotto is how they are saved and *)
(* loaded, LottoPick how they are drawn.                                   *)
(***************************************************************************)
EXTENDS Naturals

CONSTANT NumColumns    \* how many columns one draw makes, 5 in the code

ASSUME NumColumnsAssumption == NumColumns \in Nat \ {0}

VARIABLE lottoNumbers  \* var lottoNumbers

=============================================================================
