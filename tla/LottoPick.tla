------------------------------ MODULE LottoPick ------------------------------
(***************************************************************************)
(* doDraw of LottoDraw/LottoDraw/ViewController.swift, pick by pick: each  *)
(* column takes PicksPerColumn numbers out of 1..MaxNumber, removing what  *)
(* it took from the array it takes from, and is then sorted.               *)
(* Int.random(in:) is a choice among all indices; indices count from 0.    *)
(* lottoNumbers, emptied first, holds the columns that are finished.       *)
(***************************************************************************)
EXTENDS LottoColumns, Integers, Sequences

CONSTANTS
    MaxNumber,         \* 45 in the code
    PicksPerColumn     \* 6 in the code

ASSUME PickAssumption ==
    /\ MaxNumber \in Nat
    /\ PicksPerColumn \in 1..MaxNumber

VARIABLES
    originalNumbers,   \* var originalNumbers: what is left to take from
    columnArray        \* var columnArray: what the column has taken

pickVars == <<originalNumbers, columnArray, lottoNumbers>>

Numbers == 1..MaxNumber

(* A mutant: the numbers count from 0, as indices do.                      *)
AllNumbersFromZero == [n \in Numbers |-> n - 1]

(* Array(1...45)                                                           *)
AllNumbers == [n \in Numbers |-> n]

(* The elements of a sequence.                                             *)
Elements(s) == {s[i] : i \in 1..Len(s)}

PickTypeOK ==
    /\ originalNumbers \in Seq(Numbers)
    /\ columnArray \in Seq(Numbers)
    /\ lottoNumbers \in Seq(Seq(Numbers))

PickInit ==
    /\ originalNumbers = AllNumbers
    /\ columnArray = <<>>
    /\ lottoNumbers = <<>>

(* originalNumbers.remove(at: index)                                       *)
Removed(s, index) ==
    [i \in 1..(Len(s) - 1) |-> IF i <= index THEN s[i] ELSE s[i + 1]]

(* A mutant: what is removed is the element after the one taken.           *)
PickRemovingNext(index) ==
    /\ Len(lottoNumbers) < NumColumns
    /\ Len(columnArray) < PicksPerColumn
    /\ columnArray' = Append(columnArray, originalNumbers[index + 1])
    /\ originalNumbers' = Removed(originalNumbers, (index + 1) % Len(originalNumbers))
    /\ UNCHANGED lottoNumbers

(* One turn of the inner loop, index being what Int.random(in:) answered.  *)
Pick(index) ==
    /\ Len(lottoNumbers) < NumColumns
    /\ Len(columnArray) < PicksPerColumn
    /\ columnArray' = Append(columnArray, originalNumbers[index + 1])
    /\ originalNumbers' = Removed(originalNumbers, index)
    /\ UNCHANGED lottoNumbers

(* t is s rearranged.                                                      *)
IsRearrangement(t, s) ==
    \E p \in [1..Len(s) -> 1..Len(s)] :
        /\ \A i, j \in 1..Len(s) : i # j => p[i] # p[j]
        /\ t = [i \in 1..Len(s) |-> s[p[i]]]

IsSorted(t) == \A i, j \in 1..Len(t) : i < j => t[i] <= t[j]

(* columnArray.sort()                                                      *)
Sorts(s) ==
    {t \in [1..Len(s) -> Elements(s)] : IsRearrangement(t, s) /\ IsSorted(t)}

(* A mutant: the next column goes on with the numbers this one has left.   *)
FinishColumnKeepingPool ==
    /\ Len(columnArray) = PicksPerColumn
    /\ \E t \in Sorts(columnArray) : lottoNumbers' = Append(lottoNumbers, t)
    /\ columnArray' = <<>>
    /\ UNCHANGED originalNumbers

(* The end of one turn of the outer loop and the start of the next one,    *)
(* which takes from all numbers again (after the last turn both local      *)
(* arrays are dead).                                                       *)
FinishColumn ==
    /\ Len(columnArray) = PicksPerColumn
    /\ \E t \in Sorts(columnArray) : lottoNumbers' = Append(lottoNumbers, t)
    /\ columnArray' = <<>>
    /\ originalNumbers' = AllNumbers

PickNext ==
    \/ \E index \in 0..(Len(originalNumbers) - 1) : Pick(index)
    \/ FinishColumn

PickSpec == PickInit /\ [][PickNext]_pickVars

FairPickSpec == PickSpec /\ WF_pickVars(PickNext)

-----------------------------------------------------------------------------

IsInjectiveSeq(s) == \A i, j \in 1..Len(s) : i # j => s[i] # s[j]

(* What a column may be: six numbers that rise strictly.                   *)
IsColumn(t) ==
    /\ t \in [1..PicksPerColumn -> Numbers]
    /\ \A i, j \in 1..PicksPerColumn : i < j => t[i] < t[j]

(* What the comment on remove(at:) asks for: no number comes twice in a    *)
(* column, whatever indices are drawn.                                     *)
ColumnsAreRight == \A n \in 1..Len(lottoNumbers) : IsColumn(lottoNumbers[n])

(* Every number is at any time either taken or left to take, and only one  *)
(* of the two, once: nothing is lost when the array shrinks.               *)
PoolIsComplement ==
    /\ IsInjectiveSeq(originalNumbers)
    /\ Elements(originalNumbers) = Numbers \ Elements(columnArray)

(* Int.random(in: 0..<0) traps: whenever a number is to be picked there    *)
(* is one to pick.                                                         *)
PoolNeverEmpty ==
    /\ Len(lottoNumbers) < NumColumns
    /\ Len(columnArray) < PicksPerColumn
    => Len(originalNumbers) > 0

(* Every draw comes to its end with all its columns: no pick is ever stuck *)
(* for want of a number.                                                   *)
DrawEnds == <>[](Len(lottoNumbers) = NumColumns)
=============================================================================
