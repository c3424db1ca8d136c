----------------------------- MODULE LottoProofs -----------------------------
(***************************************************************************)
(* Theorems about LottoDraw, for every set of columns and every number of  *)
(* columns, whether SQLite may fail and the process may be killed or not.  *)
(***************************************************************************)
EXTENDS Lotto, LottoPick, TLAPS

USE DEF disk, connection, app, history, FMDatabaseTypeOK, Steps, InitSteps,
        LoadSteps, SaveSteps, Deaths

(***************************************************************************)
(* Every variable keeps its type: for every step, by the action it is.     *)
(***************************************************************************)
LEMMA TypeInvariant == TypeOK /\ [Next]_vars => TypeOK'
<1> SUFFICES ASSUME TypeOK, [Next]_vars PROVE TypeOK'
  OBVIOUS
<1> USE NumColumnsAssumption DEF TypeOK
<1>1. ASSUME Return PROVE TypeOK'
  BY <1>1 DEF Return, Close
<1>2. ASSUME FileExists PROVE TypeOK'
  BY <1>2 DEF FileExists
<1>3. ASSUME NEW ok \in BOOLEAN, CreateOpen(ok) \/ LoadOpen(ok) \/ SaveOpen(ok)
      PROVE  TypeOK'
  BY <1>3 DEF CreateOpen, LoadOpen, SaveOpen, Open
<1>4. ASSUME NEW ok \in BOOLEAN, CreateLotto(ok) PROVE TypeOK'
  BY <1>4 DEF CreateLotto, CreateTable
<1>5. ASSUME NEW ok \in BOOLEAN, LoadQuery(ok) PROVE TypeOK'
  BY <1>5 DEF LoadQuery, ExecuteQuery
<1>6. ASSUME NEW ok \in BOOLEAN, SaveInsert(ok) PROVE TypeOK'
  BY <1>6 DEF SaveInsert, ExecuteUpdate
<1>7. ASSUME LoadRow PROVE TypeOK'
  BY <1>7 DEF LoadRow, NextRow
<1>8. ASSUME LoadEnd PROVE TypeOK'
  <2>1. Len(lottoNumbers) \in Nat
    OBVIOUS
  <2> QED
    BY <1>8, <2>1 DEF LoadEnd, NoNextRow
<1>9. ASSUME SaveDelete PROVE TypeOK'
  BY <1>9 DEF SaveDelete, ExecuteUpdate
<1>10. ASSUME NEW reason \in Deaths, Die(reason) PROVE TypeOK'
  BY <1>10 DEF Die, Close
<1>11. ASSUME TryTrap \/ Kill \/ (\E row \in 0..(shownRows - 1) : CellForRow(row))
       PROVE  TypeOK'
  BY <1>10, <1>11 DEF TryTrap, Kill, CellForRow
<1>12. ASSUME SaveEnd PROVE TypeOK'
  BY <1>12 DEF SaveEnd
<1>13. ASSUME Launch PROVE TypeOK'
  BY <1>13 DEF Launch
<1>14. ASSUME DoDraw PROVE TypeOK'
  <2>1. lottoNumbers' \in Seq(Columns)
    BY <1>14 DEF DoDraw
  <2> QED
    BY <1>14, <2>1 DEF DoDraw
<1>15. ASSUME DoLoad PROVE TypeOK'
  BY <1>15 DEF DoLoad
<1>16. ASSUME DoSave PROVE TypeOK'
  BY <1>16 DEF DoSave
<1>17. CASE UNCHANGED vars
  BY <1>17 DEF vars
<1> QED
  BY <1>1, <1>2, <1>3, <1>4, <1>5, <1>6, <1>7, <1>8, <1>9, <1>11, <1>12,
     <1>13, <1>14, <1>15, <1>16, <1>17 DEF Next, MainThread, Environment

LEMMA InitTypeOK == Init => TypeOK
<1> SUFFICES ASSUME Init PROVE TypeOK
  OBVIOUS
<1>1. <<>> \in Seq(Columns)
  OBVIOUS
<1>2. file = FALSE /\ table = FALSE /\ isOpen = FALSE /\ reading = FALSE
  BY Zenon DEF Init, FMDatabaseInit
<1>3. rows \in Seq(Columns) /\ cursor \in Nat
  BY <1>1, Zenon DEF Init, FMDatabaseInit
<1>4. FMDatabaseTypeOK
  BY <1>2, <1>3, Zenon
<1> QED
  BY <1>1, <1>4 DEF Init, TypeOK

(* The type of the disk, of the connection and of the app's memory.        *)
THEOREM TypeCorrect == Spec => []TypeOK
BY InitTypeOK, TypeInvariant, PTL DEF Spec

-----------------------------------------------------------------------------
(***************************************************************************)
(* What the parts of the inductive invariant say of each step of a         *)
(* handler.                                                                *)
(***************************************************************************)

(* The connection is open exactly while a handler works on it, and what a  *)
(* handler has found on disk is still there.                               *)
ConnectionInv ==
    /\ table => file
    /\ ~table => rows = <<>>
    /\ pc \in {"createTable", "loadQuery", "loadNext", "saveDelete", "saveInsert"}
         => isOpen /\ file
    /\ pc \in {"loadNext", "saveInsert"} => table
    /\ pc = "createOpen" => ~file
    /\ pc = "loadNext" => reading

(* The loop of doSave walks along `saved`.                                 *)
SaveInv ==
    /\ pc = "saveInsert" => saved = lottoNumbers /\ saveIdx <= Len(saved) + 1
    /\ SavedIsSubsequence

(* What the screen counts.                                                 *)
ScreenInv ==
    /\ pc \in {"loadOpen", "loadQuery"} => lottoNumbers = <<>>
    /\ pc \in LoadSteps => origin = "loaded"
    /\ pc \notin {"off", "loadNext"} /\ shownRows # Len(lottoNumbers) =>
         lottoNumbers = <<>> /\ origin = "loaded"

(* While SQLite reports no error, a trap and a stale screen come from a    *)
(* half-made file.                                                         *)
TrapInv ==
    /\ death \in {"tryTrap", "indexTrap"} => HalfMade
    /\ pc \notin {"off"} \cup LoadSteps /\ shownRows # Len(lottoNumbers) => HalfMade

(* While SQLite reports no error, doSave stores every column it comes to.  *)
PrefixInv ==
    /\ Len(rows) <= Len(saved)
    /\ rows = SubSeq(saved, 1, Len(rows))
    /\ pc = "saveInsert" => Len(rows) = saveIdx - 1

(* While SQLite reports no error, doLoad reads every row.                  *)
LoadInv ==
    /\ pc = "loadNext" => cursor <= Len(rows) /\ lottoNumbers = SubSeq(rows, 1, cursor)
    /\ pc \in InitSteps => origin # "loaded"
    /\ origin = "loaded" /\ pc \notin {"off", "saveInsert"} \cup LoadSteps =>
         lottoNumbers = rows

-----------------------------------------------------------------------------
(* The connection and the file.                                            *)
LEMMA ConnectionStep ==
    TypeOK /\ ConnectionInv /\ [Next]_vars => ConnectionInv'
<1> SUFFICES ASSUME TypeOK, ConnectionInv, [Next]_vars PROVE ConnectionInv'
  OBVIOUS
<1> USE DEF ConnectionInv, TypeOK
<1>1. ASSUME Return \/ FileExists \/ SaveEnd PROVE ConnectionInv'
  BY <1>1 DEF Return, Close, FileExists, SaveEnd
<1>2. ASSUME NEW ok \in BOOLEAN, CreateOpen(ok) \/ LoadOpen(ok) \/ SaveOpen(ok)
      PROVE  ConnectionInv'
  BY <1>2 DEF CreateOpen, LoadOpen, SaveOpen, Open
<1>3. ASSUME NEW ok \in BOOLEAN, CreateLotto(ok) PROVE ConnectionInv'
  BY <1>3 DEF CreateLotto, CreateTable
<1>4. ASSUME NEW ok \in BOOLEAN, LoadQuery(ok) PROVE ConnectionInv'
  BY <1>4 DEF LoadQuery, ExecuteQuery
<1>5. ASSUME NEW ok \in BOOLEAN, SaveInsert(ok) PROVE ConnectionInv'
  BY <1>5 DEF SaveInsert, ExecuteUpdate
<1>6. ASSUME LoadRow \/ LoadEnd PROVE ConnectionInv'
  BY <1>6 DEF LoadRow, LoadEnd, NextRow, NoNextRow
<1>7. ASSUME SaveDelete PROVE ConnectionInv'
  BY <1>7 DEF SaveDelete, ExecuteUpdate
<1>8. ASSUME NEW reason, Die(reason) PROVE ConnectionInv'
  BY <1>8 DEF Die, Close
<1>9. ASSUME TryTrap \/ Kill \/ (\E row \in 0..(shownRows - 1) : CellForRow(row))
      PROVE  ConnectionInv'
  BY <1>8, <1>9 DEF TryTrap, Kill, CellForRow
<1>10. ASSUME Launch \/ DoDraw \/ DoLoad \/ DoSave PROVE ConnectionInv'
  BY <1>10 DEF Launch, DoDraw, DoLoad, DoSave
<1>11. CASE UNCHANGED vars
  BY <1>11 DEF vars
<1> QED
  BY <1>1, <1>2, <1>3, <1>4, <1>5, <1>6, <1>7, <1>9, <1>10, <1>11
     DEF Next, MainThread, Environment

-----------------------------------------------------------------------------
(***************************************************************************)
(* A half-made file stays half-made: the table is made in createTable and  *)
(* nowhere else, and a launch that finds the file does not go there.       *)
(***************************************************************************)
LEMMA HalfMadeStep == TypeOK /\ HalfMade /\ [Next]_vars => HalfMade'
<1> SUFFICES ASSUME TypeOK, HalfMade, [Next]_vars PROVE HalfMade'
  OBVIOUS
<1> USE DEF HalfMade
<1>1. ASSUME Return PROVE HalfMade'
  BY <1>1 DEF Return
<1>2. ASSUME FileExists PROVE HalfMade'
  BY <1>2 DEF FileExists
<1>3. ASSUME SaveEnd PROVE HalfMade'
  BY <1>3 DEF SaveEnd
<1>4. ASSUME NEW ok \in BOOLEAN, CreateOpen(ok) PROVE HalfMade'
  BY <1>4 DEF CreateOpen, Open
<1>5. ASSUME NEW ok \in BOOLEAN, LoadOpen(ok) PROVE HalfMade'
  BY <1>5 DEF LoadOpen, Open
<1>6. ASSUME NEW ok \in BOOLEAN, SaveOpen(ok) PROVE HalfMade'
  BY <1>6 DEF SaveOpen, Open
<1>7. ASSUME NEW ok \in BOOLEAN, CreateLotto(ok) PROVE HalfMade'
  BY <1>7 DEF CreateLotto
<1>8. ASSUME NEW ok \in BOOLEAN, LoadQuery(ok) PROVE HalfMade'
  BY <1>8 DEF LoadQuery, ExecuteQuery
<1>9. ASSUME NEW ok \in BOOLEAN, SaveInsert(ok) PROVE HalfMade'
  BY <1>9 DEF SaveInsert, ExecuteUpdate
<1>10. ASSUME LoadRow PROVE HalfMade'
  BY <1>10 DEF LoadRow, NextRow
<1>11. ASSUME LoadEnd PROVE HalfMade'
  BY <1>11 DEF LoadEnd, NoNextRow
<1>12. ASSUME SaveDelete PROVE HalfMade'
  BY <1>12 DEF SaveDelete, ExecuteUpdate
<1>13. ASSUME TryTrap PROVE HalfMade'
  BY <1>13 DEF TryTrap, Die
<1>14. ASSUME Kill PROVE HalfMade'
  BY <1>14 DEF Kill, Die
<1>15. ASSUME NEW row \in 0..(shownRows - 1), CellForRow(row) PROVE HalfMade'
  BY <1>15 DEF CellForRow, Die
<1>16. ASSUME Launch PROVE HalfMade'
  BY <1>16 DEF Launch
<1>17. ASSUME DoDraw PROVE HalfMade'
  BY <1>17 DEF DoDraw
<1>18. ASSUME DoLoad PROVE HalfMade'
  BY <1>18 DEF DoLoad
<1>19. ASSUME DoSave PROVE HalfMade'
  BY <1>19 DEF DoSave
<1>20. CASE UNCHANGED vars
  BY <1>20 DEF vars
<1> QED
  BY <1>1, <1>2, <1>3, <1>4, <1>5, <1>6, <1>7, <1>8, <1>9, <1>10, <1>11,
     <1>12, <1>13, <1>14, <1>15, <1>16, <1>17, <1>18, <1>19, <1>20
     DEF Next, MainThread, Environment

(* A file left without its table is never repaired by a later launch.      *)
THEOREM HalfMadeStays == Spec => HalfMadeForever
<1>1. TypeOK /\ [Next]_vars => [HalfMade => HalfMade']_vars
  BY HalfMadeStep
<1> QED
  BY <1>1, TypeCorrect, PTL DEF Spec, HalfMadeForever

-----------------------------------------------------------------------------
(***************************************************************************)
(* The loop of doSave.                                                     *)
(***************************************************************************)

(* A longer list offers at least what a shorter one did.                   *)
LEMMA SubsequenceOfMore ==
    ASSUME NEW s \in Seq(Columns), NEW t, NEW k \in Nat, NEW n \in Nat, k <= n,
           IsSubsequence(s, t, k)
    PROVE  IsSubsequence(s, t, n)
<1>1. PICK f \in [1..Len(s) -> 1..k] :
        Increasing(f, Len(s)) /\ \A i \in 1..Len(s) : s[i] = t[f[i]]
  BY DEF IsSubsequence
<1>2. f \in [1..Len(s) -> 1..n]
  OBVIOUS
<1> QED
  BY <1>1, <1>2 DEF IsSubsequence

(* One more row, the next of the list, keeps a subsequence.                *)
LEMMA SubsequenceAppend ==
    ASSUME NEW s \in Seq(Columns), NEW t \in Seq(Columns),
           NEW k \in 1..Len(t), IsSubsequence(s, t, k - 1)
    PROVE  IsSubsequence(Append(s, t[k]), t, k)
<1>1. PICK f \in [1..Len(s) -> 1..(k - 1)] :
        Increasing(f, Len(s)) /\ \A i \in 1..Len(s) : s[i] = t[f[i]]
  BY DEF IsSubsequence
<1> DEFINE n == Len(s) + 1
           g == [i \in 1..n |-> IF i = n THEN k ELSE f[i]]
<1>2. Len(s) \in Nat /\ Len(Append(s, t[k])) = n
  OBVIOUS
<1>3. g \in [1..n -> 1..k]
  BY <1>2
<1>4. Increasing(g, n)
  BY <1>1, <1>2 DEF Increasing
<1>5. \A i \in 1..n : Append(s, t[k])[i] = t[g[i]]
  BY <1>1, <1>2
<1> QED
  BY <1>2, <1>3, <1>4, <1>5 DEF IsSubsequence

(* The empty table is what is left of any list.                            *)
LEMMA SubsequenceEmpty ==
    ASSUME NEW t, NEW k \in Nat
    PROVE  IsSubsequence(<<>>, t, k)
<1> DEFINE f == [i \in 1..0 |-> 1]
<1>1. Len(<<>>) = 0
  OBVIOUS
<1>2. f \in [1..0 -> 1..k] /\ Increasing(f, 0)
  BY DEF Increasing
<1>3. \A i \in 1..0 : <<>>[i] = t[f[i]]
  OBVIOUS
<1> HIDE DEF f
<1> QED
  BY <1>1, <1>2, <1>3 DEF IsSubsequence

(* Of the steps, only the delete and the inserts of doSave touch the rows, *)
(* and only its end or a kill leaves the loop of inserts.                  *)
LEMMA RowsStep ==
    ASSUME [Next]_vars
    PROVE  \/ SaveDelete
           \/ \E ok \in BOOLEAN : SaveInsert(ok)
           \/ UNCHANGED vars
           \/ /\ pc' # "saveInsert" /\ UNCHANGED <<rows, saved>>
              /\ pc = "saveInsert" => SaveEnd \/ Kill
<1> DEFINE Quiet == /\ pc' # "saveInsert" /\ UNCHANGED <<rows, saved>>
                    /\ pc = "saveInsert" => SaveEnd \/ Kill
<1>1. ASSUME NEW ok \in BOOLEAN,
             CreateOpen(ok) \/ CreateLotto(ok) \/ LoadOpen(ok)
               \/ LoadQuery(ok) \/ SaveOpen(ok)
      PROVE  Quiet
  BY <1>1 DEF CreateOpen, CreateLotto, LoadOpen, LoadQuery, SaveOpen, Open,
              CreateTable, ExecuteQuery
<1>2. ASSUME Return \/ FileExists \/ LoadRow \/ LoadEnd \/ SaveEnd PROVE Quiet
  BY <1>2 DEF Return, FileExists, LoadRow, LoadEnd, SaveEnd, NextRow, NoNextRow
<1>3. ASSUME TryTrap \/ Kill \/ (\E row \in 0..(shownRows - 1) : CellForRow(row))
      PROVE  Quiet
  BY <1>3 DEF TryTrap, Kill, CellForRow, Die
<1>4. ASSUME Launch \/ DoDraw \/ DoLoad \/ DoSave PROVE Quiet
  BY <1>4 DEF Launch, DoDraw, DoLoad, DoSave
<1> HIDE DEF Quiet
<1>5. \/ SaveDelete
      \/ \E ok \in BOOLEAN : SaveInsert(ok)
      \/ UNCHANGED vars
      \/ Quiet
  BY <1>1, <1>2, <1>3, <1>4 DEF Next, MainThread, Environment
<1> QED
  BY <1>5 DEF Quiet

LEMMA SaveStep ==
    TypeOK /\ ConnectionInv /\ SaveInv /\ [Next]_vars => SaveInv'
<1> SUFFICES ASSUME TypeOK, ConnectionInv, SaveInv, [Next]_vars PROVE SaveInv'
  OBVIOUS
<1>1. /\ rows \in Seq(Columns) /\ saved \in Seq(Columns)
      /\ saveIdx \in Nat \ {0}
      /\ Len(saved) \in Nat
  BY DEF TypeOK
<1>2. /\ pc = "saveInsert" => saved = lottoNumbers /\ saveIdx <= Len(saved) + 1
      /\ IsSubsequence(rows, saved, Offered)
  BY DEF SaveInv, SavedIsSubsequence
<1>3. ASSUME SaveDelete PROVE SaveInv'
  <2>1. /\ rows' = <<>> /\ saved' = lottoNumbers /\ lottoNumbers' = lottoNumbers
        /\ pc' = "saveInsert" /\ saveIdx' = 1
    BY <1>3 DEF SaveDelete, ExecuteUpdate
  <2>2. IsSubsequence(<<>>, saved', 0)
    BY SubsequenceEmpty
  <2>3. Offered' = 0 /\ Len(saved') \in Nat
    BY <2>1 DEF Offered, TypeOK
  <2> QED
    BY <2>1, <2>2, <2>3 DEF SaveInv, SavedIsSubsequence
<1>4. ASSUME NEW ok \in BOOLEAN, SaveInsert(ok) PROVE SaveInv'
  <2>1. /\ pc = "saveInsert" /\ pc' = pc
        /\ saved = lottoNumbers /\ saved' = saved /\ lottoNumbers' = lottoNumbers
        /\ saveIdx \in 1..Len(saved) /\ saveIdx' = saveIdx + 1
    BY <1>1, <1>2, <1>4 DEF SaveInsert
  <2>2. rows' = IF ok THEN Append(rows, saved[saveIdx]) ELSE rows
    BY <1>4, <2>1 DEF SaveInsert, ExecuteUpdate
  <2>3. Offered = saveIdx - 1 /\ Offered' = saveIdx
    BY <1>1, <2>1 DEF Offered
  <2>4. IsSubsequence(rows, saved, saveIdx - 1)
    BY <1>2, <2>3
  <2>5. IsSubsequence(Append(rows, saved[saveIdx]), saved, saveIdx)
    BY <1>1, <2>1, <2>4, SubsequenceAppend
  <2>6. IsSubsequence(rows, saved, saveIdx)
    BY <1>1, <2>4, SubsequenceOfMore
  <2>7. IsSubsequence(rows', saved', Offered')
    BY <2>1, <2>2, <2>3, <2>5, <2>6
  <2> QED
    BY <1>1, <2>1, <2>7 DEF SaveInv, SavedIsSubsequence
<1>5. ASSUME pc' # "saveInsert", UNCHANGED <<rows, saved>> PROVE SaveInv'
  <2>1. Offered \in Nat /\ Offered <= Len(saved) /\ Offered' = Len(saved)
    BY <1>1, <1>2, <1>5 DEF Offered
  <2>2. IsSubsequence(rows, saved, Len(saved))
    BY <1>1, <1>2, <2>1, SubsequenceOfMore
  <2> QED
    BY <1>5, <2>1, <2>2 DEF SaveInv, SavedIsSubsequence
<1>6. ASSUME UNCHANGED vars PROVE SaveInv'
  BY <1>6 DEF vars, SaveInv, SavedIsSubsequence, Offered
<1> QED
  BY <1>3, <1>4, <1>5, <1>6, RowsStep

(* What holds of every history of the file, whatever fails or dies.        *)
LEMMA FileInvariant == Spec => [](TypeOK /\ ConnectionInv /\ SaveInv)
<1>1. Init => TypeOK /\ ConnectionInv /\ SaveInv
  <2> SUFFICES ASSUME Init PROVE ConnectionInv /\ SaveInv
    BY InitTypeOK
  <2>1. /\ rows = <<>> /\ saved = <<>> /\ pc = "off" /\ ~table
    BY DEF Init, FMDatabaseInit
  <2>2. ConnectionInv
    BY <2>1 DEF ConnectionInv
  <2>3. Offered = 0
    BY <2>1 DEF Offered
  <2>4. IsSubsequence(rows, saved, Offered)
    BY <2>1, <2>3, SubsequenceEmpty
  <2> QED
    BY <2>1, <2>2, <2>4 DEF SaveInv, SavedIsSubsequence
<1>2. TypeOK /\ ConnectionInv /\ SaveInv /\ [Next]_vars
        => TypeOK' /\ ConnectionInv' /\ SaveInv'
  BY TypeInvariant, ConnectionStep, SaveStep
<1> QED
  BY <1>1, <1>2, PTL DEF Spec

(* The table holds the last saved list with some columns missing, never a  *)
(* column twice, out of order or of another save.                          *)
THEOREM SavedColumns == Spec => []SavedIsSubsequence
<1>1. SaveInv => SavedIsSubsequence
  BY DEF SaveInv
<1> QED
  BY <1>1, FileInvariant, PTL

-----------------------------------------------------------------------------
(***************************************************************************)
(* The screen.                                                             *)
(***************************************************************************)

LEMMA ScreenStep == TypeOK /\ ScreenInv /\ [Next]_vars => ScreenInv'
<1> SUFFICES ASSUME TypeOK, ScreenInv, [Next]_vars PROVE ScreenInv'
  OBVIOUS
<1> USE DEF ScreenInv
<1>1. ASSUME Return \/ FileExists \/ SaveEnd PROVE ScreenInv'
  BY <1>1 DEF Return, FileExists, SaveEnd
<1>2. ASSUME NEW ok \in BOOLEAN, CreateOpen(ok) \/ CreateLotto(ok) \/ SaveOpen(ok)
      PROVE  ScreenInv'
  BY <1>2 DEF CreateOpen, CreateLotto, SaveOpen
<1>3. ASSUME NEW ok \in BOOLEAN, LoadOpen(ok) \/ LoadQuery(ok) PROVE ScreenInv'
  BY <1>3 DEF LoadOpen, LoadQuery
<1>4. ASSUME NEW ok \in BOOLEAN, SaveInsert(ok) PROVE ScreenInv'
  BY <1>4 DEF SaveInsert
<1>5. ASSUME LoadRow PROVE ScreenInv'
  BY <1>5 DEF LoadRow
<1>6. ASSUME LoadEnd PROVE ScreenInv'
  BY <1>6 DEF LoadEnd
<1>7. ASSUME SaveDelete PROVE ScreenInv'
  BY <1>7 DEF SaveDelete
<1>8. ASSUME TryTrap \/ Kill \/ (\E row \in 0..(shownRows - 1) : CellForRow(row))
      PROVE  ScreenInv'
  BY <1>8 DEF TryTrap, Kill, CellForRow, Die
<1>9. ASSUME Launch PROVE ScreenInv'
  BY <1>9 DEF Launch
<1>10. ASSUME DoDraw PROVE ScreenInv'
  BY <1>10 DEF DoDraw
<1>11. ASSUME DoLoad \/ DoSave PROVE ScreenInv'
  BY <1>11 DEF DoLoad, DoSave
<1>12. CASE UNCHANGED vars
  BY <1>12 DEF vars
<1> QED
  BY <1>1, <1>2, <1>3, <1>4, <1>5, <1>6, <1>7, <1>8, <1>9, <1>10, <1>11, <1>12
     DEF Next, MainThread, Environment

(* The table view and the array disagree only after a failed load, and     *)
(* then the array is empty.                                                *)
THEOREM StaleScreen == Spec => []StaleOnlyAfterFailedLoad
<1>1. Init => ScreenInv
  BY DEF Init, ScreenInv
<1>2. ScreenInv => StaleOnlyAfterFailedLoad
  BY DEF ScreenInv, StaleOnlyAfterFailedLoad
<1> QED
  BY <1>1, <1>2, ScreenStep, TypeCorrect, PTL DEF Spec

-----------------------------------------------------------------------------
(***************************************************************************)
(* While SQLite reports no error.                                          *)
(***************************************************************************)

(* Extending a prefix by the element that follows it.                      *)
LEMMA PrefixAppend ==
    ASSUME NEW t \in Seq(Columns), NEW k \in Nat, k < Len(t)
    PROVE  Append(SubSeq(t, 1, k), t[k + 1]) = SubSeq(t, 1, k + 1)
  OBVIOUS

(* A prefix as long as the sequence is the sequence.                       *)
LEMMA FullPrefix ==
    ASSUME NEW t \in Seq(Columns)
    PROVE  SubSeq(t, 1, Len(t)) = t
  OBVIOUS

(* The empty prefix.                                                       *)
LEMMA EmptyPrefix ==
    ASSUME NEW t \in Seq(Columns)
    PROVE  SubSeq(t, 1, 0) = <<>>
  OBVIOUS

LEMMA TrapStep ==
    ASSUME ~IOErrors, TypeOK, ConnectionInv, TrapInv, [Next]_vars
    PROVE  TrapInv'
<1>1. CASE HalfMade
  BY <1>1, HalfMadeStep DEF TrapInv
<1>2. CASE ~HalfMade
  <2>1. /\ death \notin {"tryTrap", "indexTrap"}
        /\ pc \notin {"off"} \cup LoadSteps => shownRows = Len(lottoNumbers)
    BY <1>2 DEF TrapInv
  <2>2. ASSUME Return \/ FileExists \/ SaveEnd PROVE TrapInv'
    BY <2>1, <2>2, <1>2 DEF Return, FileExists, SaveEnd, TrapInv
  <2>3. ASSUME NEW ok \in BOOLEAN,
               CreateOpen(ok) \/ CreateLotto(ok) \/ SaveOpen(ok) \/ SaveInsert(ok)
        PROVE  TrapInv'
    BY <2>1, <2>3 DEF CreateOpen, CreateLotto, SaveOpen, SaveInsert, TrapInv
  <2>4. ASSUME NEW ok \in BOOLEAN, LoadOpen(ok) PROVE TrapInv'
    BY <2>1, <2>4 DEF LoadOpen, Open, TrapInv
  <2>5. ASSUME NEW ok \in BOOLEAN, LoadQuery(ok) PROVE TrapInv'
    <3>1. pc = "loadQuery" /\ (ok \/ MayFail)
      BY <2>5 DEF LoadQuery, ExecuteQuery
    <3>2. isOpen /\ file
      BY <3>1 DEF ConnectionInv
    <3>3. table
      BY <1>2, <3>1, <3>2 DEF HalfMade
    <3>4. ok
      BY <3>1, <3>2, <3>3 DEF MayFail
    <3> QED
      BY <2>1, <2>5, <3>4 DEF LoadQuery, TrapInv
  <2>6. ASSUME LoadRow PROVE TrapInv'
    BY <2>1, <2>6 DEF LoadRow, TrapInv
  <2>7. ASSUME LoadEnd PROVE TrapInv'
    BY <2>1, <2>7 DEF LoadEnd, TrapInv
  <2>8. ASSUME SaveDelete PROVE TrapInv'
    BY <2>1, <2>8 DEF SaveDelete, TrapInv
  <2>9. ASSUME TryTrap PROVE FALSE
    <3>1. pc = "saveDelete" /\ isOpen /\ file /\ ~table
      BY <2>9 DEF TryTrap, MayFail, ConnectionInv
    <3> QED
      BY <1>2, <3>1 DEF HalfMade
  <2>10. ASSUME NEW row \in 0..(shownRows - 1), CellForRow(row) PROVE FALSE
    BY <2>1, <2>10 DEF CellForRow, TypeOK
  <2>11. ASSUME Kill PROVE TrapInv'
    BY <2>11 DEF Kill, Die, TrapInv
  <2>12. ASSUME Launch PROVE TrapInv'
    BY <2>1, <2>12 DEF Launch, TrapInv
  <2>13. ASSUME DoDraw PROVE TrapInv'
    BY <2>1, <2>13 DEF DoDraw, TrapInv
  <2>14. ASSUME DoLoad \/ DoSave PROVE TrapInv'
    BY <2>1, <2>14 DEF DoLoad, DoSave, TrapInv
  <2>15. CASE UNCHANGED vars
    BY <2>1, <2>15 DEF vars, TrapInv
  <2> QED
    BY <2>2, <2>3, <2>4, <2>5, <2>6, <2>7, <2>8, <2>9, <2>10, <2>11, <2>12,
       <2>13, <2>14, <2>15 DEF Next, MainThread, Environment
<1> QED
  BY <1>1, <1>2

LEMMA PrefixStep ==
    ASSUME ~IOErrors, TypeOK, ConnectionInv, SaveInv, PrefixInv, [Next]_vars
    PROVE  PrefixInv'
<1>1. rows \in Seq(Columns) /\ saved \in Seq(Columns) /\ saveIdx \in Nat \ {0}
  BY DEF TypeOK
<1>2. ASSUME SaveDelete PROVE PrefixInv'
  <2>1. rows' = <<>> /\ saveIdx' = 1 /\ saved' \in Seq(Columns)
    BY <1>2 DEF SaveDelete, ExecuteUpdate, TypeOK
  <2>2. Len(rows') = 0 /\ Len(saved') \in Nat /\ SubSeq(saved', 1, 0) = <<>>
    BY <2>1, EmptyPrefix
  <2> QED
    BY <2>1, <2>2 DEF PrefixInv
<1>3. ASSUME NEW ok \in BOOLEAN, SaveInsert(ok) PROVE PrefixInv'
  <2>1. /\ pc = "saveInsert" /\ pc' = pc /\ saved = lottoNumbers /\ saved' = saved
        /\ saveIdx \in 1..Len(saved) /\ saveIdx' = saveIdx + 1
    BY <1>1, <1>3 DEF SaveInsert, SaveInv
  <2>2. ok
    BY <1>3, <2>1 DEF SaveInsert, ExecuteUpdate, MayFail, ConnectionInv
  <2>3. rows' = Append(rows, saved[saveIdx])
    BY <1>3, <2>1, <2>2 DEF SaveInsert, ExecuteUpdate
  <2>4. Len(rows) = saveIdx - 1 /\ rows = SubSeq(saved, 1, saveIdx - 1)
    BY <2>1 DEF PrefixInv
  <2>5. rows' = SubSeq(saved, 1, saveIdx) /\ Len(rows') = saveIdx
    <3> DEFINE k == saveIdx - 1
    <3>1. k \in Nat /\ k < Len(saved) /\ k + 1 = saveIdx
      BY <2>1
    <3>2. Append(SubSeq(saved, 1, k), saved[k + 1]) = SubSeq(saved, 1, k + 1)
      BY <1>1, <3>1, PrefixAppend
    <3>3. Len(Append(rows, saved[saveIdx])) = Len(rows) + 1
      BY <1>1, <2>1
    <3> QED
      BY <2>3, <2>4, <3>1, <3>2, <3>3
  <2> QED
    BY <1>1, <2>1, <2>5 DEF PrefixInv
<1>4. ASSUME pc' # "saveInsert", UNCHANGED <<rows, saved>> PROVE PrefixInv'
  BY <1>4 DEF PrefixInv
<1>5. ASSUME UNCHANGED vars PROVE PrefixInv'
  BY <1>5 DEF vars, PrefixInv
<1> QED
  BY <1>2, <1>3, <1>4, <1>5, RowsStep

LEMMA LoadStep ==
    ASSUME ~IOErrors, TypeOK, ConnectionInv, SaveInv, ScreenInv, PrefixInv, LoadInv,
           [Next]_vars
    PROVE  LoadInv'
<1>1. /\ rows \in Seq(Columns) /\ saved \in Seq(Columns) /\ lottoNumbers \in Seq(Columns)
      /\ cursor \in Nat /\ saveIdx \in Nat \ {0}
  BY DEF TypeOK
<1>2. ASSUME NEW ok \in BOOLEAN, LoadQuery(ok) PROVE LoadInv'
  <2>1. /\ pc = "loadQuery" /\ lottoNumbers = <<>> /\ isOpen
        /\ lottoNumbers' = lottoNumbers /\ rows' = rows
        /\ cursor' = 0 /\ (ok \/ MayFail)
    BY <1>2 DEF LoadQuery, ExecuteQuery, ScreenInv, ConnectionInv
  <2>2. CASE ok
    <3>1. pc' = "loadNext"
      BY <1>2, <2>2 DEF LoadQuery
    <3>2. SubSeq(rows, 1, 0) = <<>> /\ Len(rows) \in Nat
      BY <1>1, EmptyPrefix
    <3> QED
      BY <2>1, <3>1, <3>2 DEF LoadInv
  <2>3. CASE ~ok
    <3>1. pc' = "return"
      BY <1>2, <2>3 DEF LoadQuery
    <3>2. rows = <<>>
      BY <2>1, <2>3 DEF MayFail, ConnectionInv
    <3> QED
      BY <2>1, <3>1, <3>2 DEF LoadInv
  <2> QED
    BY <2>2, <2>3
<1>3. ASSUME LoadRow PROVE LoadInv'
  <2>1. /\ pc = "loadNext" /\ pc' = pc /\ rows' = rows
        /\ cursor < Len(rows) /\ cursor' = cursor + 1
        /\ lottoNumbers' = Append(lottoNumbers, rows[cursor + 1])
    BY <1>3 DEF LoadRow, NextRow
  <2>2. lottoNumbers = SubSeq(rows, 1, cursor)
    BY <2>1 DEF LoadInv
  <2>3. lottoNumbers' = SubSeq(rows, 1, cursor + 1)
    BY <1>1, <2>1, <2>2, PrefixAppend
  <2>4. cursor' <= Len(rows')
    BY <1>1, <2>1
  <2> QED
    BY <2>1, <2>3, <2>4 DEF LoadInv
<1>4. ASSUME LoadEnd PROVE LoadInv'
  <2>1. /\ pc = "loadNext" /\ pc' = "return" /\ rows' = rows
        /\ lottoNumbers' = lottoNumbers /\ cursor >= Len(rows)
    BY <1>4 DEF LoadEnd, NoNextRow
  <2>2. cursor = Len(rows) /\ lottoNumbers = SubSeq(rows, 1, cursor)
    BY <1>1, <2>1 DEF LoadInv
  <2>3. lottoNumbers = rows
    BY <1>1, <2>2, FullPrefix
  <2> QED
    BY <2>1, <2>3 DEF LoadInv
<1>5. ASSUME SaveEnd PROVE LoadInv'
  <2>1. /\ pc = "saveInsert" /\ pc' = "return" /\ rows' = rows
        /\ lottoNumbers' = lottoNumbers /\ saveIdx > Len(lottoNumbers)
    BY <1>5 DEF SaveEnd
  <2>2. saved = lottoNumbers /\ Len(rows) = Len(saved)
    BY <1>1, <2>1 DEF SaveInv, PrefixInv
  <2>3. rows = lottoNumbers
    BY <1>1, <2>2, FullPrefix DEF PrefixInv
  <2> QED
    BY <2>1, <2>3 DEF LoadInv
<1>6. ASSUME NEW ok \in BOOLEAN, SaveInsert(ok) \/ SaveDelete PROVE LoadInv'
  BY <1>6 DEF SaveInsert, SaveDelete, LoadInv
<1>7. ASSUME Return \/ FileExists PROVE LoadInv'
  BY <1>7 DEF Return, FileExists, LoadInv
<1>8. ASSUME NEW ok \in BOOLEAN,
             CreateOpen(ok) \/ CreateLotto(ok) \/ LoadOpen(ok) \/ SaveOpen(ok)
      PROVE  LoadInv'
  BY <1>8 DEF CreateOpen, CreateLotto, LoadOpen, SaveOpen, Open, CreateTable, LoadInv
<1>9. ASSUME TryTrap \/ Kill \/ (\E row \in 0..(shownRows - 1) : CellForRow(row))
      PROVE  LoadInv'
  BY <1>9 DEF TryTrap, Kill, CellForRow, Die, LoadInv
<1>10. ASSUME Launch \/ DoDraw \/ DoLoad \/ DoSave PROVE LoadInv'
  BY <1>10 DEF Launch, DoDraw, DoLoad, DoSave, LoadInv
<1>11. CASE UNCHANGED vars
  BY <1>11 DEF vars, LoadInv
<1> QED
  BY <1>2, <1>3, <1>4, <1>5, <1>6, <1>7, <1>8, <1>9, <1>10, <1>11
     DEF Next, MainThread, Environment

(* The whole invariant, the second half of it for a disk that never fails. *)
IInv ==
    /\ TypeOK /\ ConnectionInv /\ SaveInv /\ ScreenInv
    /\ ~IOErrors => TrapInv /\ PrefixInv /\ LoadInv

LEMMA InductiveInvariant == Spec => []IInv
<1>1. Init => IInv
  <2> SUFFICES ASSUME Init PROVE IInv
    OBVIOUS
  <2>1. /\ rows = <<>> /\ saved = <<>> /\ pc = "off" /\ ~table
        /\ death = "none" /\ shownRows = 0 /\ lottoNumbers = <<>>
    BY DEF Init, FMDatabaseInit
  <2>2. Offered = 0
    BY <2>1 DEF Offered
  <2>3. SaveInv
    BY <2>1, <2>2, SubsequenceEmpty DEF SaveInv, SavedIsSubsequence
  <2>4. ConnectionInv /\ ScreenInv /\ TrapInv
    BY <2>1 DEF ConnectionInv, ScreenInv, TrapInv
  <2>5. <<>> \in Seq(Columns) /\ Len(<<>>) = 0
    OBVIOUS
  <2>6. PrefixInv
    BY <2>1, <2>5, EmptyPrefix DEF PrefixInv
  <2>7. LoadInv
    BY <2>1 DEF LoadInv
  <2> QED
    BY <2>3, <2>4, <2>6, <2>7, InitTypeOK DEF IInv
<1>2. IInv /\ [Next]_vars => IInv'
  BY TypeInvariant, ConnectionStep, SaveStep, ScreenStep, TrapStep, PrefixStep,
     LoadStep DEF IInv
<1> QED
  BY <1>1, <1>2, PTL DEF Spec

(* Without errors of SQLite's own the table holds a prefix of the last     *)
(* saved list, all of it once the save has come to its last column.        *)
THEOREM SavedPrefix == Spec => []SavedIsPrefix
<1>1. IInv => SavedIsPrefix
  BY DEF IInv, PrefixInv, SavedIsPrefix
<1> QED
  BY <1>1, InductiveInvariant, PTL

(* Without errors of SQLite's own neither try! nor an index traps unless   *)
(* the file was left without its table.                                    *)
THEOREM TrapsOnlyHalfMade == Spec => []TrapsNeedHalfMadeFile
<1>1. IInv => TrapsNeedHalfMadeFile
  BY DEF IInv, TrapInv, HalfMade, TrapsNeedHalfMadeFile
<1> QED
  BY <1>1, InductiveInvariant, PTL

(* Without errors of SQLite's own a loaded list is the table's content.    *)
THEOREM LoadedIsStored == Spec => []LoadedMirrorsFile
<1>1. IInv => LoadedMirrorsFile
  BY DEF IInv, LoadInv, InitSteps, LoadSteps, LoadedMirrorsFile
<1> QED
  BY <1>1, InductiveInvariant, PTL

-----------------------------------------------------------------------------
(***************************************************************************)
(* The file implements the abstract store.                                 *)
(***************************************************************************)

(* What is left to insert: the element at k, and what is left after it.    *)
LEMMA SuffixStep ==
    ASSUME NEW t \in Seq(Columns), NEW k \in 1..Len(t)
    PROVE  /\ SubSeq(t, k, Len(t)) \in Seq(Columns)
           /\ SubSeq(t, k, Len(t)) # <<>>
           /\ Head(SubSeq(t, k, Len(t))) = t[k]
           /\ Tail(SubSeq(t, k, Len(t))) = SubSeq(t, k + 1, Len(t))
<1>1. Len(SubSeq(t, k, Len(t))) = Len(t) - k + 1
  OBVIOUS
<1>2. SubSeq(t, k, Len(t)) \in Seq(Columns)
  OBVIOUS
<1>3. SubSeq(t, k, Len(t)) # <<>>
  <2>1. Len(SubSeq(t, k, Len(t))) > 0 /\ Len(<<>>) = 0
    BY <1>1
  <2> QED
    BY <2>1
<1>4. Head(SubSeq(t, k, Len(t))) = t[k]
  OBVIOUS
<1>5. Tail(SubSeq(t, k, Len(t))) = SubSeq(t, k + 1, Len(t))
  OBVIOUS
<1> QED
  BY <1>2, <1>3, <1>4, <1>5

LEMMA StoreStep ==
    ASSUME IInv, [Next]_vars
    PROVE  [Store!StoreNext]_(Store!storeVars)
<1> USE DEF Store!StoreNext, Store!storeVars
<1>1. /\ lottoNumbers \in Seq(Columns) /\ saveIdx \in Nat \ {0}
      /\ Len(lottoNumbers) \in Nat
      /\ pc = "saveInsert" => saved = lottoNumbers /\ saveIdx <= Len(lottoNumbers) + 1
  BY DEF IInv, TypeOK, SaveInv
<1>2. ASSUME SaveDelete PROVE Store!BeginSave
  <2>1. /\ pc = "saveDelete" /\ pc' = "saveInsert" /\ saveIdx' = 1
        /\ rows' = <<>> /\ lottoNumbers' = lottoNumbers
    BY <1>2 DEF SaveDelete, ExecuteUpdate
  <2>2. SubSeq(lottoNumbers, 1, Len(lottoNumbers)) \in Seq(Columns)
    BY <1>1, FullPrefix
  <2> QED
    BY <2>1, <2>2 DEF Store!BeginSave
<1>3. ASSUME NEW ok \in BOOLEAN, SaveInsert(ok) PROVE Store!Put \/ Store!Skip
  <2>1. /\ pc = "saveInsert" /\ pc' = pc /\ lottoNumbers' = lottoNumbers
        /\ saveIdx \in 1..Len(lottoNumbers) /\ saveIdx' = saveIdx + 1
    BY <1>1, <1>3 DEF SaveInsert
  <2>2. rows' = IF ok THEN Append(rows, lottoNumbers[saveIdx]) ELSE rows
    BY <1>3 DEF SaveInsert, ExecuteUpdate
  <2>3. ~ok => IOErrors
    BY <1>3, <2>1 DEF SaveInsert, ExecuteUpdate, MayFail, IInv, ConnectionInv
  <2>4. /\ SubSeq(lottoNumbers, saveIdx, Len(lottoNumbers)) # <<>>
        /\ Head(SubSeq(lottoNumbers, saveIdx, Len(lottoNumbers))) = lottoNumbers[saveIdx]
        /\ Tail(SubSeq(lottoNumbers, saveIdx, Len(lottoNumbers)))
             = SubSeq(lottoNumbers, saveIdx + 1, Len(lottoNumbers))
    BY <1>1, <2>1, SuffixStep
  <2>5. CASE ok
    BY <2>1, <2>2, <2>4, <2>5 DEF Store!Put
  <2>6. CASE ~ok
    BY <2>1, <2>2, <2>3, <2>4, <2>6 DEF Store!Skip
  <2> QED
    BY <2>5, <2>6
<1>4. ASSUME pc' # "saveInsert", UNCHANGED <<rows, saved>>,
             pc = "saveInsert" => SaveEnd \/ Kill
      PROVE  Store!Abandon \/ UNCHANGED Store!storeVars
  <2>1. CASE pc # "saveInsert"
    BY <1>4, <2>1
  <2>2. CASE Kill
    BY <1>4, <2>2 DEF Kill, Store!Abandon
  <2>3. CASE pc = "saveInsert" /\ SaveEnd
    <3>1. saveIdx = Len(lottoNumbers) + 1
      BY <1>1, <2>3 DEF SaveEnd
    <3>2. SubSeq(lottoNumbers, saveIdx, Len(lottoNumbers)) = <<>>
      BY <1>1, <3>1
    <3> QED
      BY <1>4, <2>3, <3>2
  <2> QED
    BY <1>4, <2>1, <2>2, <2>3
<1>5. ASSUME UNCHANGED vars PROVE UNCHANGED Store!storeVars
  BY <1>5 DEF vars
<1> QED
  BY <1>2, <1>3, <1>4, <1>5, RowsStep

(* Every history of the file is one of the abstract store: saves that      *)
(* empty it and refill it in order, with columns skipped only when SQLite  *)
(* may fail and saves abandoned only when the process may be killed.       *)
THEOREM StoreImplemented == Spec => ImplementsStore
<1>1. Init => Store!StoreInit
  BY DEF Init, FMDatabaseInit, Store!StoreInit
<1>2. IInv /\ [Next]_vars => [Store!StoreNext]_(Store!storeVars)
  BY StoreStep
<1> QED
  BY <1>1, <1>2, InductiveInvariant, PTL DEF Spec, ImplementsStore, Store!StoreSpec

-----------------------------------------------------------------------------
(* Theorems about doDraw for any number of balls, of picks in a column and *)
(* of columns, as long as a column picks no more numbers than there are.   *)

(* Taking an element out of a sequence without repetitions leaves the      *)
(* others, without repetitions.                                            *)
LEMMA RemovedElements ==
    ASSUME NEW s \in Seq(Numbers), NEW index \in 0..(Len(s) - 1), IsInjectiveSeq(s)
    PROVE  /\ Removed(s, index) \in Seq(Numbers)
           /\ Len(Removed(s, index)) = Len(s) - 1
           /\ IsInjectiveSeq(Removed(s, index))
           /\ Elements(Removed(s, index)) = Elements(s) \ {s[index + 1]}
<1> DEFINE r == Removed(s, index)
<1>1. Len(s) - 1 \in Nat
  OBVIOUS
<1>2. /\ r \in [1..(Len(s) - 1) -> Numbers]
      /\ \A i \in 1..(Len(s) - 1) : r[i] = IF i <= index THEN s[i] ELSE s[i + 1]
  BY <1>1 DEF Removed
<1>3. r \in Seq(Numbers) /\ Len(r) = Len(s) - 1
  BY <1>1, <1>2
<1> HIDE DEF r
<1>4. IsInjectiveSeq(r)
  BY <1>1, <1>2, <1>3 DEF IsInjectiveSeq
<1>5. ASSUME NEW x \in Elements(r) PROVE x \in Elements(s) \ {s[index + 1]}
  <2>1. PICK i \in 1..(Len(s) - 1) : x = r[i]
    BY <1>3 DEF Elements
  <2>2. PICK j \in 1..Len(s) : x = s[j] /\ j # index + 1
    BY <1>1, <1>2, <2>1
  <2> QED
    BY <2>2 DEF Elements, IsInjectiveSeq
<1>6. ASSUME NEW x \in Elements(s) \ {s[index + 1]} PROVE x \in Elements(r)
  <2>1. PICK j \in 1..Len(s) : x = s[j] /\ j # index + 1
    BY DEF Elements
  <2>2. CASE j <= index
    <3>1. j \in 1..(Len(s) - 1) /\ r[j] = x
      BY <1>2, <2>1, <2>2
    <3> QED
      BY <1>3, <3>1 DEF Elements
  <2>3. CASE j > index + 1
    <3>1. j - 1 \in 1..(Len(s) - 1) /\ r[j - 1] = x
      BY <1>2, <2>1, <2>3
    <3> QED
      BY <1>3, <3>1 DEF Elements
  <2> QED
    BY <2>1, <2>2, <2>3
<1> QED
  BY <1>3, <1>4, <1>5, <1>6 DEF r

(* Appending an element that is not there yet.                             *)
LEMMA AppendElements ==
    ASSUME NEW s \in Seq(Numbers), NEW x \in Numbers
    PROVE  /\ Append(s, x) \in Seq(Numbers)
           /\ Len(Append(s, x)) = Len(s) + 1
           /\ Elements(Append(s, x)) = Elements(s) \cup {x}
           /\ IsInjectiveSeq(s) /\ x \notin Elements(s) => IsInjectiveSeq(Append(s, x))
<1> DEFINE a == Append(s, x)
<1>1. /\ a \in Seq(Numbers) /\ Len(a) = Len(s) + 1 /\ Len(s) \in Nat
      /\ \A i \in 1..Len(s) : a[i] = s[i]
      /\ a[Len(s) + 1] = x
  OBVIOUS
<1> HIDE DEF a
<1>2. Elements(a) = Elements(s) \cup {x}
  BY <1>1 DEF Elements
<1>3. ASSUME IsInjectiveSeq(s), x \notin Elements(s) PROVE IsInjectiveSeq(a)
  BY <1>1, <1>3 DEF IsInjectiveSeq, Elements
<1> QED
  BY <1>1, <1>2, <1>3 DEF a

(* Sorting a column's picks, all different, gives a column.                *)
LEMMA SortsToColumn ==
    ASSUME NEW s \in Seq(Numbers), Len(s) = PicksPerColumn, IsInjectiveSeq(s),
           NEW t \in Sorts(s)
    PROVE  IsColumn(t)
<1>1. /\ t \in [1..PicksPerColumn -> Elements(s)]
      /\ IsRearrangement(t, s) /\ IsSorted(t)
  BY DEF Sorts
<1>2. PICK p \in [1..Len(s) -> 1..Len(s)] :
        /\ \A i, j \in 1..Len(s) : i # j => p[i] # p[j]
        /\ t = [i \in 1..Len(s) |-> s[p[i]]]
  BY <1>1 DEF IsRearrangement
<1>3. t \in [1..PicksPerColumn -> Numbers]
  BY <1>2
<1>4. PicksPerColumn \in Nat /\ Len(t) = PicksPerColumn
  BY <1>3, PickAssumption
<1>5. ASSUME NEW i \in 1..PicksPerColumn, NEW j \in 1..PicksPerColumn, i < j
      PROVE  t[i] < t[j]
  <2>1. t[i] <= t[j]
    BY <1>1, <1>4, <1>5 DEF IsSorted
  <2>2. p[i] # p[j] /\ p[i] \in 1..Len(s) /\ p[j] \in 1..Len(s)
    BY <1>2, <1>5
  <2>3. t[i] # t[j]
    BY <1>2, <2>2 DEF IsInjectiveSeq
  <2>4. t[i] \in Int /\ t[j] \in Int
    BY <1>3 DEF Numbers
  <2> QED
    BY <2>1, <2>3, <2>4
<1> QED
  BY <1>3, <1>5 DEF IsColumn

-----------------------------------------------------------------------------

(* The inductive invariant: the two arrays share out the numbers.          *)
PickInv ==
    /\ PickTypeOK
    /\ ColumnsAreRight
    /\ PoolIsComplement
    /\ IsInjectiveSeq(columnArray)
    /\ Len(columnArray) <= PicksPerColumn
    /\ Len(originalNumbers) + Len(columnArray) = MaxNumber

(* The array of all numbers holds each of them once.                       *)
LEMMA AllNumbersElements ==
    /\ AllNumbers \in Seq(Numbers)
    /\ Len(AllNumbers) = MaxNumber
    /\ IsInjectiveSeq(AllNumbers)
    /\ Elements(AllNumbers) = Numbers
<1>1. /\ AllNumbers \in [1..MaxNumber -> Numbers] /\ MaxNumber \in Nat
      /\ \A n \in 1..MaxNumber : AllNumbers[n] = n
  BY PickAssumption DEF AllNumbers, Numbers
<1>2. AllNumbers \in Seq(Numbers) /\ Len(AllNumbers) = MaxNumber
  BY <1>1
<1>3. IsInjectiveSeq(AllNumbers)
  BY <1>1, <1>2 DEF IsInjectiveSeq
<1>4. Elements(AllNumbers) = Numbers
  BY <1>1, <1>2 DEF Elements, Numbers
<1> QED
  BY <1>2, <1>3, <1>4

(* The empty array holds nothing, and nothing twice.                       *)
LEMMA NothingTaken ==
    /\ <<>> \in Seq(Numbers) /\ Len(<<>>) = 0
    /\ IsInjectiveSeq(<<>>) /\ Elements(<<>>) = {}
  BY DEF IsInjectiveSeq, Elements

(* Both steps keep the invariant.                                          *)
LEMMA PickStep == PickInv /\ [PickNext]_pickVars => PickInv'
<1> SUFFICES ASSUME PickInv, [PickNext]_pickVars PROVE PickInv'
  OBVIOUS
<1>1. /\ originalNumbers \in Seq(Numbers) /\ columnArray \in Seq(Numbers)
      /\ lottoNumbers \in Seq(Seq(Numbers)) /\ PicksPerColumn \in Nat
      /\ IsInjectiveSeq(originalNumbers) /\ IsInjectiveSeq(columnArray)
      /\ Elements(originalNumbers) = Numbers \ Elements(columnArray)
      /\ Len(originalNumbers) + Len(columnArray) = MaxNumber
      /\ Len(originalNumbers) \in Nat /\ Len(columnArray) \in Nat
  BY PickAssumption DEF PickInv, PickTypeOK, PoolIsComplement
<1>2. ASSUME NEW index \in 0..(Len(originalNumbers) - 1), Pick(index) PROVE PickInv'
  <2> DEFINE x == originalNumbers[index + 1]
  <2>1. x \in Numbers /\ x \in Elements(originalNumbers)
    BY <1>1 DEF Elements
  <2>2. x \notin Elements(columnArray)
    BY <1>1, <2>1
  <2>3. /\ Len(columnArray) < PicksPerColumn
        /\ columnArray' = Append(columnArray, x)
        /\ originalNumbers' = Removed(originalNumbers, index)
        /\ lottoNumbers' = lottoNumbers
    BY <1>2 DEF Pick
  <2> HIDE DEF x
  <2>4. /\ columnArray' \in Seq(Numbers) /\ Len(columnArray') = Len(columnArray) + 1
        /\ IsInjectiveSeq(columnArray')
        /\ Elements(columnArray') = Elements(columnArray) \cup {x}
    BY <1>1, <2>1, <2>2, <2>3, AppendElements
  <2>5. /\ originalNumbers' \in Seq(Numbers)
        /\ Len(originalNumbers') = Len(originalNumbers) - 1
        /\ IsInjectiveSeq(originalNumbers')
        /\ Elements(originalNumbers') = Elements(originalNumbers) \ {x}
    BY <1>1, <2>3, RemovedElements DEF x
  <2>6. PoolIsComplement'
    BY <1>1, <2>4, <2>5 DEF PoolIsComplement
  <2>7. ColumnsAreRight'
    BY <2>3 DEF PickInv, ColumnsAreRight
  <2>8. Len(columnArray') <= PicksPerColumn
        /\ Len(originalNumbers') + Len(columnArray') = MaxNumber
    BY <1>1, <2>3, <2>4, <2>5
  <2> QED
    BY <1>1, <2>3, <2>4, <2>5, <2>6, <2>7, <2>8 DEF PickInv, PickTypeOK
<1>3. ASSUME FinishColumn PROVE PickInv'
  <2>1. PICK t \in Sorts(columnArray) : lottoNumbers' = Append(lottoNumbers, t)
    BY <1>3 DEF FinishColumn
  <2>2. IsColumn(t)
    BY <1>1, <1>3, SortsToColumn DEF FinishColumn
  <2>3. t \in Seq(Numbers)
    <3>1. t \in [1..PicksPerColumn -> Numbers]
      BY <2>2 DEF IsColumn
    <3>2. PicksPerColumn \in Nat
      BY PickAssumption
    <3> QED
      BY <3>1, <3>2
  <2>4. lottoNumbers' \in Seq(Seq(Numbers)) /\ Len(lottoNumbers') = Len(lottoNumbers) + 1
    BY <1>1, <2>1, <2>3
  <2>5. ColumnsAreRight'
    <3> SUFFICES ASSUME NEW n \in 1..Len(lottoNumbers') PROVE IsColumn(lottoNumbers'[n])
      BY DEF ColumnsAreRight, IsColumn
    <3>1. CASE n = Len(lottoNumbers')
      BY <1>1, <2>1, <2>2, <2>4, <3>1
    <3>2. CASE n # Len(lottoNumbers')
      <4>1. n \in 1..Len(lottoNumbers) /\ lottoNumbers'[n] = lottoNumbers[n]
        BY <1>1, <2>1, <2>3, <2>4, <3>2
      <4> QED
        BY <4>1 DEF PickInv, ColumnsAreRight
    <3> QED
      BY <3>1, <3>2
  <2>6. columnArray' = <<>> /\ originalNumbers' = AllNumbers
    BY <1>3 DEF FinishColumn
  <2>7. PoolIsComplement'
    BY <2>6, AllNumbersElements, NothingTaken DEF PoolIsComplement
  <2>8. /\ IsInjectiveSeq(columnArray') /\ columnArray' \in Seq(Numbers)
        /\ originalNumbers' \in Seq(Numbers)
        /\ Len(columnArray') = 0 /\ Len(originalNumbers') = MaxNumber
    BY <2>6, AllNumbersElements, NothingTaken
  <2>9. PickTypeOK'
    BY <2>4, <2>8 DEF PickTypeOK
  <2>10. /\ Len(columnArray') <= PicksPerColumn
         /\ Len(originalNumbers') + Len(columnArray') = MaxNumber
    BY <1>1, <2>8, PickAssumption
  <2> QED
    BY <2>5, <2>7, <2>8, <2>9, <2>10 DEF PickInv
<1>4. CASE UNCHANGED pickVars
  BY <1>4 DEF pickVars, PickInv, PickTypeOK, ColumnsAreRight, PoolIsComplement, IsColumn,
              IsInjectiveSeq, Elements
<1> QED
  BY <1>2, <1>3, <1>4 DEF PickNext

(* So it holds throughout.                                                 *)
LEMMA PickInvariant == PickSpec => []PickInv
<1>1. PickInit => PickInv
  <2> SUFFICES ASSUME PickInit PROVE PickInv
    OBVIOUS
  <2>1. /\ originalNumbers = AllNumbers /\ columnArray = <<>> /\ lottoNumbers = <<>>
    BY DEF PickInit
  <2>2. <<>> \in Seq(Seq(Numbers)) /\ Len(<<>>) = 0
    OBVIOUS
  <2>3. PickTypeOK /\ ColumnsAreRight
    BY <2>1, <2>2, AllNumbersElements, NothingTaken DEF PickTypeOK, ColumnsAreRight
  <2>4. PoolIsComplement
    BY <2>1, AllNumbersElements, NothingTaken DEF PoolIsComplement
  <2> QED
    BY <2>1, <2>3, <2>4, AllNumbersElements, NothingTaken, PickAssumption DEF PickInv
<1> QED
  BY <1>1, PickStep, PTL DEF PickSpec

(* The three arrays of doDraw hold ball numbers and nothing else.          *)
THEOREM PickTypeCorrect == PickSpec => []PickTypeOK
<1>1. PickInv => PickTypeOK
  BY DEF PickInv
<1> QED
  BY <1>1, PickInvariant, PTL

(* Whatever indices are drawn, every finished column is six different      *)
(* numbers in rising order.                                                *)
THEOREM ColumnsRight == PickSpec => []ColumnsAreRight
<1>1. PickInv => ColumnsAreRight
  BY DEF PickInv
<1> QED
  BY <1>1, PickInvariant, PTL

(* Every number is either taken or left to take, and once.                 *)
THEOREM PoolComplement == PickSpec => []PoolIsComplement
<1>1. PickInv => PoolIsComplement
  BY DEF PickInv
<1> QED
  BY <1>1, PickInvariant, PTL

(* No pick asks Int.random(in:) for an index of an empty array.            *)
THEOREM PoolFilled == PickSpec => []PoolNeverEmpty
<1>1. PickInv => PoolNeverEmpty
  BY PickAssumption DEF PickInv, PickTypeOK, PoolNeverEmpty
<1> QED
  BY <1>1, PickInvariant, PTL

(* The columns there are.                                                  *)
AllColumns == {t \in [1..PicksPerColumn -> Numbers] : IsColumn(t)}

(* A draw that has come to its end has made what the one step DoDraw of    *)
(* Lotto puts on the screen: as many columns as there should be, all of    *)
(* them columns that can be drawn.                                         *)
THEOREM DrawMakesColumns ==
    PickSpec => [](Len(lottoNumbers) = NumColumns => lottoNumbers \in [1..NumColumns -> AllColumns])
<1>1. PickInv => (Len(lottoNumbers) = NumColumns => lottoNumbers \in [1..NumColumns -> AllColumns])
  <2> SUFFICES ASSUME PickInv, Len(lottoNumbers) = NumColumns
               PROVE  lottoNumbers \in [1..NumColumns -> AllColumns]
    OBVIOUS
  <2>1. lottoNumbers \in Seq(Seq(Numbers))
    BY DEF PickInv, PickTypeOK
  <2>2. /\ lottoNumbers = [n \in 1..NumColumns |-> lottoNumbers[n]]
        /\ DOMAIN lottoNumbers = 1..NumColumns
    BY <2>1
  <2>3. ASSUME NEW n \in 1..NumColumns PROVE lottoNumbers[n] \in AllColumns
    BY <2>2 DEF PickInv, ColumnsAreRight, IsColumn, AllColumns
  <2> QED
    BY <2>2, <2>3
<1> QED
  BY <1>1, PickInvariant, PTL

=============================================================================
