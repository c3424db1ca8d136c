-------------------------------- MODULE Lotto --------------------------------
(***************************************************************************)
(* LottoDraw/LottoDraw/ViewController.swift: five lottery columns are      *)
(* drawn, saved to the SQLite file lotto.db and loaded back.  All of it    *)
(* runs on the main thread, so that taps wait while a handler runs; what   *)
(* comes between two steps of a handler is the death of the process.  A    *)
(* handler is cut at each call into the database, the calls after which    *)
(* the disk may differ.                                                    *)
(*                                                                         *)
(* The numbers of a column are written into the SQL text in decimal and    *)
(* read back with -intForColumn:, which is exact for 1...45: a column is   *)
(* an opaque value of Columns here, and LottoPick is how one is drawn.     *)
(***************************************************************************)
EXTENDS FMDatabase, LottoColumns

CONSTANT
    Kills           \* TRUE when the process may be killed at any moment

ASSUME KillsAssumption == Kills \in BOOLEAN

VARIABLES
    pc,             \* the step the main thread is about to take
    shownRows,      \* the row count the table view took at its last reloadData
    saveIdx,        \* the column the for loop of doSave is at
    death,          \* how the process last died
    saved,          \* history: the list the last doSave to empty the table had
    origin          \* history: where lottoNumbers comes from

app == <<lottoNumbers, shownRows, saveIdx>>
history == <<saved, origin>>
vars == <<disk, connection, pc, app, death, history>>

InitSteps == {"initDB", "createOpen", "createTable"}
LoadSteps == {"loadOpen", "loadQuery", "loadNext"}
SaveSteps == {"saveOpen", "saveDelete", "saveInsert"}
Steps == {"off", "idle", "return"} \cup InitSteps \cup LoadSteps \cup SaveSteps
Deaths == {"none", "killed", "tryTrap", "indexTrap"}

TypeOK ==
    /\ FMDatabaseTypeOK
    /\ pc \in Steps
    /\ lottoNumbers \in Seq(Columns)
    /\ shownRows \in Nat
    /\ saveIdx \in Nat \ {0}
    /\ death \in Deaths
    /\ saved \in Seq(Columns)
    /\ origin \in {"none", "drawn", "loaded"}

Init ==
    /\ FMDatabaseInit
    /\ pc = "off"
    /\ lottoNumbers = <<>>
    /\ shownRows = 0
    /\ saveIdx = 1
    /\ death = "none"
    /\ saved = <<>>
    /\ origin = "none"

-----------------------------------------------------------------------------
(* The life of the process.                                                *)

(* The app is started, and a fresh view controller enters viewDidLoad.     *)
Launch ==
    /\ pc = "off"
    /\ pc' = "initDB"
    /\ lottoNumbers' = <<>>
    /\ shownRows' = 0
    /\ saveIdx' = 1
    /\ origin' = "none"
    /\ UNCHANGED <<disk, connection, death, saved>>

(* The process ends, for the reason given: memory is gone, the disk stays. *)
Die(reason) ==
    /\ pc' = "off"
    /\ death' = reason
    /\ Close
    /\ UNCHANGED <<disk, app, history>>

Kill ==
    /\ Kills
    /\ pc # "off"
    /\ Die("killed")

(* A handler returns: its local `db` is deallocated, which closes it.      *)
Return ==
    /\ pc = "return"
    /\ pc' = "idle"
    /\ Close
    /\ UNCHANGED <<disk, app, death, history>>

-----------------------------------------------------------------------------
(* initDB: the table is made together with the file and at no other time.  *)

(* A mutant: the check is dropped and every launch makes the table.        *)
FileExistsUnchecked ==
    /\ pc = "initDB"
    /\ pc' = "createOpen"
    /\ UNCHANGED <<disk, connection, app, death, history>>

FileExists ==
    /\ pc = "initDB"
    /\ pc' = IF file THEN "idle" ELSE "createOpen"
    /\ UNCHANGED <<disk, connection, app, death, history>>

CreateOpen(ok) ==
    /\ pc = "createOpen"
    /\ Open(ok)
    /\ pc' = IF ok THEN "createTable" ELSE "return"
    /\ UNCHANGED <<app, death, history>>

(* A failure is only logged; initDB returns either way.                    *)
CreateLotto(ok) ==
    /\ pc = "createTable"
    /\ CreateTable(ok)
    /\ pc' = "return"
    /\ UNCHANGED <<app, death, history>>

-----------------------------------------------------------------------------
(* The table view, and the button Draw.                                    *)

(* A mutant: no reloadData after the draw.                                 *)
DoDrawNoReload ==
    /\ pc = "idle"
    /\ lottoNumbers' \in [1..NumColumns -> Columns]
    /\ origin' = "drawn"
    /\ UNCHANGED <<disk, connection, pc, shownRows, saveIdx, death, saved>>

(* LottoPick is how the columns are drawn; reloadData counts them.         *)
DoDraw ==
    /\ pc = "idle"
    /\ lottoNumbers' \in [1..NumColumns -> Columns]
    /\ shownRows' = Len(lottoNumbers')
    /\ origin' = "drawn"
    /\ UNCHANGED <<disk, connection, pc, saveIdx, death, saved>>

(* cellForRowAt, asked for a row the table view counted at its last        *)
(* reload: lottoNumbers[indexPath.row] traps when the array has shrunk.    *)
CellForRow(row) ==
    /\ pc = "idle"
    /\ row < shownRows
    /\ row >= Len(lottoNumbers)
    /\ Die("indexTrap")

-----------------------------------------------------------------------------
(* doLoad: the array is emptied first; reloadData only if there is a       *)
(* result set to read.                                                     *)

(* A mutant: the array is not emptied first.                               *)
DoLoadKeeping ==
    /\ pc = "idle"
    /\ pc' = "loadOpen"
    /\ origin' = "loaded"
    /\ UNCHANGED <<disk, connection, lottoNumbers, shownRows, saveIdx, death, saved>>

DoLoad ==
    /\ pc = "idle"
    /\ pc' = "loadOpen"
    /\ lottoNumbers' = <<>>
    /\ origin' = "loaded"
    /\ UNCHANGED <<disk, connection, shownRows, saveIdx, death, saved>>

LoadOpen(ok) ==
    /\ pc = "loadOpen"
    /\ Open(ok)
    /\ pc' = IF ok THEN "loadQuery" ELSE "return"
    /\ UNCHANGED <<app, death, history>>

LoadQuery(ok) ==
    /\ pc = "loadQuery"
    /\ ExecuteQuery(ok)
    /\ pc' = IF ok THEN "loadNext" ELSE "return"
    /\ UNCHANGED <<app, death, history>>

LoadRow ==
    /\ pc = "loadNext"
    /\ NextRow
    /\ lottoNumbers' = Append(lottoNumbers, rows[cursor'])
    /\ UNCHANGED <<pc, shownRows, saveIdx, death, history>>

(* A mutant: no reloadData at the end of the rows.                         *)
LoadEndNoReload ==
    /\ pc = "loadNext"
    /\ NoNextRow
    /\ pc' = "return"
    /\ UNCHANGED <<lottoNumbers, shownRows, saveIdx, death, history>>

LoadEnd ==
    /\ pc = "loadNext"
    /\ NoNextRow
    /\ pc' = "return"
    /\ shownRows' = Len(lottoNumbers)
    /\ UNCHANGED <<lottoNumbers, saveIdx, death, history>>

-----------------------------------------------------------------------------
(* doSave: one delete, then one insert for each column, each a transaction *)
(* of its own.                                                             *)

DoSave ==
    /\ pc = "idle"
    /\ pc' = "saveOpen"
    /\ UNCHANGED <<disk, connection, app, death, history>>

SaveOpen(ok) ==
    /\ pc = "saveOpen"
    /\ Open(ok)
    /\ pc' = IF ok THEN "saveDelete" ELSE "return"
    /\ UNCHANGED <<app, death, history>>

(* A mutant: the table is not emptied first.                               *)
SaveDeleteNothing ==
    /\ pc = "saveDelete"
    /\ ExecuteUpdate(rows, TRUE)
    /\ pc' = "saveInsert"
    /\ saveIdx' = 1
    /\ saved' = lottoNumbers
    /\ UNCHANGED <<lottoNumbers, shownRows, death, origin>>

(* A mutant: the loop starts one column early.                             *)
SaveDeleteZeroBased ==
    /\ pc = "saveDelete"
    /\ ExecuteUpdate(<<>>, TRUE)
    /\ pc' = "saveInsert"
    /\ saveIdx' = 0
    /\ saved' = lottoNumbers
    /\ UNCHANGED <<lottoNumbers, shownRows, death, origin>>

SaveDelete ==
    /\ pc = "saveDelete"
    /\ ExecuteUpdate(<<>>, TRUE)
    /\ pc' = "saveInsert"
    /\ saveIdx' = 1
    /\ saved' = lottoNumbers
    /\ UNCHANGED <<lottoNumbers, shownRows, death, origin>>

(* The delete reports an error: try! ends the process.                     *)
TryTrap ==
    /\ pc = "saveDelete"
    /\ MayFail
    /\ Die("tryTrap")

(* A mutant: the columns are inserted last to first.                       *)
SaveInsertReversed(ok) ==
    /\ pc = "saveInsert"
    /\ saveIdx <= Len(lottoNumbers)
    /\ ExecuteUpdate(Append(rows, lottoNumbers[Len(lottoNumbers) + 1 - saveIdx]), ok)
    /\ saveIdx' = saveIdx + 1
    /\ UNCHANGED <<pc, lottoNumbers, shownRows, death, history>>

(* An insert that fails is logged and the loop goes on.                    *)
SaveInsert(ok) ==
    /\ pc = "saveInsert"
    /\ saveIdx <= Len(lottoNumbers)
    /\ ExecuteUpdate(Append(rows, lottoNumbers[saveIdx]), ok)
    /\ saveIdx' = saveIdx + 1
    /\ UNCHANGED <<pc, lottoNumbers, shownRows, death, history>>

(* A mutant: the loop waits for a column after the last.                   *)
SaveEndLate ==
    /\ pc = "saveInsert"
    /\ saveIdx > Len(lottoNumbers) + 1
    /\ pc' = "return"
    /\ UNCHANGED <<disk, connection, app, death, history>>

SaveEnd ==
    /\ pc = "saveInsert"
    /\ saveIdx > Len(lottoNumbers)
    /\ pc' = "return"
    /\ UNCHANGED <<disk, connection, app, death, history>>

-----------------------------------------------------------------------------

(* What the main thread does of itself once a handler is running.          *)
MainThread ==
    \/ Return
    \/ FileExists
    \/ \E ok \in BOOLEAN : \/ CreateOpen(ok)
                           \/ CreateLotto(ok)
                           \/ LoadOpen(ok)
                           \/ LoadQuery(ok)
                           \/ SaveOpen(ok)
                           \/ SaveInsert(ok)
    \/ LoadRow
    \/ LoadEnd
    \/ SaveDelete
    \/ TryTrap
    \/ SaveEnd

(* What the user and the system do.                                        *)
Environment ==
    \/ Launch
    \/ Kill
    \/ DoDraw
    \/ DoLoad
    \/ DoSave
    \/ \E row \in 0..(shownRows - 1) : CellForRow(row)

Next == MainThread \/ Environment

Spec == Init /\ [][Next]_vars

(* A handler that has been entered runs on; nobody has to tap a button,    *)
(* start the app or kill it.                                               *)
FairSpec == Spec /\ WF_vars(MainThread)

-----------------------------------------------------------------------------
(* What is kept on disk.                                                   *)

Increasing(f, n) == \A i, j \in 1..n : i < j => f[i] < f[j]

(* s is what is left of the first k elements of t when some are dropped.   *)
IsSubsequence(s, t, k) ==
    \E f \in [1..Len(s) -> 1..k] :
        /\ Increasing(f, Len(s))
        /\ \A i \in 1..Len(s) : s[i] = t[f[i]]

(* How many columns of `saved` have been offered to the table.             *)
Offered == IF pc = "saveInsert" THEN saveIdx - 1 ELSE Len(saved)

(* Whatever fails and whenever the process dies, the table never holds a   *)
(* column twice, out of order or from two different saves: it is the last  *)
(* saved list with some columns missing.                                   *)
SavedIsSubsequence == IsSubsequence(rows, saved, Offered)

(* While SQLite reports no error, columns are missing only at the end of   *)
(* the list, and a save that runs to its last column misses none.          *)
SavedIsPrefix ==
    ~IOErrors =>
        /\ Len(rows) <= Len(saved)
        /\ rows = SubSeq(saved, 1, Len(rows))
        /\ pc = "saveInsert" => Len(rows) = saveIdx - 1

(* The file is there, its table is not, and no initDB is about to make it. *)
HalfMade == file /\ ~table /\ pc \notin {"createOpen", "createTable"}

(* initDB never repairs a file it finds: when the process dies, or a call  *)
(* fails, between the making of the file and the making of the table, no   *)
(* later launch even tries to make the table.                              *)
HalfMadeForever == [][HalfMade => HalfMade']_vars

(* Without errors of SQLite's own, the only thing that makes the app trap  *)
(* on its data is a file left without its table.                           *)
TrapsNeedHalfMadeFile ==
    ~IOErrors => (death \in {"tryTrap", "indexTrap"} => file /\ ~table)

(* The comment on try! in doSave: the delete has no case of error.         *)
NoTryTrap == death # "tryTrap"

(* An abstract store: saves that empty it and refill it in order.          *)
Store == INSTANCE DrawStore WITH
    stored <- rows,
    pending <- IF pc = "saveInsert"
               THEN SubSeq(lottoNumbers, saveIdx, Len(lottoNumbers))
               ELSE <<>>,
    MaySkip <- IOErrors,
    MayAbandon <- Kills

(* Every step that doSave, initDB, doLoad and a kill take on the disk is a *)
(* step of that store or leaves it alone.                                  *)
ImplementsStore == Store!StoreSpec

-----------------------------------------------------------------------------
(* What is in memory and on the screen.                                    *)

(* Between handlers the table view counts what the array holds, except     *)
(* after a load that failed: then the array is empty, and every row still  *)
(* on the screen is one that traps when it is drawn again.                 *)
StaleOnlyAfterFailedLoad ==
    pc = "idle" /\ shownRows # Len(lottoNumbers) =>
        lottoNumbers = <<>> /\ origin = "loaded"

(* While SQLite reports no error, a list that was loaded is all that the   *)
(* table holds, and stays so when it is saved again.                       *)
LoadedMirrorsFile ==
    ~IOErrors /\ pc = "idle" /\ origin = "loaded" => lottoNumbers = rows

(* Every handler comes to an end: no loop over rows or columns goes on     *)
(* for ever, and no step of one waits for something that never comes.      *)
HandlersEnd == pc \notin {"off", "idle"} ~> pc \in {"off", "idle"}

=============================================================================
