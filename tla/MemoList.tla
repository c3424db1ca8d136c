------------------------------ MODULE MemoList ------------------------------
(***************************************************************************)
(* TableViewExample/TableViewExample/ViewController.swift: a list of memos *)
(* kept three times, in UserDefaults, in datasource and in the cells of    *)
(* the table.  Every handler runs to its end on the main thread.  A swipe  *)
(* on a row makes two closures that remember the row, and the alert of     *)
(* Edit makes a third; they run later, when the list may have changed.     *)
(*                                                                         *)
(* UIKit is external: rows can be moved only while the table is in editing *)
(* mode and swiped only while it is not, changing the mode puts an open    *)
(* swipe away, reloadData may, and an alert keeps touches from the rest.   *)
(* UserDefaults keeps what was set when the process dies.                  *)
(***************************************************************************)
EXTENDS Naturals, Sequences, SequencesExt

CONSTANTS
    Texts,           \* what a text field may hold
    Empty,           \* ""
    MaxMemos         \* bound: no addMemo beyond this length

ASSUME MemoListAssumption ==
    /\ Empty \in Texts
    /\ MaxMemos \in Nat

VARIABLES
    running,         \* the process lives and its view is loaded
    stored,          \* UserDefaults, key "MemoData"
    datasource,      \* var datasource
    shown,           \* the text each row of the table was last given
    isEditing,       \* tableView.isEditing
    memoText,        \* memoText.text
    swiped,          \* the row the open swipe remembers, 0 when none is open
    editRow,         \* the row the alert remembers, 0 when there is no alert
    editText,        \* the text field of the alert
    meant            \* history: the memo on the row when it was swiped

captured == <<swiped, editRow, editText, meant>>
vars == <<running, stored, datasource, shown, isEditing, memoText, captured>>

TypeOK ==
    /\ running \in BOOLEAN
    /\ stored \in Seq(Texts)
    /\ datasource \in Seq(Texts)
    /\ shown \in Seq(Texts)
    /\ isEditing \in BOOLEAN
    /\ memoText \in Texts
    /\ swiped \in Nat
    /\ editRow \in Nat
    /\ swiped = 0 \/ editRow = 0
    /\ editText \in Texts
    /\ meant \in Texts

Init ==
    /\ running = FALSE
    /\ stored = <<>>
    /\ datasource = <<>>
    /\ shown = <<>>
    /\ isEditing = FALSE
    /\ memoText = Empty
    /\ swiped = 0
    /\ editRow = 0
    /\ editText = Empty
    /\ meant = Empty

-----------------------------------------------------------------------------

(* viewDidLoad, and the first load of the table.                           *)
Launch ==
    /\ ~running
    /\ running' = TRUE
    /\ datasource' = stored
    /\ shown' = stored
    /\ isEditing' = FALSE
    /\ memoText' = Empty
    /\ swiped' = 0
    /\ editRow' = 0
    /\ UNCHANGED <<stored, editText, meant>>

Kill ==
    /\ running
    /\ running' = FALSE
    /\ UNCHANGED <<stored, datasource, shown, isEditing, memoText, captured>>

(* Nothing lies over the view controller's own view.                       *)
Touchable == running /\ editRow = 0

TypeMemo(text) ==
    /\ Touchable
    /\ memoText' = text
    /\ UNCHANGED <<running, stored, datasource, shown, isEditing, captured>>

saveData == stored' = datasource'
reloadData == shown' = datasource'

(* A mutant: a new memo comes first.                                       *)
AddMemoFirst ==
    /\ Touchable
    /\ Len(datasource) < MaxMemos
    /\ memoText # Empty
    /\ datasource' = <<memoText>> \o datasource
    /\ memoText' = Empty
    /\ saveData
    /\ reloadData
    /\ swiped' \in {swiped, 0}
    /\ UNCHANGED <<running, isEditing, editRow, editText, meant>>

addMemo ==
    /\ Touchable
    /\ Len(datasource) < MaxMemos
    /\ memoText # Empty
    /\ datasource' = Append(datasource, memoText)
    /\ memoText' = Empty
    /\ saveData
    /\ reloadData
    /\ swiped' \in {swiped, 0}
    /\ UNCHANGED <<running, isEditing, editRow, editText, meant>>

changeEditing ==
    /\ Touchable
    /\ isEditing' = ~isEditing
    /\ swiped' = 0
    /\ UNCHANGED <<running, stored, datasource, shown, memoText, editRow,
                   editText, meant>>

(* A mutant: the two memos change places.                                  *)
MoveRowSwapping(from, to) ==
    /\ Touchable
    /\ isEditing
    /\ datasource' = [datasource EXCEPT ![from] = datasource[to],
                                        ![to] = datasource[from]]
    /\ saveData
    /\ reloadData
    /\ UNCHANGED <<running, isEditing, memoText, captured>>

(* moveRowAt: destinationIndexPath counts rows as they are after removal.  *)
moveRow(from, to) ==
    /\ Touchable
    /\ isEditing
    /\ datasource' = InsertAt(RemoveAt(datasource, from), to, datasource[from])
    /\ saveData
    /\ reloadData
    /\ UNCHANGED <<running, isEditing, memoText, captured>>

-----------------------------------------------------------------------------
(* trailingSwipeActionsConfigurationForRowAt and the closures it makes.    *)

Swipe(row) ==
    /\ Touchable
    /\ ~isEditing
    /\ swiped' = row
    /\ meant' = shown[row]
    /\ UNCHANGED <<running, stored, datasource, shown, isEditing, memoText,
                   editRow, editText>>

(* A mutant: completion(true) is forgotten, and the swipe stays open.      *)
EditNoCompletion ==
    /\ Touchable
    /\ swiped \in 1..Len(datasource)
    /\ editRow' = swiped
    /\ editText' = datasource[swiped]
    /\ UNCHANGED <<running, stored, datasource, shown, isEditing, memoText,
                   swiped, meant>>

(* btnEdit: the alert comes up with the memo in its text field.            *)
Edit ==
    /\ Touchable
    /\ swiped \in 1..Len(datasource)
    /\ editRow' = swiped
    /\ editText' = datasource[swiped]
    /\ swiped' = 0
    /\ UNCHANGED <<running, stored, datasource, shown, isEditing, memoText, meant>>

TypeEdit(text) ==
    /\ running
    /\ editRow # 0
    /\ editText' = text
    /\ UNCHANGED <<running, stored, datasource, shown, isEditing, memoText,
                   swiped, editRow, meant>>

(* A mutant: the memo is changed and not saved.                            *)
ModifyUnsaved ==
    /\ running
    /\ editRow \in 1..Len(datasource)
    /\ datasource' = ReplaceAt(datasource, editRow, editText)
    /\ shown' = ReplaceAt(shown, editRow, editText)
    /\ editRow' = 0
    /\ UNCHANGED <<running, stored, isEditing, memoText, swiped, editText, meant>>

(* The handler of Modify: only this row is reloaded.                       *)
Modify ==
    /\ running
    /\ editRow \in 1..Len(datasource)
    /\ datasource' = ReplaceAt(datasource, editRow, editText)
    /\ shown' = ReplaceAt(shown, editRow, editText)
    /\ saveData
    /\ editRow' = 0
    /\ UNCHANGED <<running, isEditing, memoText, swiped, editText, meant>>

Cancel ==
    /\ running
    /\ editRow # 0
    /\ editRow' = 0
    /\ UNCHANGED <<running, stored, datasource, shown, isEditing, memoText,
                   swiped, editText, meant>>

(* btnDelete.                                                              *)
Delete ==
    /\ Touchable
    /\ swiped \in 1..Len(datasource)
    /\ datasource' = RemoveAt(datasource, swiped)
    /\ reloadData
    /\ saveData
    /\ swiped' = 0
    /\ UNCHANGED <<running, isEditing, memoText, editRow, editText, meant>>

-----------------------------------------------------------------------------

Next ==
    \/ Launch
    \/ Kill
    \/ \E text \in Texts : TypeMemo(text) \/ TypeEdit(text)
    \/ addMemo
    \/ changeEditing
    \/ \E from, to \in 1..Len(datasource) : moveRow(from, to)
    \/ \E row \in 1..Len(shown) : Swipe(row)
    \/ Edit
    \/ Modify
    \/ Cancel
    \/ Delete

Spec == Init /\ [][Next]_vars

-----------------------------------------------------------------------------

(* The three copies agree whenever the user can touch anything: what the   *)
(* table shows is what the next launch will load.                          *)
CopiesAgree == running => stored = datasource /\ shown = datasource

(* A row remembered by a closure still is the row of the memo the user     *)
(* swiped: Modify and Delete touch that one, and never index past the end. *)
CapturedRowIsMeant ==
    running =>
        \A row \in {swiped, editRow} \ {0} :
            row \in 1..Len(datasource) /\ datasource[row] = meant

Abstract == INSTANCE MemoStore WITH memos <- stored

(* Each change of what is stored adds, rewrites, drops or carries one memo *)
(* and keeps the others, in their order.                                   *)
ImplementsMemoStore == Abstract!MemoStoreSpec

=============================================================================
