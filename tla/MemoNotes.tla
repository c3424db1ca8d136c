------------------------------ MODULE MemoNotes ------------------------------
(***************************************************************************)
(* MemoApp/MemoApp: notes kept by Core Data.  A note lives in three        *)
(* places: the persistent store, the view context in memory, and the       *)
(* global array noteList the table shows.  NoteDetailVC writes the first   *)
(* two and appends to the third, AppDelegate.saveContext flushes the       *)
(* second to the first whenever the scene enters the background, and       *)
(* NoteTableView fills the third once for each instance of itself.         *)
(*                                                                         *)
(* Core Data is external: an object identity stands for a managed object,  *)
(* save() is atomic and may throw, fetch() may throw, answers the objects  *)
(* of the context with its pending changes, and, the request having no     *)
(* sort descriptor, answers them in any order.  Title and text of a note   *)
(* are one value: they are always read and written together.               *)
(*                                                                         *)
(* UIKit is external too: a pop takes time, during which both screens are  *)
(* there and neither is given a touch; viewDidAppear comes when it ends,   *)
(* and a pop that a swipe started may also be given up.                    *)
(***************************************************************************)
EXTENDS Naturals, Sequences, FiniteSets

CONSTANTS
    Notes,           \* identities of managed objects
    NoNote,          \* nil
    Texts,           \* what the two fields of NoteDetailVC can hold
    MaxListed        \* bound: no reconnect that makes noteList longer

ASSUME MemoAssumption ==
    /\ NoNote \notin Notes
    /\ MaxListed \in Nat

VARIABLES
    store,           \* on disk: the saved attributes of each saved note
    ctx,             \* viewContext: the attributes as the app sees them
    hasChanges,      \* viewContext.hasChanges
    noteList,        \* the global var noteList
    scene,           \* the process and its one scene
    screen,          \* the navigation stack: the table, the detail screen on
                     \* it, or that screen being popped, by code or by a swipe
    selectedNote,    \* NoteDetailVC.selectedNote
    counted,         \* the rows that the table counted at its last reloadData
    reconnected,     \* history: when the scene last came back in a live process
    thrown           \* history: when save() or fetch() last threw

memory == <<ctx, hasChanges, noteList>>
view == <<screen, selectedNote, counted>>
history == <<reconnected, thrown>>
vars == <<store, memory, scene, view, history>>

(* A note's attributes; deletedDate is kept as whether it is set.          *)
Attributes == [id : Nat, text : Texts, deleted : BOOLEAN]
IsNotes(f) ==
    /\ DOMAIN f \subseteq Notes
    /\ f \in [DOMAIN f -> Attributes]

TypeOK ==
    /\ IsNotes(store)
    /\ IsNotes(ctx)
    /\ hasChanges \in BOOLEAN
    /\ noteList \in Seq(DOMAIN ctx)
    /\ scene \in {"off", "foreground", "background", "disconnected"}
    /\ screen \in {"list", "detail", "popped", "swiped"}
    /\ selectedNote \in DOMAIN ctx \cup {NoNote}
    /\ counted \subseteq 1..Len(noteList)
    /\ {reconnected, thrown} \subseteq {"never", "earlier", "now"}

Init ==
    /\ store = [n \in {} |-> {}]
    /\ ctx = [n \in {} |-> {}]
    /\ hasChanges = FALSE
    /\ noteList = <<>>
    /\ scene = "off"
    /\ screen = "list"
    /\ selectedNote = NoNote
    /\ counted = {}
    /\ reconnected = "never"
    /\ thrown = "never"

-----------------------------------------------------------------------------

(* The rows of the table, as positions in list: what c does not mark as    *)
(* deleted.  Row r is the r-th of them, and there may be none.             *)
nonDeleteNotes(list, c) == {i \in 1..Len(list) : ~c[list[i]].deleted}

NoteAt(list, c, row) ==
    {list[i] : i \in {j \in nonDeleteNotes(list, c) :
                       Cardinality(nonDeleteNotes(list, c) \cap 1..j) = row}}

Listed(list) == {list[i] : i \in 1..Len(list)}

IsDistinct(list) ==
    \A i, j \in 1..Len(list) : i # j => list[i] # list[j]

(* The answers fetch() may give: the objects of c, each once.              *)
Fetched(c) ==
    {list \in [1..Cardinality(DOMAIN c) -> DOMAIN c] : IsDistinct(list)}

(* reloadData counts the rows anew.                                        *)
Reload(list, c) == counted' = nonDeleteNotes(list, c)

(* A history variable when a process starts, and when the event happens.   *)
Earlier(when) == IF when = "now" THEN "earlier" ELSE when
Noting(when, happens) == IF happens THEN "now" ELSE when

(* A new NoteTableView loads and appears: firstLoad is an instance         *)
(* variable, so each one appends all that is fetched to the global list,   *)
(* which holds old.  A fetch that throws is only printed.  Nothing can     *)
(* happen to the notes between the first layout and viewDidAppear.         *)
TableLoads(old, c, when) ==
    \E ok \in BOOLEAN : \E list \in IF ok THEN Fetched(c) ELSE {<<>>} :
        /\ noteList' = old \o list
        /\ screen' = "list"
        /\ selectedNote' = NoNote
        /\ Reload(old \o list, c)
        /\ thrown' = Noting(when, ~ok)

(* context.save(), ending normally or by throwing.                         *)
ContextSave(ok) ==
    /\ store' = IF ok THEN ctx' ELSE store
    /\ hasChanges' = ~ok
    /\ thrown' = Noting(thrown, ~ok)

(* popViewController, which comes after a save that did not throw.         *)
PopAfter(ok) ==
    /\ screen' = IF ok THEN "popped" ELSE screen
    /\ UNCHANGED <<selectedNote, counted>>

-----------------------------------------------------------------------------
(* The process and its scene.                                              *)

Launch ==
    /\ scene = "off"
    /\ scene' = "foreground"
    /\ ctx' = store
    /\ hasChanges' = FALSE
    /\ TableLoads(<<>>, store, Earlier(thrown))
    /\ reconnected' = Earlier(reconnected)
    /\ UNCHANGED store

(* The process is gone, and with it the context and the list.              *)
Kill ==
    /\ scene # "off"
    /\ scene' = "off"
    /\ UNCHANGED <<store, memory, view, history>>

(* saveContext, when its save does not throw.                              *)
saveContext ==
    IF hasChanges THEN ContextSave(TRUE) ELSE UNCHANGED <<store, hasChanges, thrown>>

(* A mutant: sceneDidEnterBackground without its call of saveContext.      *)
EnterBackgroundUnsaved ==
    /\ scene = "foreground"
    /\ scene' = "background"
    /\ UNCHANGED <<store, memory, view, history>>

(* sceneDidEnterBackground; SaveContextTraps is the other outcome.         *)
EnterBackground ==
    /\ scene = "foreground"
    /\ scene' = "background"
    /\ UNCHANGED ctx
    /\ saveContext
    /\ UNCHANGED <<noteList, view, reconnected>>

(* The save in saveContext throws: fatalError.                             *)
SaveContextTraps ==
    /\ scene = "foreground"
    /\ hasChanges
    /\ scene' = "off"
    /\ thrown' = "now"
    /\ UNCHANGED <<store, memory, view, reconnected>>

EnterForeground ==
    /\ scene = "background"
    /\ scene' = "foreground"
    /\ UNCHANGED <<store, memory, view, history>>

(* The system releases the scene and its view controllers.                 *)
SceneDisconnect ==
    /\ scene = "background"
    /\ scene' = "disconnected"
    /\ UNCHANGED <<store, memory, view, history>>

SceneReconnect ==
    /\ scene = "disconnected"
    /\ Len(noteList) + Cardinality(DOMAIN ctx) <= MaxListed
    /\ scene' = "foreground"
    /\ UNCHANGED <<store, ctx, hasChanges>>
    /\ TableLoads(noteList, ctx, thrown)
    /\ reconnected' = "now"

-----------------------------------------------------------------------------
(* The table and the detail screen.                                        *)

OnList == scene = "foreground" /\ screen = "list"
OnDetail == scene = "foreground" /\ screen = "detail"

(* The segue newNote.                                                      *)
NewNote ==
    /\ OnList
    /\ screen' = "detail"
    /\ selectedNote' = NoNote
    /\ UNCHANGED <<store, memory, scene, counted, history>>

(* didSelectRowAt and prepare: the row is looked up in the list as it is   *)
(* now; CountedRowsAreThere says that there always is one.                 *)
EditNote(row) ==
    /\ OnList
    /\ screen' = "detail"
    /\ selectedNote' \in NoteAt(noteList, ctx, row)
    /\ UNCHANGED <<store, memory, scene, counted, history>>

(* The back button, or a swipe from the edge.                              *)
Back ==
    /\ OnDetail
    /\ screen' \in {"popped", "swiped"}
    /\ UNCHANGED <<store, memory, scene, selectedNote, counted, history>>

SwipeGivenUp ==
    /\ scene \in {"foreground", "background"}
    /\ screen = "swiped"
    /\ screen' = "detail"
    /\ UNCHANGED <<store, memory, scene, selectedNote, counted, history>>

(* The table is laid out again before it has appeared, say because the     *)
(* device is turned, and asks for a cell of a row that it counted and that *)
(* is gone: the index is out of range.                                     *)
CellForRowTraps ==
    /\ scene \in {"foreground", "background"}
    /\ screen # "detail"
    /\ Cardinality(counted) > Cardinality(nonDeleteNotes(noteList, ctx))
    /\ scene' = "off"
    /\ UNCHANGED <<store, memory, view, history>>

(* A mutant: viewDidAppear does not reload the table.                      *)
ViewDidAppearNoReload ==
    /\ scene \in {"foreground", "background"}
    /\ screen \in {"popped", "swiped"}
    /\ screen' = "list"
    /\ selectedNote' = NoNote
    /\ UNCHANGED <<store, memory, scene, counted, history>>

(* The pop has ended: the detail screen is gone, the table is reloaded.    *)
ViewDidAppear ==
    /\ scene \in {"foreground", "background"}
    /\ screen \in {"popped", "swiped"}
    /\ screen' = "list"
    /\ selectedNote' = NoNote
    /\ Reload(noteList, ctx)
    /\ UNCHANGED <<store, memory, scene, history>>

(* c with one more note, numbered by the length of the list.               *)
Inserted(c, newNote, text) ==
    [n \in DOMAIN c \cup {newNote} |->
        IF n = newNote
        THEN [id |-> Len(noteList), text |-> text, deleted |-> FALSE]
        ELSE c[n]]

(* A mutant: the note is listed whether or not save() throws.              *)
SaveNewNoteListedFirst(newNote, text, ok) ==
    /\ OnDetail
    /\ selectedNote = NoNote
    /\ newNote \notin DOMAIN ctx
    /\ ctx' = Inserted(ctx, newNote, text)
    /\ ContextSave(ok)
    /\ noteList' = Append(noteList, newNote)
    /\ PopAfter(ok)
    /\ UNCHANGED <<scene, reconnected>>

(* A mutant: the same, and the insertion is rolled back when it throws.    *)
SaveNewNoteRolledBack(newNote, text, ok) ==
    /\ OnDetail
    /\ selectedNote = NoNote
    /\ newNote \notin DOMAIN ctx
    /\ ctx' = IF ok THEN Inserted(ctx, newNote, text) ELSE ctx
    /\ ContextSave(ok)
    /\ noteList' = Append(noteList, newNote)
    /\ PopAfter(ok)
    /\ UNCHANGED <<scene, reconnected>>

(* A mutant: the note is saved and not listed.                             *)
SaveNewNoteUnlisted(newNote, text, ok) ==
    /\ OnDetail
    /\ selectedNote = NoNote
    /\ newNote \notin DOMAIN ctx
    /\ ctx' = Inserted(ctx, newNote, text)
    /\ ContextSave(ok)
    /\ PopAfter(ok)
    /\ UNCHANGED <<noteList, scene, reconnected>>

(* saveAction without a selectedNote.  When save() throws, the object it   *)
(* inserted stays in the context, and the next tap inserts another.        *)
SaveNewNote(newNote, text, ok) ==
    /\ OnDetail
    /\ selectedNote = NoNote
    /\ newNote \notin DOMAIN ctx
    /\ ctx' = Inserted(ctx, newNote, text)
    /\ ContextSave(ok)
    /\ noteList' = IF ok THEN Append(noteList, newNote) ELSE noteList
    /\ PopAfter(ok)
    /\ UNCHANGED <<scene, reconnected>>

(* A mutant: the test note == selectedNote is dropped.                     *)
SaveEditAll(text, ok) ==
    /\ OnDetail
    /\ selectedNote # NoNote
    /\ ctx' = [n \in DOMAIN ctx |-> [ctx[n] EXCEPT !.text = text]]
    /\ ContextSave(ok)
    /\ UNCHANGED <<noteList, scene, reconnected>>
    /\ PopAfter(ok)

(* A mutant: the attributes are written as those of a new note.            *)
SaveEditAnew(text, ok) ==
    /\ OnDetail
    /\ selectedNote # NoNote
    /\ ctx' = [ctx EXCEPT ![selectedNote] =
                  [id |-> @.id, text |-> text, deleted |-> FALSE]]
    /\ ContextSave(ok)
    /\ UNCHANGED <<noteList, scene, reconnected>>
    /\ PopAfter(ok)

(* saveAction with a selectedNote: its attributes are set before save().   *)
SaveEdit(text, ok) ==
    /\ OnDetail
    /\ selectedNote # NoNote
    /\ ctx' = [ctx EXCEPT ![selectedNote].text = text]
    /\ ContextSave(ok)
    /\ UNCHANGED <<noteList, scene, reconnected>>
    /\ PopAfter(ok)

(* A mutant: the note also leaves the list.                                *)
DelteNoteUnlisting(ok) ==
    /\ OnDetail
    /\ selectedNote # NoNote
    /\ ctx' = [ctx EXCEPT ![selectedNote].deleted = TRUE]
    /\ ContextSave(ok)
    /\ noteList' = SelectSeq(noteList, LAMBDA n : n # selectedNote)
    /\ UNCHANGED <<scene, reconnected>>
    /\ PopAfter(ok)

(* DelteNote: nothing matches while selectedNote is nil.                   *)
DelteNote(ok) ==
    /\ OnDetail
    /\ selectedNote # NoNote
    /\ ctx' = [ctx EXCEPT ![selectedNote].deleted = TRUE]
    /\ ContextSave(ok)
    /\ UNCHANGED <<noteList, scene, reconnected>>
    /\ PopAfter(ok)

-----------------------------------------------------------------------------

Next ==
    \/ Launch
    \/ Kill
    \/ EnterBackground
    \/ SaveContextTraps
    \/ EnterForeground
    \/ SceneDisconnect
    \/ SceneReconnect
    \/ NewNote
    \/ \E row \in 1..Cardinality(counted) : EditNote(row)
    \/ Back
    \/ SwipeGivenUp
    \/ CellForRowTraps
    \/ ViewDidAppear
    \/ \E ok \in BOOLEAN :
          \/ \E text \in Texts : \/ SaveEdit(text, ok)
                                 \/ \E n \in Notes : SaveNewNote(n, text, ok)
          \/ DelteNote(ok)

Spec == Init /\ [][Next]_vars

-----------------------------------------------------------------------------

(* Nothing is lost when the system ends an app the user has left: in the   *)
(* background the store holds all that the context holds, a failed save of *)
(* an earlier moment included.                                             *)
BackgroundIsSaved ==
    scene \in {"background", "disconnected"} => ctx = store /\ ~hasChanges

(* A row the table asks for is there, except that those of the note on the *)
(* detail screen may be gone until the table appears, and that after a pop *)
(* by code one more may have come.  Once it has appeared, whatever saves   *)
(* failed or swipes were given up before, the rows that the table counted  *)
(* are those it looks up.                                                  *)
CountedRowsAreThere ==
    LET rows == nonDeleteNotes(noteList, ctx)
        mine == {i \in 1..Len(noteList) : noteList[i] = selectedNote}
    IN  scene # "off" =>
            \/ counted = rows
            \/ screen # "list" /\ counted \ mine = rows
            \/ screen = "popped" /\ rows = counted \cup {Len(noteList)}

(* What is on the list outlives the process: no note is listed before it   *)
(* has been saved once.                                                    *)
ListedIsStored == Listed(noteList) \subseteq DOMAIN store

(* No step removes a note from the store or takes a deletion back.         *)
DeletionIsFinal ==
    [][\A n \in DOMAIN store :
          /\ n \in DOMAIN store'
          /\ store[n].deleted => store'[n].deleted
          /\ store'[n].id = store[n].id]_vars

(* While nothing throws in a process, the list is the store: every note is *)
(* on it, and, unless the scene came back in this process, once.           *)
ListMirrorsStore ==
    thrown # "now" /\ scene # "off" =>
        /\ Listed(noteList) = DOMAIN store
        /\ reconnected # "now" => IsDistinct(noteList)

(* ids are given out by counting the list: they stay unique as long as     *)
(* nothing throws and no reconnect ever made the list longer than the      *)
(* store (a later process, its list short again, gives those ids anew).    *)
IdsAreUnique ==
    thrown = "never" /\ reconnected = "never" =>
        \A m, n \in DOMAIN store : m # n => store[m].id # store[n].id

Abstract == INSTANCE NoteStore WITH
    text <- [n \in DOMAIN store |-> store[n].text],
    marked <- {n \in DOMAIN store : store[n].deleted},
    behind <- scene # "off" /\ hasChanges

(* Each save writes the one note it is about; when it throws, what it was  *)
(* to write waits for a later save, or is lost with the process.           *)
ImplementsNoteStore == Abstract!NoteStoreSpec

=============================================================================
