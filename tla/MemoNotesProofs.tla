--------------------------- MODULE MemoNotesProofs ---------------------------
(***************************************************************************)
(* What MemoNotes keeps safe, for every set of notes and of texts, whether *)
(* or not Core Data throws.  Everything rests on one relation: the context *)
(* holds at least what the store holds, with the same ids and no deletion  *)
(* taken back, whatever failed before; a save that succeeds, late or not,  *)
(* can then only add to the store.                                         *)
(***************************************************************************)
EXTENDS MemoNotes, FiniteSetTheorems, SequenceTheorems, TLAPS

(* d holds all notes of c, under their ids and with their deletions.       *)
Grows(c, d) ==
    \A n \in DOMAIN c :
        /\ n \in DOMAIN d
        /\ c[n].deleted => d[n].deleted
        /\ d[n].id = c[n].id

IsObjects(c) == IsNotes(c) /\ IsFiniteSet(DOMAIN c)

IInv ==
    /\ IsObjects(store)
    /\ IsObjects(ctx)
    /\ Grows(store, ctx)
    /\ ~hasChanges => ctx = store
    /\ scene \in {"background", "disconnected"} => ~hasChanges
    /\ noteList \in Seq(DOMAIN store)

-----------------------------------------------------------------------------

LEMMA GrowsSelf == ASSUME NEW c PROVE Grows(c, c)
BY DEF Grows

LEMMA GrowsOn ==
    ASSUME NEW c, NEW d, NEW e, Grows(c, d), Grows(d, e)
    PROVE  Grows(c, e)
BY Zenon DEF Grows

LEMMA LargerSeq ==
    ASSUME NEW S, NEW T, S \subseteq T, NEW s \in Seq(S)
    PROVE  s \in Seq(T)
OBVIOUS

LEMMA GrownDomain ==
    ASSUME NEW c, NEW d, Grows(c, d)
    PROVE  DOMAIN c \subseteq DOMAIN d
BY Zenon DEF Grows

(* What fetch() answers is a list of objects of the context.               *)
LEMMA FetchedType ==
    ASSUME NEW c, IsObjects(c),
           NEW ok \in BOOLEAN, NEW list \in IF ok THEN Fetched(c) ELSE {<<>>}
    PROVE  list \in Seq(DOMAIN c)
<1>1. Cardinality(DOMAIN c) \in Nat
  BY FS_CardinalityType DEF IsObjects
<1>2. CASE list \in Fetched(c)
  <2>1. list \in [1..Cardinality(DOMAIN c) -> DOMAIN c]
    BY <1>2, Zenon DEF Fetched
  <2> QED
    BY <1>1, <2>1
<1>3. CASE list = <<>>
  BY <1>3
<1>4. list \in Fetched(c) \/ list = <<>>
  BY Zenon
<1> QED
  BY <1>2, <1>3, <1>4, Zenon

(* A save that succeeds writes all of the context, one that throws leaves  *)
(* the store: either way the store grows, and stays below the context.     *)
LEMMA AfterSave ==
    ASSUME IInv, NEW ok \in BOOLEAN, ContextSave(ok),
           IsObjects(ctx'), Grows(ctx, ctx')
    PROVE  /\ IsObjects(store')
           /\ Grows(store, store')
           /\ Grows(store', ctx')
           /\ ~hasChanges' => ctx' = store'
<1>1. CASE ok
  <2>1. store' = ctx'
    BY <1>1, Zenon DEF ContextSave
  <2>2. Grows(store, ctx')
    BY GrowsOn, Zenon DEF IInv
  <2>3. Grows(store', ctx')
    BY <2>1, GrowsSelf, Zenon
  <2>4. Grows(store, store')
    BY <2>1, <2>2, Zenon
  <2> QED
    BY <2>1, <2>3, <2>4, Zenon
<1>2. CASE ~ok
  <2>1. store' = store /\ hasChanges'
    BY <1>2, Zenon DEF ContextSave
  <2>2. Grows(store, ctx')
    BY GrowsOn, Zenon DEF IInv
  <2>3. Grows(store', ctx')
    BY <2>1, <2>2, Zenon
  <2>4. Grows(store, store')
    BY <2>1, GrowsSelf, Zenon
  <2>5. IsObjects(store')
    BY <2>1, Zenon DEF IInv
  <2> QED
    BY <2>1, <2>3, <2>4, <2>5, Zenon
<1> QED
  BY <1>1, <1>2, Zenon

(* One attribute of one note is set.                                       *)
LEMMA SetText ==
    ASSUME NEW c, IsObjects(c), NEW n, NEW text \in Texts
    PROVE  LET d == [c EXCEPT ![n].text = text]
           IN  IsObjects(d) /\ Grows(c, d)
<1> DEFINE d == [c EXCEPT ![n].text = text]
<1>1. /\ DOMAIN c \subseteq Notes
      /\ c \in [DOMAIN c -> Attributes]
      /\ IsFiniteSet(DOMAIN c)
  BY Zenon DEF IsObjects, IsNotes
<1>2. DOMAIN d = DOMAIN c
  BY <1>1
<1>3. ASSUME NEW m \in DOMAIN c
      PROVE  d[m] \in Attributes /\ d[m].id = c[m].id /\ d[m].deleted = c[m].deleted
  <2>1. c[m] \in Attributes
    BY <1>1
  <2>2. d[m] = IF m = n THEN [c[m] EXCEPT !.text = text] ELSE c[m]
    BY <1>1
  <2> QED
    BY <2>1, <2>2 DEF Attributes
<1>4. d \in [DOMAIN d -> Attributes]
  BY <1>1, <1>2, <1>3
<1>5. IsObjects(d)
  BY <1>1, <1>2, <1>4, Zenon DEF IsObjects, IsNotes
<1>6. Grows(c, d)
  BY <1>2, <1>3, Zenon DEF Grows
<1> QED
  BY <1>5, <1>6

LEMMA SetDeleted ==
    ASSUME NEW c, IsObjects(c), NEW n
    PROVE  LET d == [c EXCEPT ![n].deleted = TRUE]
           IN  IsObjects(d) /\ Grows(c, d)
<1> DEFINE d == [c EXCEPT ![n].deleted = TRUE]
<1>1. /\ DOMAIN c \subseteq Notes
      /\ c \in [DOMAIN c -> Attributes]
      /\ IsFiniteSet(DOMAIN c)
  BY Zenon DEF IsObjects, IsNotes
<1>2. DOMAIN d = DOMAIN c
  BY <1>1
<1>3. ASSUME NEW m \in DOMAIN c
      PROVE  /\ d[m] \in Attributes
             /\ d[m].id = c[m].id
             /\ c[m].deleted => d[m].deleted
  <2>1. c[m] \in Attributes
    BY <1>1
  <2>2. d[m] = IF m = n THEN [c[m] EXCEPT !.deleted = TRUE] ELSE c[m]
    BY <1>1
  <2>3. CASE m = n
    <3>1. /\ [c[m] EXCEPT !.deleted = TRUE] \in Attributes
          /\ [c[m] EXCEPT !.deleted = TRUE].id = c[m].id
          /\ [c[m] EXCEPT !.deleted = TRUE].deleted
      BY <2>1 DEF Attributes
    <3> QED
      BY <3>1, <2>2, <2>3, Zenon
  <2>4. CASE m # n
    BY <2>1, <2>2, <2>4, Zenon
  <2> QED
    BY <2>3, <2>4, Zenon
<1>4. d \in [DOMAIN d -> Attributes]
  BY <1>1, <1>2, <1>3
<1>5. IsObjects(d)
  BY <1>1, <1>2, <1>4, Zenon DEF IsObjects, IsNotes
<1>6. Grows(c, d)
  BY <1>2, <1>3, Zenon DEF Grows
<1> QED
  BY <1>5, <1>6

LEMMA InsertedGrows ==
    ASSUME NEW c, IsObjects(c), NEW newNote \in Notes \ DOMAIN c,
           NEW text \in Texts, Len(noteList) \in Nat
    PROVE  /\ IsObjects(Inserted(c, newNote, text))
           /\ Grows(c, Inserted(c, newNote, text))
           /\ newNote \in DOMAIN Inserted(c, newNote, text)
<1> DEFINE d == Inserted(c, newNote, text)
<1>1. /\ DOMAIN c \subseteq Notes
      /\ c \in [DOMAIN c -> Attributes]
      /\ IsFiniteSet(DOMAIN c)
  BY Zenon DEF IsObjects, IsNotes
<1>2. DOMAIN d = DOMAIN c \cup {newNote}
  BY DEF Inserted
<1>3. IsFiniteSet(DOMAIN d)
  BY <1>1, <1>2, FS_AddElement, Zenon
<1>4. ASSUME NEW m \in DOMAIN c PROVE d[m] = c[m]
  BY DEF Inserted
<1>5. d[newNote] \in Attributes
  BY DEF Inserted, Attributes
<1>6. d = [m \in DOMAIN d |-> d[m]]
  BY <1>2 DEF Inserted
<1>7. d \in [DOMAIN d -> Attributes]
  BY <1>1, <1>2, <1>4, <1>5, <1>6
<1>8. IsObjects(d)
  BY <1>1, <1>2, <1>3, <1>7 DEF IsObjects, IsNotes
<1>9. Grows(c, d)
  BY <1>2, <1>4 DEF Grows
<1> QED
  BY <1>2, <1>8, <1>9

-----------------------------------------------------------------------------

LEMMA Initially == Init => IInv
<1> SUFFICES ASSUME Init PROVE IInv
  OBVIOUS
<1>1. /\ store = [n \in {} |-> {}]
      /\ ctx = store
      /\ noteList = <<>>
      /\ scene = "off"
  BY Zenon DEF Init
<1>2. DOMAIN store = {}
  BY <1>1
<1>3. IsObjects(store)
  BY <1>1, <1>2, FS_EmptySet DEF IsObjects, IsNotes
<1>4. Grows(store, ctx)
  BY <1>1, GrowsSelf, Zenon
<1>5. noteList \in Seq(DOMAIN store)
  BY <1>1
<1>6. scene \notin {"background", "disconnected"}
  BY <1>1
<1> QED
  BY <1>1, <1>3, <1>4, <1>5, <1>6, Zenon DEF IInv

(* A step of the detail screen that saves, the list as it was or with one  *)
(* note more that has been saved.                                          *)
LEMMA DetailSaves ==
    ASSUME IInv, NEW ok \in BOOLEAN, OnDetail, ContextSave(ok), scene' = scene,
           IsObjects(ctx'), Grows(ctx, ctx'),
           \/ noteList' = noteList
           \/ ok /\ \E n \in DOMAIN ctx' : noteList' = Append(noteList, n)
    PROVE  IInv' /\ Grows(store, store')
<1>1. /\ IsObjects(store')
      /\ Grows(store, store')
      /\ Grows(store', ctx')
      /\ ~hasChanges' => ctx' = store'
  BY AfterSave, Zenon
<1>2. noteList \in Seq(DOMAIN store')
  BY <1>1, GrownDomain, LargerSeq DEF IInv
<1>3. noteList' \in Seq(DOMAIN store')
  <2>1. CASE noteList' = noteList
    BY <2>1, <1>2, Zenon
  <2>2. ASSUME ok, NEW n \in DOMAIN ctx', noteList' = Append(noteList, n)
        PROVE  noteList' \in Seq(DOMAIN store')
    <3>1. store' = ctx'
      BY <2>2, Zenon DEF ContextSave
    <3> QED
      BY <3>1, <2>2, <1>2
  <2> QED
    BY <2>1, <2>2, Zenon
<1>4. scene' \notin {"background", "disconnected"}
  BY DEF OnDetail
<1> QED
  BY <1>1, <1>3, <1>4, Zenon DEF IInv

(* A step that leaves the notes alone and takes the scene to s.            *)
LEMMA NotesUnchanged ==
    ASSUME IInv, UNCHANGED <<store, memory>>,
           scene' \in {"background", "disconnected"} =>
               scene \in {"background", "disconnected"}
    PROVE  IInv' /\ Grows(store, store')
<1>1. /\ store' = store /\ ctx' = ctx
      /\ hasChanges' = hasChanges /\ noteList' = noteList
  BY Zenon DEF memory
<1>2. Grows(store, store')
  BY <1>1, GrowsSelf, Zenon
<1>3. Grows(store', ctx') /\ IsObjects(store') /\ IsObjects(ctx')
  BY <1>1, Zenon DEF IInv
<1>4. noteList' \in Seq(DOMAIN store')
  BY <1>1, Zenon DEF IInv
<1> QED
  BY <1>1, <1>2, <1>3, <1>4, Zenon DEF IInv

LEMMA Preserved == IInv /\ [Next]_vars => IInv' /\ Grows(store, store')
<1> SUFFICES ASSUME IInv, [Next]_vars PROVE IInv' /\ Grows(store, store')
  OBVIOUS
<1>1. CASE Launch
  <2>1. /\ store' = store /\ ctx' = store /\ hasChanges' = FALSE
        /\ scene' = "foreground"
        /\ TableLoads(<<>>, store, Earlier(thrown))
    BY <1>1, Zenon DEF Launch
  <2>2. PICK ok \in BOOLEAN :
            \E list \in IF ok THEN Fetched(store) ELSE {<<>>} : noteList' = <<>> \o list
    BY <2>1, Zenon DEF TableLoads
  <2> PICK list \in IF ok THEN Fetched(store) ELSE {<<>>} : noteList' = <<>> \o list
    BY <2>2
  <2>3. list \in Seq(DOMAIN store)
    BY FetchedType, Zenon DEF IInv
  <2>4. noteList' \in Seq(DOMAIN store')
    BY <2>1, <2>3
  <2>5. Grows(store, store') /\ Grows(store', ctx')
    BY <2>1, GrowsSelf, Zenon
  <2>6. scene' \notin {"background", "disconnected"}
    BY <2>1
  <2> QED
    BY <2>1, <2>4, <2>5, <2>6, Zenon DEF IInv
<1>2. CASE Kill
  <2>1. scene' \notin {"background", "disconnected"}
    BY <1>2 DEF Kill
  <2> QED
    BY <1>2, <2>1, NotesUnchanged, Zenon DEF Kill
<1>3. CASE EnterBackground
  <2>1. ctx' = ctx /\ noteList' = noteList
    BY <1>3, Zenon DEF EnterBackground
  <2>2. Grows(ctx, ctx') /\ IsObjects(ctx')
    BY <2>1, GrowsSelf, Zenon DEF IInv
  <2>3. /\ IsObjects(store')
        /\ Grows(store, store')
        /\ Grows(store', ctx')
        /\ ~hasChanges' /\ ctx' = store'
    <3>1. CASE hasChanges
      <4>1. ContextSave(TRUE)
        BY <1>3, <3>1, Zenon DEF EnterBackground, saveContext
      <4>2. ~hasChanges'
        BY <4>1, Zenon DEF ContextSave
      <4> QED
        BY <4>1, <4>2, <2>2, AfterSave, Zenon
    <3>2. CASE ~hasChanges
      <4>1. store' = store /\ hasChanges' = hasChanges
        BY <1>3, <3>2, Zenon DEF EnterBackground, saveContext
      <4> QED
        BY <4>1, <3>2, <2>1, GrowsSelf, Zenon DEF IInv
    <3> QED
      BY <3>1, <3>2, Zenon
  <2>4. noteList' \in Seq(DOMAIN store')
    BY <2>1, <2>3, GrownDomain, LargerSeq DEF IInv
  <2> QED
    BY <2>2, <2>3, <2>4, Zenon DEF IInv
<1>4. CASE SaveContextTraps
  <2>1. scene' \notin {"background", "disconnected"}
    BY <1>4 DEF SaveContextTraps
  <2> QED
    BY <1>4, <2>1, NotesUnchanged, Zenon DEF SaveContextTraps
<1>5. CASE EnterForeground
  <2>1. scene' \notin {"background", "disconnected"}
    BY <1>5 DEF EnterForeground
  <2> QED
    BY <1>5, <2>1, NotesUnchanged, Zenon DEF EnterForeground
<1>6. CASE SceneDisconnect
  <2>1. scene \in {"background", "disconnected"}
    BY <1>6 DEF SceneDisconnect
  <2> QED
    BY <1>6, <2>1, NotesUnchanged, Zenon DEF SceneDisconnect
<1>7. CASE SceneReconnect
  <2>1. /\ store' = store /\ ctx' = ctx /\ hasChanges' = hasChanges
        /\ scene = "disconnected" /\ scene' = "foreground"
        /\ TableLoads(noteList, ctx, thrown)
    BY <1>7, Zenon DEF SceneReconnect
  <2>2. PICK ok \in BOOLEAN :
            \E list \in IF ok THEN Fetched(ctx) ELSE {<<>>} : noteList' = noteList \o list
    BY <2>1, Zenon DEF TableLoads
  <2> PICK list \in IF ok THEN Fetched(ctx) ELSE {<<>>} : noteList' = noteList \o list
    BY <2>2
  <2>3. ctx = store
    BY <2>1 DEF IInv
  <2>4. list \in Seq(DOMAIN store) /\ noteList \in Seq(DOMAIN store)
    BY <2>3, FetchedType, Zenon DEF IInv
  <2>5. noteList' \in Seq(DOMAIN store')
    BY <2>1, <2>4
  <2>6. Grows(store, store') /\ Grows(store', ctx')
    BY <2>1, <2>3, GrowsSelf, Zenon
  <2>7. scene' \notin {"background", "disconnected"}
    BY <2>1
  <2> QED
    BY <2>1, <2>3, <2>5, <2>6, <2>7, Zenon DEF IInv
<1>8. CASE NewNote
  BY <1>8, NotesUnchanged, Zenon DEF NewNote
<1>9. ASSUME NEW row \in 1..Cardinality(counted), EditNote(row)
      PROVE  IInv' /\ Grows(store, store')
  BY <1>9, NotesUnchanged, Zenon DEF EditNote
<1>10. CASE Back \/ SwipeGivenUp \/ ViewDidAppear
  BY <1>10, NotesUnchanged, Zenon DEF Back, SwipeGivenUp, ViewDidAppear
<1>15. CASE CellForRowTraps
  <2>1. scene' \notin {"background", "disconnected"}
    BY <1>15 DEF CellForRowTraps
  <2> QED
    BY <1>15, <2>1, NotesUnchanged, Zenon DEF CellForRowTraps
<1>11. ASSUME NEW ok \in BOOLEAN, NEW text \in Texts, SaveEdit(text, ok)
       PROVE  IInv' /\ Grows(store, store')
  <2>1. IsObjects(ctx') /\ Grows(ctx, ctx')
    BY <1>11, SetText, Zenon DEF SaveEdit, IInv
  <2>2. OnDetail /\ ContextSave(ok) /\ scene' = scene /\ noteList' = noteList
    BY <1>11, Zenon DEF SaveEdit
  <2> QED
    BY <2>1, <2>2, DetailSaves, Zenon
<1>12. ASSUME NEW ok \in BOOLEAN, NEW text \in Texts, NEW n \in Notes,
              SaveNewNote(n, text, ok)
       PROVE  IInv' /\ Grows(store, store')
  <2>1. /\ n \notin DOMAIN ctx /\ ctx' = Inserted(ctx, n, text)
        /\ OnDetail /\ ContextSave(ok) /\ scene' = scene
        /\ noteList' = IF ok THEN Append(noteList, n) ELSE noteList
    BY <1>12, Zenon DEF SaveNewNote
  <2>2. Len(noteList) \in Nat
    BY DEF IInv
  <2>3. IsObjects(ctx') /\ Grows(ctx, ctx') /\ n \in DOMAIN ctx'
    BY <2>1, <2>2, InsertedGrows DEF IInv
  <2>4. CASE ok
    BY <2>1, <2>3, <2>4, DetailSaves, Zenon
  <2>5. CASE ~ok
    BY <2>1, <2>3, <2>5, DetailSaves, Zenon
  <2> QED
    BY <2>4, <2>5, Zenon
<1>13. ASSUME NEW ok \in BOOLEAN, DelteNote(ok)
       PROVE  IInv' /\ Grows(store, store')
  <2>1. IsObjects(ctx') /\ Grows(ctx, ctx')
    BY <1>13, SetDeleted, Zenon DEF DelteNote, IInv
  <2>2. OnDetail /\ ContextSave(ok) /\ scene' = scene /\ noteList' = noteList
    BY <1>13, Zenon DEF DelteNote
  <2> QED
    BY <2>1, <2>2, DetailSaves, Zenon
<1>14. CASE UNCHANGED vars
  BY <1>14, NotesUnchanged, Zenon DEF vars
<1> QED
  BY <1>1, <1>2, <1>3, <1>4, <1>5, <1>6, <1>7, <1>8, <1>9, <1>10, <1>11,
     <1>12, <1>13, <1>14, <1>15, Zenon DEF Next

LEMMA Inductive == Spec => []IInv
<1>1. IInv /\ [Next]_vars => IInv'
  BY Preserved, Zenon
<1> QED
  BY <1>1, Initially, PTL DEF Spec

-----------------------------------------------------------------------------

(* Once the app is in the background its store holds all that its context  *)
(* holds, failed saves of earlier moments included.                        *)
THEOREM BackgroundSaved == Spec => []BackgroundIsSaved
<1>1. IInv => BackgroundIsSaved
  BY Zenon DEF IInv, BackgroundIsSaved
<1> QED
  BY <1>1, Inductive, PTL

(* No note is on the list before it has been saved once.                   *)
THEOREM ListedStored == Spec => []ListedIsStored
<1>1. IInv => ListedIsStored
  BY DEF IInv, ListedIsStored, Listed
<1> QED
  BY <1>1, Inductive, PTL

(* No step removes a note from the store, gives it another id or takes its *)
(* deletion back.                                                          *)
THEOREM DeletionsFinal == Spec => DeletionIsFinal
<1>1. IInv /\ [Next]_vars =>
        [\A n \in DOMAIN store :
            /\ n \in DOMAIN store'
            /\ store[n].deleted => store'[n].deleted
            /\ store'[n].id = store[n].id]_vars
  BY Preserved, Zenon DEF Grows
<1> QED
  BY <1>1, Inductive, PTL DEF Spec, DeletionIsFinal

-----------------------------------------------------------------------------

(* The table's rows, while the list is one of notes of the context.        *)
Mine(list, n) == {i \in 1..Len(list) : list[i] = n}

(* A step that keeps the table's count, the list and the deletions.        *)
LEMMA RowsKept ==
    ASSUME IInv, CountedRowsAreThere, scene # "off", UNCHANGED <<noteList, counted>>,
           \A n \in DOMAIN store : ctx'[n].deleted = ctx[n].deleted,
           \/ UNCHANGED <<screen, selectedNote>>
           \/ screen = "list"
           \/ screen' = "popped" /\ selectedNote' = selectedNote
           \/ screen = "detail" /\ screen' = "swiped" /\ selectedNote' = selectedNote
           \/ screen = "swiped" /\ screen' = "detail" /\ selectedNote' = selectedNote
    PROVE  CountedRowsAreThere'
<1>1. noteList \in Seq(DOMAIN store)
  BY DEF IInv
<1>2. nonDeleteNotes(noteList', ctx') = nonDeleteNotes(noteList, ctx)
  BY <1>1 DEF nonDeleteNotes
<1> QED
  BY <1>2, Zenon DEF CountedRowsAreThere

(* The note on the detail screen is marked as deleted.                     *)
LEMMA RowsDeleted ==
    ASSUME IInv, CountedRowsAreThere, OnDetail, selectedNote # NoNote,
           ctx' = [ctx EXCEPT ![selectedNote].deleted = TRUE],
           UNCHANGED <<noteList, counted, selectedNote>>, screen' # "list"
    PROVE  CountedRowsAreThere'
<1> DEFINE rows == nonDeleteNotes(noteList, ctx)
           rowsThen == nonDeleteNotes(noteList, ctx')
           mine == Mine(noteList, selectedNote)
<1>1. /\ noteList \in Seq(DOMAIN store)
      /\ DOMAIN store \subseteq DOMAIN ctx
      /\ ctx \in [DOMAIN ctx -> Attributes]
  BY GrownDomain DEF IInv, IsObjects, IsNotes
<1>2. \A n \in DOMAIN ctx :
          ctx'[n].deleted <=> (n = selectedNote \/ ctx[n].deleted)
  BY <1>1 DEF Attributes
<1>3. rowsThen = rows \ mine
  BY <1>1, <1>2 DEF nonDeleteNotes, Mine
<1>4. counted = rows \/ counted \ mine = rows
  BY DEF CountedRowsAreThere, OnDetail, Mine
<1>5. counted \ mine = rowsThen
  BY <1>3, <1>4, Zenon
<1>6. nonDeleteNotes(noteList', ctx') = rowsThen /\ Mine(noteList', selectedNote') = mine
  OBVIOUS
<1> QED
  BY <1>5, <1>6, Zenon DEF CountedRowsAreThere, Mine

(* A new note is in the context, and at the end of the list if saved.      *)
LEMMA RowsInserted ==
    ASSUME IInv, CountedRowsAreThere, OnDetail, selectedNote = NoNote, UNCHANGED counted,
           NEW n \in Notes, NEW text, n \notin DOMAIN ctx, ctx' = Inserted(ctx, n, text),
           NEW ok \in BOOLEAN, noteList' = IF ok THEN Append(noteList, n) ELSE noteList,
           PopAfter(ok)
    PROVE  CountedRowsAreThere'
<1> DEFINE rows == nonDeleteNotes(noteList, ctx)
<1>1. /\ noteList \in Seq(DOMAIN store) /\ Len(noteList) \in Nat
      /\ DOMAIN store \subseteq DOMAIN ctx
      /\ DOMAIN ctx \subseteq Notes
  BY GrownDomain DEF IInv, IsObjects, IsNotes
<1>2. Mine(noteList, selectedNote) = {}
  BY <1>1, MemoAssumption DEF Mine
<1>3. counted = rows
  BY <1>2 DEF CountedRowsAreThere, OnDetail, Mine
<1>4. ~ctx'[n].deleted /\ \A m \in DOMAIN ctx : ctx'[m] = ctx[m]
  BY DEF Inserted
<1>5. CASE ok
  <2>1. screen' = "popped" /\ noteList' = Append(noteList, n)
    BY <1>5 DEF PopAfter
  <2>2. /\ Len(noteList') = Len(noteList) + 1
        /\ noteList'[Len(noteList) + 1] = n
        /\ \A i \in 1..Len(noteList) : noteList'[i] = noteList[i] /\ noteList[i] \in DOMAIN ctx
    BY <1>1, <2>1
  <2>3. nonDeleteNotes(noteList', ctx') = rows \cup {Len(noteList')}
    BY <1>1, <1>4, <2>2 DEF nonDeleteNotes
  <2>4. nonDeleteNotes(noteList', ctx') = counted' \cup {Len(noteList')}
    BY <1>3, <2>3
  <2> QED
    BY <2>1, <2>4, Zenon DEF CountedRowsAreThere
<1>6. CASE ~ok
  <2>1. noteList' = noteList
    BY <1>6
  <2>2. nonDeleteNotes(noteList', ctx') = rows
    BY <1>1, <1>4, <2>1 DEF nonDeleteNotes
  <2> QED
    BY <1>3, <2>2, Zenon DEF CountedRowsAreThere
<1> QED
  BY <1>5, <1>6

LEMMA RowsPreserved ==
    ASSUME IInv, CountedRowsAreThere, [Next]_vars
    PROVE  CountedRowsAreThere'
<1>1. ASSUME counted' = nonDeleteNotes(noteList', ctx') PROVE CountedRowsAreThere'
  BY <1>1, Zenon DEF CountedRowsAreThere
<1>2. ASSUME scene' = "off" PROVE CountedRowsAreThere'
  BY <1>2, Zenon DEF CountedRowsAreThere
<1>3. CASE Launch
  BY <1>3, <1>1, Zenon DEF Launch, TableLoads, Reload
<1>4. CASE Kill \/ SaveContextTraps \/ CellForRowTraps
  BY <1>4, <1>2, Zenon DEF Kill, SaveContextTraps, CellForRowTraps
<1>5. CASE EnterBackground \/ EnterForeground \/ SceneDisconnect
  <2>1. UNCHANGED <<ctx, noteList, counted, screen, selectedNote>> /\ scene # "off"
    BY <1>5 DEF EnterBackground, EnterForeground, SceneDisconnect, memory, view
  <2> QED
    BY <2>1, RowsKept
<1>6. CASE SceneReconnect
  <2>1. ctx' = ctx /\ TableLoads(noteList, ctx, thrown)
    BY <1>6, Zenon DEF SceneReconnect
  <2> QED
    BY <2>1, <1>1, Zenon DEF TableLoads, Reload
<1>7. CASE NewNote
  <2>1. UNCHANGED <<ctx, noteList, counted>> /\ scene # "off" /\ screen = "list"
    BY <1>7 DEF NewNote, OnList, memory
  <2> QED
    BY <2>1, RowsKept
<1>8. ASSUME NEW row \in 1..Cardinality(counted), EditNote(row)
      PROVE  CountedRowsAreThere'
  <2>1. UNCHANGED <<ctx, noteList, counted>> /\ scene # "off" /\ screen = "list"
    BY <1>8 DEF EditNote, OnList, memory
  <2> QED
    BY <2>1, RowsKept
<1>9. CASE Back
  <2>1. /\ UNCHANGED <<ctx, noteList, counted, selectedNote>> /\ scene # "off"
        /\ screen = "detail" /\ screen' \in {"popped", "swiped"}
    BY <1>9 DEF Back, OnDetail, memory
  <2> QED
    BY <2>1, RowsKept
<1>10. CASE SwipeGivenUp
  <2>1. /\ UNCHANGED <<ctx, noteList, counted, selectedNote>> /\ scene # "off"
        /\ screen = "swiped" /\ screen' = "detail"
    BY <1>10 DEF SwipeGivenUp, memory
  <2> QED
    BY <2>1, RowsKept
<1>11. CASE ViewDidAppear
  <2>1. ctx' = ctx /\ noteList' = noteList /\ counted' = nonDeleteNotes(noteList, ctx)
    BY <1>11, Zenon DEF ViewDidAppear, Reload, memory
  <2> QED
    BY <2>1, <1>1, Zenon
<1>12. ASSUME NEW ok \in BOOLEAN, NEW text \in Texts, SaveEdit(text, ok)
       PROVE  CountedRowsAreThere'
  <2>1. /\ UNCHANGED <<noteList, counted, selectedNote>> /\ scene # "off"
        /\ screen' = screen \/ screen' = "popped"
        /\ ctx' = [ctx EXCEPT ![selectedNote].text = text]
    BY <1>12 DEF SaveEdit, OnDetail, PopAfter
  <2>2. /\ DOMAIN store \subseteq DOMAIN ctx
        /\ ctx \in [DOMAIN ctx -> Attributes]
    BY GrownDomain DEF IInv, IsObjects, IsNotes
  <2>3. \A n \in DOMAIN store : ctx'[n].deleted = ctx[n].deleted
    BY <2>1, <2>2 DEF Attributes
  <2> QED
    BY <2>1, <2>3, RowsKept
<1>13. ASSUME NEW ok \in BOOLEAN, NEW text \in Texts, NEW n \in Notes,
              SaveNewNote(n, text, ok)
       PROVE  CountedRowsAreThere'
  BY <1>13, RowsInserted, Zenon DEF SaveNewNote, PopAfter
<1>14. ASSUME NEW ok \in BOOLEAN, DelteNote(ok)
       PROVE  CountedRowsAreThere'
  <2>1. screen' # "list" /\ UNCHANGED <<counted, selectedNote>>
    BY <1>14 DEF DelteNote, PopAfter, OnDetail
  <2> QED
    BY <1>14, <2>1, RowsDeleted, Zenon DEF DelteNote
<1>15. CASE UNCHANGED vars
  BY <1>15, Zenon DEF vars, memory, view, CountedRowsAreThere
<1> QED
  BY <1>3, <1>4, <1>5, <1>6, <1>7, <1>8, <1>9, <1>10, <1>11, <1>12, <1>13, <1>14,
     <1>15, Zenon DEF Next

(* A row that the table counted is gone only while a pop after a deletion  *)
(* is under way or its note is still on the detail screen; once the table  *)
(* has appeared, what it counted is what it looks up.                      *)
THEOREM RowsThere == Spec => []CountedRowsAreThere
<1>1. Init => CountedRowsAreThere
  BY Zenon DEF Init, CountedRowsAreThere
<1> QED
  BY <1>1, RowsPreserved, Inductive, PTL DEF Spec

-----------------------------------------------------------------------------
(* The rows are positions of the list, and so a longer list has them too.  *)
LEMMA RowsType ==
    ASSUME NEW list, NEW c
    PROVE  nonDeleteNotes(list, c) \subseteq 1..Len(list)
BY DEF nonDeleteNotes

Whens == {"never", "earlier", "now"}

(* A table that loads.                                                     *)
LEMMA LoadType ==
    ASSUME NEW S, NEW old, NEW c, NEW when \in Whens, TableLoads(old, c, when)
    PROVE  /\ screen' = "list" /\ selectedNote' = NoNote
           /\ counted' \subseteq 1..Len(noteList')
           /\ thrown' \in Whens
BY RowsType DEF TableLoads, Reload, Noting, Whens

(* A step of the detail screen that saves keeps the types of the view.     *)
LEMMA DetailType ==
    ASSUME IInv, TypeOK, IInv', NEW ok \in BOOLEAN, ContextSave(ok), Grows(ctx, ctx'),
           PopAfter(ok), UNCHANGED <<scene, reconnected>>,
           noteList' = noteList \/ \E n \in Notes : noteList' = Append(noteList, n)
    PROVE  TypeOK'
<1>1. hasChanges' \in BOOLEAN /\ thrown' \in Whens /\ reconnected' \in Whens
  BY DEF ContextSave, Noting, TypeOK, Whens
<1>2. IsNotes(store') /\ IsNotes(ctx') /\ noteList' \in Seq(DOMAIN store')
  BY DEF IInv, IsObjects
<1>3. noteList' \in Seq(DOMAIN ctx')
  BY <1>2, GrownDomain, LargerSeq DEF IInv
<1>4. selectedNote' \in DOMAIN ctx' \cup {NoNote}
  BY GrownDomain, Zenon DEF PopAfter, TypeOK
<1>5. screen' \in {"list", "detail", "popped", "swiped"}
  BY DEF PopAfter, TypeOK
<1>6. counted' \subseteq 1..Len(noteList')
  <2>1. counted' = counted /\ counted \subseteq 1..Len(noteList) /\ noteList \in Seq(DOMAIN store)
    BY DEF PopAfter, TypeOK, IInv
  <2>2. Len(noteList') = Len(noteList) \/ Len(noteList') = Len(noteList) + 1
    BY <2>1
  <2>3. Len(noteList) \in Nat
    BY <2>1
  <2> QED
    BY <2>1, <2>2, <2>3
<1> QED
  BY <1>1, <1>2, <1>3, <1>4, <1>5, <1>6 DEF TypeOK, Whens

LEMMA TypeStep ==
    ASSUME IInv, TypeOK, [Next]_vars
    PROVE  TypeOK'
<1>1. IInv'
  BY Preserved
<1>2. IsNotes(store') /\ IsNotes(ctx') /\ noteList' \in Seq(DOMAIN store')
  BY <1>1 DEF IInv, IsObjects
<1>3. noteList' \in Seq(DOMAIN ctx')
  BY <1>1, <1>2, GrownDomain, LargerSeq DEF IInv
(* The context and the list are kept: so is the selected note.             *)
<1>4. ASSUME UNCHANGED <<ctx, noteList, counted, reconnected>>, hasChanges' \in BOOLEAN,
             selectedNote' \in DOMAIN ctx \cup {NoNote},
             screen' \in {"list", "detail", "popped", "swiped"},
             scene' \in {"off", "foreground", "background", "disconnected"},
             thrown' \in Whens
      PROVE  TypeOK'
  BY <1>4, <1>2, <1>3 DEF TypeOK, Whens
<1>5. CASE Launch
  <2>1. /\ hasChanges' = FALSE /\ scene' = "foreground"
        /\ reconnected' = Earlier(reconnected)
        /\ TableLoads(<<>>, store, Earlier(thrown))
    BY <1>5, Zenon DEF Launch
  <2>2. Earlier(reconnected) \in Whens /\ Earlier(thrown) \in Whens
    BY DEF TypeOK, Earlier, Whens
  <2>3. /\ screen' = "list" /\ selectedNote' = NoNote
        /\ counted' \subseteq 1..Len(noteList') /\ thrown' \in Whens
    BY <2>1, <2>2, LoadType, Zenon
  <2> QED
    BY <1>2, <1>3, <2>1, <2>2, <2>3 DEF TypeOK, Whens
<1>6. CASE Kill \/ SaveContextTraps \/ CellForRowTraps \/ EnterForeground \/ SceneDisconnect
  <2>1. /\ UNCHANGED <<ctx, noteList, hasChanges, screen, selectedNote, counted, reconnected>>
        /\ scene' \in {"off", "foreground", "background", "disconnected"}
        /\ thrown' = thrown \/ thrown' = "now"
    BY <1>6 DEF Kill, SaveContextTraps, CellForRowTraps, EnterForeground, SceneDisconnect,
       memory, view, history
  <2> QED
    BY <2>1, <1>4 DEF TypeOK, Whens
<1>7. CASE EnterBackground
  <2>1. /\ UNCHANGED <<ctx, noteList, screen, selectedNote, counted, reconnected>>
        /\ scene' = "background"
    BY <1>7 DEF EnterBackground, view
  <2>2. hasChanges' \in BOOLEAN /\ thrown' \in Whens
    BY <1>7 DEF EnterBackground, saveContext, ContextSave, Noting, TypeOK, Whens
  <2> QED
    BY <2>1, <2>2, <1>4 DEF TypeOK
<1>8. CASE SceneReconnect
  <2>1. /\ UNCHANGED hasChanges
        /\ scene' = "foreground" /\ reconnected' = "now"
        /\ TableLoads(noteList, ctx, thrown)
    BY <1>8, Zenon DEF SceneReconnect
  <2>2. thrown \in Whens
    BY DEF TypeOK, Whens
  <2>3. /\ screen' = "list" /\ selectedNote' = NoNote
        /\ counted' \subseteq 1..Len(noteList') /\ thrown' \in Whens
    BY <2>1, <2>2, LoadType, Zenon
  <2> QED
    BY <1>2, <1>3, <2>1, <2>3 DEF TypeOK, Whens
<1>9. CASE NewNote \/ Back \/ SwipeGivenUp
  <2>1. /\ UNCHANGED <<ctx, noteList, hasChanges, scene, counted, reconnected, thrown>>
        /\ screen' \in {"detail", "popped", "swiped"}
        /\ selectedNote' = NoNote \/ selectedNote' = selectedNote
    BY <1>9 DEF NewNote, Back, SwipeGivenUp, memory, history
  <2> QED
    BY <2>1, <1>4 DEF TypeOK, Whens
<1>10. ASSUME NEW row \in 1..Cardinality(counted), EditNote(row)
       PROVE  TypeOK'
  <2>1. /\ UNCHANGED <<ctx, noteList, hasChanges, scene, counted, reconnected, thrown>>
        /\ screen' = "detail"
        /\ selectedNote' \in NoteAt(noteList, ctx, row)
    BY <1>10 DEF EditNote, memory, history
  <2>2. selectedNote' \in DOMAIN ctx
    <3>1. NoteAt(noteList, ctx, row) \subseteq {noteList[i] : i \in 1..Len(noteList)}
      BY Zenon DEF NoteAt, nonDeleteNotes
    <3>2. {noteList[i] : i \in 1..Len(noteList)} \subseteq DOMAIN ctx
      BY DEF TypeOK
    <3> QED
      BY <2>1, <3>1, <3>2, Zenon
  <2> QED
    BY <2>1, <2>2, <1>4 DEF TypeOK, Whens
<1>11. CASE ViewDidAppear
  <2>1. /\ UNCHANGED <<ctx, noteList, hasChanges, scene, reconnected, thrown>>
        /\ screen' = "list" /\ selectedNote' = NoNote
        /\ counted' = nonDeleteNotes(noteList, ctx)
    BY <1>11 DEF ViewDidAppear, Reload, memory, history
  <2>2. counted' \subseteq 1..Len(noteList')
    BY <2>1, RowsType
  <2> QED
    BY <2>1, <2>2, <1>2, <1>3 DEF TypeOK
<1>13. ASSUME NEW ok \in BOOLEAN, NEW text \in Texts, SaveEdit(text, ok)
       PROVE  TypeOK'
  <2>1. Grows(ctx, ctx')
    BY <1>13, SetText, Zenon DEF SaveEdit, IInv
  <2> QED
    BY <1>13, <2>1, <1>1, DetailType, Zenon DEF SaveEdit
<1>14. ASSUME NEW ok \in BOOLEAN, NEW text \in Texts, NEW n \in Notes,
              SaveNewNote(n, text, ok)
       PROVE  TypeOK'
  <2>1. n \notin DOMAIN ctx /\ ctx' = Inserted(ctx, n, text)
    BY <1>14, Zenon DEF SaveNewNote
  <2>2. Grows(ctx, ctx')
    BY <2>1, InsertedGrows DEF IInv
  <2> QED
    BY <1>14, <2>2, <1>1, DetailType, Zenon DEF SaveNewNote
<1>15. ASSUME NEW ok \in BOOLEAN, DelteNote(ok)
       PROVE  TypeOK'
  <2>1. Grows(ctx, ctx')
    BY <1>15, SetDeleted, Zenon DEF DelteNote, IInv
  <2> QED
    BY <1>15, <2>1, <1>1, DetailType, Zenon DEF DelteNote
<1>16. CASE UNCHANGED vars
  <2>1. UNCHANGED <<ctx, noteList, hasChanges, scene, screen, selectedNote, counted,
                    reconnected, thrown>>
    BY <1>16 DEF vars, memory, view, history
  <2> QED
    BY <2>1, <1>4 DEF TypeOK, Whens
<1> QED
  BY <1>5, <1>6, <1>7, <1>8, <1>9, <1>10, <1>11, <1>13, <1>14, <1>15, <1>16,
     Zenon DEF Next

(* The notes on disk, in memory and on the screen keep their types: what   *)
(* is listed or selected is always an object of the context.               *)
THEOREM TypeCorrect == Spec => []TypeOK
<1>1. Init => TypeOK
  <2> SUFFICES ASSUME Init PROVE TypeOK
    OBVIOUS
  <2>1. IsNotes(store) /\ IsNotes(ctx) /\ ctx = store /\ noteList \in Seq(DOMAIN store)
    BY Initially DEF IInv, IsObjects, Init
  <2> QED
    BY <2>1 DEF Init, TypeOK
<1>2. IInv /\ TypeOK /\ [Next]_vars => TypeOK'
  BY TypeStep
<1> QED
  BY <1>1, <1>2, Inductive, PTL DEF Spec

-----------------------------------------------------------------------------
(* While Core Data does not throw, memory, list and store agree; that the  *)
(* list counts the notes is what keeps the ids unique.                     *)

Numbered(c) ==
    \A m \in DOMAIN c :
        /\ c[m].id < Cardinality(DOMAIN c)
        /\ \A n \in DOMAIN c : m # n => c[m].id # c[n].id

Mirror ==
    /\ thrown # "now" /\ scene # "off" =>
           /\ ~hasChanges
           /\ Listed(noteList) = DOMAIN store
           /\ reconnected # "now" => IsDistinct(noteList)
    /\ thrown = "never" /\ reconnected = "never" => Numbered(store)

(* What fetch() answers without an error holds every note once.            *)
LEMMA FetchedAll ==
    ASSUME NEW c, IsObjects(c), NEW list \in Fetched(c)
    PROVE  list \in Seq(DOMAIN c) /\ Listed(list) = DOMAIN c /\ IsDistinct(list)
<1> DEFINE k == Cardinality(DOMAIN c)
<1>1. k \in Nat /\ IsFiniteSet(DOMAIN c)
  BY FS_CardinalityType DEF IsObjects
<1>2. list \in [1..k -> DOMAIN c] /\ IsDistinct(list)
  BY Zenon DEF Fetched
<1>3. Cardinality(1..k) = k
  BY <1>1, FS_Interval
<1>4. list \in Seq(DOMAIN c) /\ Len(list) = k
  BY <1>1, <1>2
<1>5. list \in Injection(1..k, DOMAIN c)
  BY <1>2, <1>4 DEF IsDistinct, Injection, IsInjective
<1>6. list \in Surjection(1..k, DOMAIN c)
  BY <1>1, <1>3, <1>5, FS_Injection
<1>7. Listed(list) = DOMAIN c
  BY <1>2, <1>4, <1>6 DEF Listed, Surjection
<1> QED
  BY <1>2, <1>4, <1>7

(* A list that holds every note once is as long as there are notes.        *)
LEMMA ListedCount ==
    ASSUME NEW D, NEW list \in Seq(D), Listed(list) = D, IsDistinct(list)
    PROVE  Len(list) = Cardinality(D)
<1>1. Len(list) \in Nat /\ list \in [1..Len(list) -> D]
  OBVIOUS
<1>2. list \in Bijection(1..Len(list), D)
  BY <1>1 DEF Listed, IsDistinct, Bijection, Injection, Surjection, IsInjective
<1> QED
  BY <1>1, <1>2, FS_CountingElements DEF ExistsBijection

LEMMA ListedTwice ==
    ASSUME NEW D, NEW s \in Seq(D), NEW t \in Seq(D), Listed(s) = D, Listed(t) = D
    PROVE  Listed(s \o t) = D
<1>1. Listed(s \o t) \subseteq D
  BY DEF Listed
<1>2. ASSUME NEW d \in D PROVE d \in Listed(s \o t)
  <2>1. PICK i \in 1..Len(s) : s[i] = d
    BY DEF Listed
  <2>2. i \in 1..Len(s \o t) /\ (s \o t)[i] = d
    BY <2>1
  <2> QED
    BY <2>2 DEF Listed
<1> QED
  BY <1>1, <1>2

(* One note more at the end of the list.                                   *)
LEMMA ListedAppend ==
    ASSUME NEW D, NEW s \in Seq(D), NEW n, n \notin D, Listed(s) = D
    PROVE  /\ Listed(Append(s, n)) = D \cup {n}
           /\ IsDistinct(s) => IsDistinct(Append(s, n))
<1> DEFINE t == Append(s, n)
<1>1. /\ Len(s) \in Nat /\ Len(t) = Len(s) + 1 /\ t[Len(t)] = n
      /\ \A i \in 1..Len(s) : t[i] = s[i] /\ s[i] \in D
  OBVIOUS
<1> HIDE DEF t
<1>2. Listed(t) = D \cup {n}
  <2>1. Listed(t) \subseteq D \cup {n}
    BY <1>1 DEF Listed
  <2>2. n \in Listed(t)
    BY <1>1 DEF Listed
  <2>3. D \subseteq Listed(t)
    BY <1>1 DEF Listed
  <2> QED
    BY <2>1, <2>2, <2>3
<1>3. IsDistinct(s) => IsDistinct(t)
  BY <1>1 DEF IsDistinct
<1> QED
  BY <1>2, <1>3 DEF t

(* A step that keeps the store and the list.                               *)
LEMMA MirrorKept ==
    ASSUME Mirror, UNCHANGED <<store, hasChanges, noteList, reconnected, thrown>>,
           scene = "off" => scene' = "off"
    PROVE  Mirror'
BY Zenon DEF Mirror

(* A step in which something throws.                                       *)
LEMMA MirrorGone == ASSUME thrown' = "now" PROVE Mirror'
BY DEF Mirror

(* A change of a note that is there, its id kept, and saved.               *)
LEMMA MirrorChanged ==
    ASSUME Mirror, ~hasChanges', UNCHANGED <<noteList, scene, reconnected, thrown>>,
           DOMAIN store' = DOMAIN store,
           \A n \in DOMAIN store : store'[n].id = store[n].id
    PROVE  Mirror'
<1>1. Numbered(store) => Numbered(store')
  BY DEF Numbered
<1> QED
  BY <1>1, Zenon DEF Mirror

LEMMA MirrorStep ==
    ASSUME IInv, TypeOK, Mirror, [Next]_vars
    PROVE  Mirror'
<1>1. IsObjects(store) /\ noteList \in Seq(DOMAIN store)
  BY DEF IInv
<1>2. CASE Launch
  <2>1. /\ store' = store /\ hasChanges' = FALSE /\ scene' = "foreground"
        /\ TableLoads(<<>>, store, Earlier(thrown))
        /\ reconnected' = Earlier(reconnected)
    BY <1>2, Zenon DEF Launch
  <2>2. PICK ok \in BOOLEAN :
            \E list \in IF ok THEN Fetched(store) ELSE {<<>>} :
                noteList' = <<>> \o list /\ thrown' = Noting(Earlier(thrown), ~ok)
    BY <2>1, Zenon DEF TableLoads
  <2>3. CASE ok
    <3>1. PICK list \in Fetched(store) :
              noteList' = <<>> \o list /\ thrown' = Earlier(thrown)
      BY <2>2, <2>3, Zenon DEF Noting
    <3>2. list \in Seq(DOMAIN store) /\ Listed(list) = DOMAIN store /\ IsDistinct(list)
      BY <1>1, FetchedAll
    <3>3. noteList' = list
      BY <3>1, <3>2
    <3>4. /\ thrown' = "never" => thrown = "never"
          /\ reconnected' = "never" => reconnected = "never"
      BY <2>1, <3>1 DEF Earlier
    <3> QED
      BY <2>1, <3>2, <3>3, <3>4, Zenon DEF Mirror
  <2>4. CASE ~ok
    BY <2>2, <2>4, MirrorGone DEF Noting
  <2> QED
    BY <2>3, <2>4
<1>3. CASE Kill \/ CellForRowTraps
  BY <1>3, MirrorKept DEF Kill, CellForRowTraps, memory, history
<1>4. CASE EnterBackground
  <2>1. /\ UNCHANGED <<ctx, noteList, reconnected>> /\ scene # "off" /\ saveContext
    BY <1>4 DEF EnterBackground, view
  <2>2. CASE hasChanges
    <3>1. thrown' = thrown /\ store' = ctx
      BY <2>1, <2>2 DEF saveContext, ContextSave, Noting
    <3>2. thrown = "now"
      BY <2>1, <2>2 DEF Mirror
    <3> QED
      BY <3>1, <3>2, MirrorGone
  <2>3. CASE ~hasChanges
    BY <2>1, <2>3, MirrorKept DEF saveContext
  <2> QED
    BY <2>2, <2>3, Zenon
<1>5. CASE SaveContextTraps
  BY <1>5, MirrorGone DEF SaveContextTraps
<1>6. CASE EnterForeground \/ SceneDisconnect
  BY <1>6, MirrorKept DEF EnterForeground, SceneDisconnect, memory, view, history
<1>7. CASE SceneReconnect
  <2>1. /\ UNCHANGED <<store, ctx, hasChanges>>
        /\ scene = "disconnected" /\ scene' = "foreground" /\ reconnected' = "now"
        /\ TableLoads(noteList, ctx, thrown)
    BY <1>7, Zenon DEF SceneReconnect
  <2>2. ctx = store
    BY <2>1 DEF IInv
  <2>3. PICK ok \in BOOLEAN :
            \E list \in IF ok THEN Fetched(store) ELSE {<<>>} :
                noteList' = noteList \o list /\ thrown' = Noting(thrown, ~ok)
    BY <2>1, <2>2, Zenon DEF TableLoads
  <2>4. CASE ok /\ thrown # "now"
    <3>1. PICK list \in Fetched(store) : noteList' = noteList \o list /\ thrown' = thrown
      BY <2>3, <2>4, Zenon DEF Noting
    <3>2. list \in Seq(DOMAIN store) /\ Listed(list) = DOMAIN store
      BY <1>1, FetchedAll
    <3>3. Listed(noteList) = DOMAIN store /\ ~hasChanges
      BY <2>1, <2>4 DEF Mirror
    <3>4. Listed(noteList') = DOMAIN store
      BY <1>1, <3>1, <3>2, <3>3, ListedTwice
    <3> QED
      BY <2>1, <3>3, <3>4 DEF Mirror
  <2>5. CASE ~(ok /\ thrown # "now")
    BY <2>3, <2>5, MirrorGone DEF Noting
  <2> QED
    BY <2>4, <2>5
<1>8. CASE NewNote \/ Back \/ SwipeGivenUp \/ ViewDidAppear
  BY <1>8, MirrorKept DEF NewNote, Back, SwipeGivenUp, ViewDidAppear, memory, history
<1>9. ASSUME NEW row \in 1..Cardinality(counted), EditNote(row)
      PROVE  Mirror'
  BY <1>9, MirrorKept DEF EditNote, memory, history
(* A save: it throws, or an earlier one has, or memory and store agree.    *)
<1>10. ASSUME NEW ok \in BOOLEAN, OnDetail, ContextSave(ok), ~(ok /\ thrown # "now")
       PROVE  Mirror'
  BY <1>10, MirrorGone DEF ContextSave, Noting
<1>11. ASSUME NEW ok \in BOOLEAN, OnDetail, ContextSave(ok), ok, thrown # "now"
       PROVE  /\ ctx = store /\ store' = ctx' /\ ~hasChanges' /\ thrown' = thrown
              /\ Listed(noteList) = DOMAIN store
  BY <1>11 DEF ContextSave, Noting, OnDetail, Mirror, IInv
<1>12. ASSUME NEW text \in Texts, NEW ok \in BOOLEAN, SaveEdit(text, ok)
       PROVE  Mirror'
  <2>1. /\ OnDetail /\ ContextSave(ok) /\ UNCHANGED <<noteList, scene, reconnected>>
        /\ ctx' = [ctx EXCEPT ![selectedNote].text = text]
    BY <1>12, Zenon DEF SaveEdit
  <2>2. CASE ok /\ thrown # "now"
    <3>1. ctx = store /\ store' = ctx' /\ ~hasChanges' /\ thrown' = thrown
      BY <2>1, <2>2, <1>11
    <3>2. DOMAIN store' = DOMAIN store
      BY <1>1, <2>1, <3>1 DEF IsObjects, IsNotes
    <3>3. Grows(store, store')
      BY <1>1, <2>1, <3>1, SetText, Zenon
    <3> QED
      BY <2>1, <3>1, <3>2, <3>3, MirrorChanged DEF Grows
  <2> QED
    BY <2>1, <2>2, <1>10
<1>13. ASSUME NEW ok \in BOOLEAN, DelteNote(ok)
       PROVE  Mirror'
  <2>1. /\ OnDetail /\ ContextSave(ok) /\ UNCHANGED <<noteList, scene, reconnected>>
        /\ ctx' = [ctx EXCEPT ![selectedNote].deleted = TRUE]
    BY <1>13, Zenon DEF DelteNote
  <2>2. CASE ok /\ thrown # "now"
    <3>1. ctx = store /\ store' = ctx' /\ ~hasChanges' /\ thrown' = thrown
      BY <2>1, <2>2, <1>11
    <3>2. DOMAIN store' = DOMAIN store
      BY <1>1, <2>1, <3>1 DEF IsObjects, IsNotes
    <3>3. Grows(store, store')
      BY <1>1, <2>1, <3>1, SetDeleted, Zenon
    <3> QED
      BY <2>1, <3>1, <3>2, <3>3, MirrorChanged DEF Grows
  <2> QED
    BY <2>1, <2>2, <1>10
<1>14. ASSUME NEW ok \in BOOLEAN, NEW text \in Texts, NEW n \in Notes,
              SaveNewNote(n, text, ok), ok, thrown # "now"
       PROVE  Mirror'
  <2>1. /\ n \notin DOMAIN store /\ store' = Inserted(store, n, text)
        /\ ~hasChanges' /\ noteList' = Append(noteList, n)
        /\ UNCHANGED <<scene, reconnected, thrown>>
        /\ scene = "foreground" /\ Listed(noteList) = DOMAIN store
    BY <1>14, <1>11, Zenon DEF SaveNewNote, OnDetail
  <2>2. /\ DOMAIN store' = DOMAIN store \cup {n}
        /\ store'[n].id = Len(noteList)
        /\ \A m \in DOMAIN store : store'[m] = store[m]
    BY <2>1 DEF Inserted
  <2>3. /\ Listed(noteList') = DOMAIN store'
        /\ IsDistinct(noteList) => IsDistinct(noteList')
    BY <1>1, <2>1, <2>2, ListedAppend
  <2>4. ASSUME thrown = "never", reconnected = "never" PROVE Numbered(store')
    <3> DEFINE k == Cardinality(DOMAIN store)
    <3>1. Numbered(store) /\ IsDistinct(noteList)
      BY <2>1, <2>4 DEF Mirror
    <3>2. Len(noteList) = k
      BY <1>1, <2>1, <3>1, ListedCount
    <3>3. k \in Nat /\ Cardinality(DOMAIN store') = k + 1
      BY <1>1, <2>1, <2>2, FS_CardinalityType, FS_AddElement DEF IsObjects
    <3>4. \A m \in DOMAIN store : store[m].id \in Nat
      BY <1>1 DEF IsObjects, IsNotes, Attributes
    <3>5. \A m \in DOMAIN store : store'[m].id < k
      BY <2>2, <3>1, Zenon DEF Numbered
    <3> HIDE DEF k
    <3>6. \A m \in DOMAIN store' : store'[m].id < k + 1
      BY <2>2, <3>2, <3>3, <3>4, <3>5
    <3>7. \A m, l \in DOMAIN store : m # l => store'[m].id # store'[l].id
      BY <2>2, <3>1, Zenon DEF Numbered
    <3>8. \A m \in DOMAIN store : store'[m].id # store'[n].id
      BY <2>2, <3>2, <3>3, <3>4, <3>5
    <3>9. \A m, l \in DOMAIN store' : m # l => store'[m].id # store'[l].id
      BY <2>2, <3>7, <3>8, Zenon
    <3> QED
      BY <3>3, <3>6, <3>9 DEF Numbered
  <2>5. thrown # "now" /\ scene # "off" => (reconnected # "now" => IsDistinct(noteList))
    BY DEF Mirror
  <2> QED
    BY <1>14, <2>1, <2>3, <2>4, <2>5, Zenon DEF Mirror
<1>15. ASSUME NEW ok \in BOOLEAN, NEW text \in Texts, NEW n \in Notes,
              SaveNewNote(n, text, ok)
       PROVE  Mirror'
  BY <1>10, <1>14, <1>15, Zenon DEF SaveNewNote
<1>16. CASE UNCHANGED vars
  BY <1>16, MirrorKept DEF vars, memory, view, history
<1> QED
  BY <1>2, <1>3, <1>4, <1>5, <1>6, <1>7, <1>8, <1>9, <1>12, <1>13, <1>15, <1>16,
     Zenon DEF Next

LEMMA Mirrors == Spec => []Mirror
<1>1. Init => Mirror
  <2> SUFFICES ASSUME Init PROVE Mirror
    OBVIOUS
  <2>1. DOMAIN store = {} /\ scene = "off"
    BY DEF Init
  <2>2. Numbered(store)
    BY <2>1 DEF Numbered
  <2> QED
    BY <2>1, <2>2 DEF Mirror
<1>2. IInv /\ TypeOK /\ Mirror /\ [Next]_vars => Mirror'
  BY MirrorStep
<1> QED
  BY <1>1, <1>2, Inductive, TypeCorrect, PTL DEF Spec

(* In a process in which Core Data has not thrown the list holds every     *)
(* stored note, once unless the scene came back in this process.           *)
THEOREM ListMirrored == Spec => []ListMirrorsStore
<1>1. Mirror => ListMirrorsStore
  BY DEF Mirror, ListMirrorsStore
<1> QED
  BY <1>1, Mirrors, PTL

(* The ids, counted off the list, are unique as long as Core Data has      *)
(* never thrown and no scene came back.                                    *)
THEOREM IdsUnique == Spec => []IdsAreUnique
<1>1. Mirror => IdsAreUnique
  BY DEF Mirror, Numbered, IdsAreUnique
<1> QED
  BY <1>1, Mirrors, PTL

-----------------------------------------------------------------------------
(* The store as NoteStore sees it.                                         *)
TextOf(c) == [n \in DOMAIN c |-> c[n].text]
MarkedIn(c) == {n \in DOMAIN c : c[n].deleted}
Behind == scene # "off" /\ hasChanges

(* A step that leaves the store alone: a save threw, or the process ended, *)
(* or nothing happened to it.                                              *)
LEMMA StoreKept ==
    ASSUME store' = store
    PROVE  [Abstract!NoteStoreNext]_(Abstract!noteVars)
<1>1. TextOf(store') = TextOf(store) /\ MarkedIn(store') = MarkedIn(store)
  BY Zenon
<1>2. CASE Behind'
  <2>1. Abstract!Throw
    BY <1>1, <1>2, Zenon DEF Abstract!Throw, TextOf, MarkedIn, Behind
  <2> QED
    BY <2>1, Zenon DEF Abstract!NoteStoreNext
<1>3. CASE Behind /\ ~Behind'
  <2>1. Abstract!CatchUp
    BY <1>1, <1>3, Zenon DEF Abstract!CatchUp, TextOf, MarkedIn, Behind
  <2> QED
    BY <2>1, Zenon DEF Abstract!NoteStoreNext
<1>4. CASE ~Behind /\ ~Behind'
  BY <1>1, <1>4, Zenon DEF Abstract!noteVars, TextOf, MarkedIn, Behind
<1> QED
  BY <1>2, <1>3, <1>4, Zenon

(* A save that does not throw, while an earlier one is not made up for.    *)
LEMMA StoreCatchesUp ==
    ASSUME scene # "off", hasChanges, ~hasChanges', Grows(store, store')
    PROVE  Abstract!NoteStoreNext
<1>1. /\ DOMAIN TextOf(store) \subseteq DOMAIN TextOf(store')
      /\ MarkedIn(store) \subseteq MarkedIn(store')
  BY DEF Grows, TextOf, MarkedIn
<1>2. Abstract!CatchUp
  BY <1>1, Zenon DEF Abstract!CatchUp, TextOf, MarkedIn
<1> QED
  BY <1>2, Zenon DEF Abstract!NoteStoreNext

(* Each step that writes the store is one step of NoteStore.               *)
LEMMA StoreStep ==
    ASSUME IInv, TypeOK, [Next]_vars
    PROVE  [Abstract!NoteStoreNext]_(Abstract!noteVars)
<1>1. Grows(store, store')
  BY Preserved
<1>2. DOMAIN store \subseteq Notes /\ store \in [DOMAIN store -> Attributes]
  BY DEF IInv, IsObjects, IsNotes
<1>3. CASE \/ Launch \/ Kill \/ SaveContextTraps \/ EnterForeground
           \/ SceneDisconnect \/ SceneReconnect \/ NewNote \/ Back \/ SwipeGivenUp
           \/ CellForRowTraps \/ ViewDidAppear \/ UNCHANGED vars
           \/ \E row \in 1..Cardinality(counted) : EditNote(row)
  <2>1. store' = store
    BY <1>3 DEF Launch, Kill, SaveContextTraps,
       EnterForeground, SceneDisconnect, SceneReconnect, NewNote, Back, SwipeGivenUp,
       CellForRowTraps, ViewDidAppear, EditNote, vars
  <2> QED
    BY <2>1, StoreKept, Zenon
<1>4. CASE EnterBackground
  <2>1. CASE hasChanges
    <3>1. scene # "off" /\ ~hasChanges'
      BY <1>4, <2>1 DEF EnterBackground, saveContext, ContextSave
    <3> QED
      BY <2>1, <3>1, <1>1, StoreCatchesUp, Zenon
  <2>2. CASE ~hasChanges
    <3>1. store' = store
      BY <1>4, <2>2, Zenon DEF EnterBackground, saveContext
    <3> QED
      BY <3>1, StoreKept, Zenon
  <2> QED
    BY <2>1, <2>2, Zenon
(* A save on the detail screen that throws, or makes up for one that has.  *)
<1>5. ASSUME NEW ok \in BOOLEAN, OnDetail, ContextSave(ok), ~ok \/ hasChanges
      PROVE  [Abstract!NoteStoreNext]_(Abstract!noteVars)
  <2>1. CASE ~ok
    BY <1>5, <2>1, StoreKept, Zenon DEF ContextSave
  <2>2. CASE ok /\ hasChanges
    <3>1. scene # "off" /\ ~hasChanges'
      BY <1>5, <2>2 DEF OnDetail, ContextSave
    <3> QED
      BY <2>2, <3>1, <1>1, StoreCatchesUp, Zenon
  <2> QED
    BY <1>5, <2>1, <2>2, Zenon
<1>6. ASSUME NEW ok \in BOOLEAN, OnDetail, ContextSave(ok), ok, ~hasChanges
      PROVE  ctx = store /\ store' = ctx' /\ ~Behind /\ ~Behind'
  BY <1>6, Zenon DEF ContextSave, IInv, Behind
<1>7. ASSUME NEW t \in Texts, NEW ok \in BOOLEAN, SaveEdit(t, ok), ok, ~hasChanges
      PROVE  Abstract!NoteStoreNext
  <2>1. /\ ctx = store /\ store' = ctx' /\ ~Behind /\ ~Behind'
        /\ selectedNote # NoNote
        /\ ctx' = [ctx EXCEPT ![selectedNote].text = t]
    BY <1>6, <1>7, Zenon DEF SaveEdit
  <2>2. PICK n \in DOMAIN store : n = selectedNote
    BY <2>1 DEF TypeOK
  <2>3. store' = [store EXCEPT ![n].text = t]
    BY <2>1, <2>2, Zenon
  <2>4. /\ DOMAIN store' = DOMAIN store
        /\ \A m \in DOMAIN store : /\ store'[m].text = IF m = n THEN t ELSE store[m].text
                                   /\ store'[m].deleted = store[m].deleted
    BY <1>2, <2>3 DEF Attributes
  <2>5. TextOf(store') = [TextOf(store) EXCEPT ![n] = t]
    BY <2>4 DEF TextOf
  <2>6. MarkedIn(store') = MarkedIn(store)
    BY <2>4 DEF MarkedIn
  <2>7. n \in DOMAIN TextOf(store) /\ n \in Notes
    BY <1>2 DEF TextOf
  <2>8. Abstract!Edit(n, t)
    BY <2>5, <2>6, <2>7, Zenon DEF Abstract!Edit, TextOf, MarkedIn
  <2>9. Abstract!Save
    BY <2>1, <2>7, <2>8, Zenon DEF Abstract!Save, Behind
  <2> QED
    BY <2>9, Zenon DEF Abstract!NoteStoreNext
<1>8. ASSUME NEW ok \in BOOLEAN, DelteNote(ok), ok, ~hasChanges
      PROVE  Abstract!NoteStoreNext
  <2>1. /\ ctx = store /\ store' = ctx' /\ ~Behind /\ ~Behind'
        /\ selectedNote # NoNote
        /\ ctx' = [ctx EXCEPT ![selectedNote].deleted = TRUE]
    BY <1>6, <1>8, Zenon DEF DelteNote
  <2>2. PICK n \in DOMAIN store : n = selectedNote
    BY <2>1 DEF TypeOK
  <2>3. store' = [store EXCEPT ![n].deleted = TRUE]
    BY <2>1, <2>2, Zenon
  <2>4. /\ DOMAIN store' = DOMAIN store
        /\ \A m \in DOMAIN store : /\ store'[m].text = store[m].text
                                   /\ store'[m].deleted = (m = n \/ store[m].deleted)
    BY <1>2, <2>3 DEF Attributes
  <2>5. TextOf(store') = TextOf(store)
    BY <2>4 DEF TextOf
  <2>6. MarkedIn(store') = MarkedIn(store) \cup {n}
    BY <2>4 DEF MarkedIn
  <2>7. n \in DOMAIN TextOf(store) /\ n \in Notes
    BY <1>2 DEF TextOf
  <2>8. Abstract!Mark(n)
    BY <2>5, <2>6, <2>7, Zenon DEF Abstract!Mark, TextOf, MarkedIn
  <2>9. Abstract!Save
    BY <2>1, <2>7, <2>8, Zenon DEF Abstract!Save, Behind
  <2> QED
    BY <2>9, Zenon DEF Abstract!NoteStoreNext
<1>9. ASSUME NEW ok \in BOOLEAN, NEW t \in Texts, NEW n \in Notes, SaveNewNote(n, t, ok),
             ok, ~hasChanges
      PROVE  Abstract!NoteStoreNext
  <2>1. /\ ctx = store /\ store' = ctx' /\ ~Behind /\ ~Behind'
        /\ n \notin DOMAIN ctx /\ ctx' = Inserted(ctx, n, t)
    BY <1>6, <1>9, Zenon DEF SaveNewNote
  <2>2. /\ DOMAIN store' = DOMAIN store \cup {n}
        /\ store'[n].text = t /\ ~store'[n].deleted
        /\ \A m \in DOMAIN store : store'[m] = store[m]
    BY <2>1 DEF Inserted
  <2>3. TextOf(store') = [m \in DOMAIN TextOf(store) \cup {n} |->
                             IF m = n THEN t ELSE TextOf(store)[m]]
    BY <2>1, <2>2 DEF TextOf
  <2>4. MarkedIn(store') = MarkedIn(store)
    BY <2>1, <2>2 DEF MarkedIn
  <2>5. n \notin DOMAIN TextOf(store)
    BY <2>1 DEF TextOf
  <2>6. Abstract!Create(n, t)
    BY <2>3, <2>4, <2>5, Zenon DEF Abstract!Create, TextOf, MarkedIn
  <2>7. Abstract!Save
    BY <2>1, <2>6, Zenon DEF Abstract!Save, Behind
  <2> QED
    BY <2>7, Zenon DEF Abstract!NoteStoreNext
<1>10. ASSUME NEW ok \in BOOLEAN, NEW t \in Texts, SaveEdit(t, ok)
       PROVE  [Abstract!NoteStoreNext]_(Abstract!noteVars)
  BY <1>5, <1>7, <1>10, Zenon DEF SaveEdit
<1>11. ASSUME NEW ok \in BOOLEAN, DelteNote(ok)
       PROVE  [Abstract!NoteStoreNext]_(Abstract!noteVars)
  BY <1>5, <1>8, <1>11, Zenon DEF DelteNote
<1>12. ASSUME NEW ok \in BOOLEAN, NEW t \in Texts, NEW n \in Notes, SaveNewNote(n, t, ok)
       PROVE  [Abstract!NoteStoreNext]_(Abstract!noteVars)
  BY <1>5, <1>9, <1>12, Zenon DEF SaveNewNote
<1> QED
  BY <1>3, <1>4, <1>10, <1>11, <1>12, Zenon DEF Next

(* The store changes by one user action at a time, each about the one note *)
(* it is meant for; only a save that follows one that threw also writes    *)
(* what that one was to write.                                             *)
THEOREM NoteStoreImplemented == Spec => ImplementsNoteStore
<1>1. Init => Abstract!NoteStoreInit
  <2> SUFFICES ASSUME Init PROVE Abstract!NoteStoreInit
    OBVIOUS
  <2>1. store = [n \in {} |-> {}] /\ scene = "off"
    BY Zenon DEF Init
  <2>2. TextOf(store) = [n \in {} |-> {}] /\ MarkedIn(store) = {}
    BY <2>1 DEF TextOf, MarkedIn
  <2> QED
    BY <2>1, <2>2, Zenon DEF Abstract!NoteStoreInit, TextOf, MarkedIn
<1>2. IInv /\ TypeOK /\ [Next]_vars => [Abstract!NoteStoreNext]_(Abstract!noteVars)
  BY StoreStep
<1> QED
  BY <1>1, <1>2, Inductive, TypeCorrect, PTL
     DEF Spec, ImplementsNoteStore, Abstract!NoteStoreSpec

=============================================================================
