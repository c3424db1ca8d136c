--------------------------- MODULE MemoListProofs ---------------------------
(***************************************************************************)
(* The properties of MemoList for every set of texts and any number of     *)
(* memos.  The three copies agree because every handler that changes one   *)
(* brings the other two up to date; a remembered row stays right because   *)
(* a memo can only be put at the end of the list while a row is            *)
(* remembered.                                                             *)
(***************************************************************************)
EXTENDS MemoList, SequenceTheorems, TLAPS

(* A row is remembered outside editing mode only, where no row moves.      *)
RowsHold ==
    running => (swiped # 0 \/ editRow # 0 => ~isEditing)

IInv ==
    /\ TypeOK
    /\ CopiesAgree
    /\ CapturedRowIsMeant
    /\ RowsHold

(* A list without one of its elements is a list of the same texts.         *)
LEMMA RemovedType ==
    ASSUME NEW S, NEW s \in Seq(S), NEW i \in 1..Len(s)
    PROVE  /\ RemoveAt(s, i) \in Seq(S)
           /\ Len(RemoveAt(s, i)) = Len(s) - 1
           /\ \A k \in 1..(Len(s) - 1) :
                 RemoveAt(s, i)[k] = IF k < i THEN s[k] ELSE s[k + 1]
<1> DEFINE front == SubSeq(s, 1, i - 1)
           back == SubSeq(s, i + 1, Len(s))
<1>0. Len(s) \in Nat /\ i \in Nat /\ 1 <= i /\ i <= Len(s)
  OBVIOUS
<1>1. /\ front \in Seq(S)
      /\ Len(front) = i - 1
      /\ \A k \in 1..(i - 1) : front[k] = s[k]
  BY <1>0
<1>2. /\ back \in Seq(S)
      /\ Len(back) = Len(s) - i
      /\ \A k \in 1..(Len(s) - i) : back[k] = s[k + i]
  BY <1>0
<1>3. RemoveAt(s, i) = front \o back
  BY DEF RemoveAt
<1> HIDE DEF front, back
<1>4. /\ front \o back \in Seq(S)
      /\ Len(front \o back) = Len(front) + Len(back)
      /\ \A k \in 1..(Len(front) + Len(back)) :
            (front \o back)[k] =
               IF k <= Len(front) THEN front[k] ELSE back[k - Len(front)]
  BY <1>1, <1>2, ConcatProperties, Zenon
<1>5. Len(front) + Len(back) = Len(s) - 1
  BY <1>0, <1>1, <1>2
<1>6. ASSUME NEW k \in 1..(Len(s) - 1)
      PROVE  (front \o back)[k] = IF k < i THEN s[k] ELSE s[k + 1]
  <2>1. CASE k < i
    <3>1. k \in 1..(i - 1) /\ k <= Len(front)
      BY <2>1, <1>0, <1>1
    <3> QED
      BY <3>1, <2>1, <1>1, <1>4, <1>5
  <2>2. CASE k >= i
    <3>1. /\ ~(k <= Len(front))
          /\ k - Len(front) \in 1..(Len(s) - i)
          /\ k - Len(front) + i = k + 1
      BY <2>2, <1>0, <1>1
    <3>2. (front \o back)[k] = back[k - Len(front)]
      BY <3>1, <1>4, <1>5
    <3>3. back[k - Len(front)] = s[k + 1]
      BY <3>1, <1>2
    <3> QED
      BY <3>2, <3>3, <2>2, <1>0
  <2>3. k < i \/ k >= i
    BY <1>0
  <2> QED
    BY <2>1, <2>2, <2>3, Zenon
<1> QED
  BY <1>3, <1>4, <1>5, <1>6

(* A list with one more element inserted.                                  *)
LEMMA InsertedType ==
    ASSUME NEW S, NEW s \in Seq(S), NEW i \in 1..(Len(s) + 1), NEW e \in S
    PROVE  /\ InsertAt(s, i, e) \in Seq(S)
           /\ Len(InsertAt(s, i, e)) = Len(s) + 1
           /\ \A k \in 1..(Len(s) + 1) :
                 InsertAt(s, i, e)[k] =
                    IF k < i THEN s[k] ELSE IF k = i THEN e ELSE s[k - 1]
<1> DEFINE head == SubSeq(s, 1, i - 1)
           front == head \o <<e>>
           back == SubSeq(s, i, Len(s))
<1>0. Len(s) \in Nat /\ i \in Nat /\ 1 <= i /\ i <= Len(s) + 1
  OBVIOUS
<1>1. /\ head \in Seq(S)
      /\ Len(head) = i - 1
      /\ \A k \in 1..(i - 1) : head[k] = s[k]
  BY <1>0
<1>2. /\ back \in Seq(S)
      /\ Len(back) = Len(s) + 1 - i
      /\ \A k \in 1..(Len(s) + 1 - i) : back[k] = s[k + i - 1]
  BY <1>0
<1>3. InsertAt(s, i, e) = front \o back
  BY DEF InsertAt
<1> HIDE DEF head, back
<1>4. /\ front \in Seq(S)
      /\ Len(front) = i
      /\ \A k \in 1..(i - 1) : front[k] = s[k]
      /\ front[i] = e
  BY <1>0, <1>1
<1> HIDE DEF front
<1>5. /\ front \o back \in Seq(S)
      /\ Len(front \o back) = Len(front) + Len(back)
      /\ \A k \in 1..(Len(front) + Len(back)) :
            (front \o back)[k] =
               IF k <= Len(front) THEN front[k] ELSE back[k - Len(front)]
  BY <1>4, <1>2, ConcatProperties, Zenon
<1>6. Len(front) + Len(back) = Len(s) + 1
  BY <1>0, <1>4, <1>2
<1>7. ASSUME NEW k \in 1..(Len(s) + 1)
      PROVE  (front \o back)[k] =
                IF k < i THEN s[k] ELSE IF k = i THEN e ELSE s[k - 1]
  <2>1. CASE k < i
    <3>1. k \in 1..(i - 1) /\ k <= Len(front)
      BY <2>1, <1>0, <1>4
    <3> QED
      BY <3>1, <2>1, <1>4, <1>5, <1>6
  <2>2. CASE k = i
    BY <2>2, <1>0, <1>4, <1>5, <1>6
  <2>3. CASE k > i
    <3>1. /\ ~(k <= Len(front))
          /\ k - Len(front) \in 1..(Len(s) + 1 - i)
          /\ k - Len(front) + i - 1 = k - 1
      BY <2>3, <1>0, <1>4
    <3>2. (front \o back)[k] = back[k - Len(front)]
      BY <3>1, <1>5, <1>6
    <3>3. back[k - Len(front)] = s[k - 1]
      BY <3>1, <1>2
    <3> QED
      BY <3>2, <3>3, <2>3, <1>0
  <2>4. k < i \/ k = i \/ k > i
    BY <1>0
  <2> QED
    BY <2>1, <2>2, <2>3, <2>4, Zenon
<1> QED
  BY <1>3, <1>5, <1>6, <1>7

(* Taking what was carried away again gives what was left when it was      *)
(* picked up.                                                              *)
LEMMA CarriedRest ==
    ASSUME NEW S, NEW s \in Seq(S), NEW i \in 1..(Len(s) + 1), NEW e \in S
    PROVE  RemoveAt(InsertAt(s, i, e), i) = s
<1> DEFINE t == InsertAt(s, i, e)
<1>1. /\ t \in Seq(S)
      /\ Len(t) = Len(s) + 1
      /\ \A k \in 1..(Len(s) + 1) :
            t[k] = IF k < i THEN s[k] ELSE IF k = i THEN e ELSE s[k - 1]
  BY InsertedType
<1> HIDE DEF t
<1>2. Len(s) \in Nat
  OBVIOUS
<1>3. /\ RemoveAt(t, i) \in Seq(S)
      /\ Len(RemoveAt(t, i)) = Len(s)
      /\ \A k \in 1..Len(s) :
            RemoveAt(t, i)[k] = IF k < i THEN t[k] ELSE t[k + 1]
  <2>1. i \in 1..Len(t) /\ Len(t) - 1 = Len(s)
    BY <1>1, <1>2
  <2> QED
    BY <2>1, <1>1, RemovedType
<1>4. ASSUME NEW k \in 1..Len(s)
      PROVE  RemoveAt(t, i)[k] = s[k]
  <2>1. k \in 1..(Len(s) + 1) /\ k + 1 \in 1..(Len(s) + 1)
    BY <1>2
  <2>2. CASE k < i
    BY <2>1, <2>2, <1>1, <1>3
  <2>3. CASE k >= i
    <3>1. t[k + 1] = s[k]
      BY <2>1, <2>3, <1>1
    <3> QED
      BY <3>1, <2>3, <1>3
  <2> QED
    BY <2>2, <2>3
<1> QED
  BY <1>3, <1>4, SeqEqual DEF t

(* The list one move makes: as long as before, of the same texts.          *)
LEMMA MovedType ==
    ASSUME NEW S, NEW s \in Seq(S), NEW from \in 1..Len(s), NEW to \in 1..Len(s)
    PROVE  LET t == InsertAt(RemoveAt(s, from), to, s[from])
           IN  /\ t \in Seq(S)
               /\ Len(t) = Len(s)
               /\ t[to] = s[from]
               /\ RemoveAt(t, to) = RemoveAt(s, from)
<1> DEFINE r == RemoveAt(s, from)
<1>1. r \in Seq(S) /\ Len(r) = Len(s) - 1
  BY RemovedType
<1>2. s[from] \in S
  OBVIOUS
<1> HIDE DEF r
<1>3. Len(s) \in Nat /\ to \in 1..(Len(r) + 1)
  BY <1>1
<1>4. /\ InsertAt(r, to, s[from]) \in Seq(S)
      /\ Len(InsertAt(r, to, s[from])) = Len(r) + 1
      /\ InsertAt(r, to, s[from])[to] = s[from]
  BY <1>1, <1>2, <1>3, InsertedType
<1>5. RemoveAt(InsertAt(r, to, s[from]), to) = r
  BY <1>1, <1>2, <1>3, CarriedRest
<1> QED
  BY <1>1, <1>3, <1>4, <1>5 DEF r

-----------------------------------------------------------------------------

(* The invariant holds after the first launch.                             *)
LEMMA Initially == Init => IInv
<1> SUFFICES ASSUME Init PROVE IInv
  OBVIOUS
<1>1. running \in BOOLEAN /\ isEditing \in BOOLEAN /\ ~running
  BY Zenon DEF Init
<1>2. /\ stored = <<>> /\ datasource = <<>> /\ shown = <<>>
      /\ memoText = Empty /\ editText = Empty /\ meant = Empty
      /\ swiped = 0 /\ editRow = 0
  BY Zenon DEF Init
<1>3. TypeOK
  BY <1>1, <1>2, MemoListAssumption DEF TypeOK
<1> QED
  BY <1>1, <1>3, Zenon DEF IInv, CopiesAgree, CapturedRowIsMeant, RowsHold

(* Every handler keeps it.                                                 *)
LEMMA Preserved == IInv /\ [Next]_vars => IInv'
<1> SUFFICES ASSUME IInv, [Next]_vars PROVE IInv'
  OBVIOUS
<1> USE DEF IInv, TypeOK, CopiesAgree, CapturedRowIsMeant, RowsHold
<1>1. CASE Launch
  <2>1. running' \in BOOLEAN /\ isEditing' \in BOOLEAN /\ ~isEditing'
    BY <1>1, Zenon DEF Launch
  <2>2. /\ stored' = stored /\ datasource' = stored /\ shown' = stored
        /\ memoText' = Empty /\ editText' = editText /\ meant' = meant
        /\ swiped' = 0 /\ editRow' = 0
    BY <1>1, Zenon DEF Launch
  <2> QED
    BY <2>1, <2>2, MemoListAssumption
<1>2. CASE Kill
  BY <1>2 DEF Kill, captured
<1>3. ASSUME NEW text \in Texts, TypeMemo(text)
      PROVE  IInv'
  BY <1>3 DEF TypeMemo, Touchable, captured
<1>4. ASSUME NEW text \in Texts, TypeEdit(text)
      PROVE  IInv'
  BY <1>4 DEF TypeEdit
<1>5. CASE addMemo
  BY <1>5, MemoListAssumption DEF addMemo, Touchable, saveData, reloadData
<1>6. CASE changeEditing
  BY <1>6 DEF changeEditing, Touchable
<1>7. ASSUME NEW from \in 1..Len(datasource), NEW to \in 1..Len(datasource),
             moveRow(from, to)
      PROVE  IInv'
  <2>1. datasource' \in Seq(Texts)
    BY <1>7, MovedType DEF moveRow
  <2>2. running /\ isEditing /\ swiped = 0 /\ editRow = 0
    BY <1>7 DEF moveRow, Touchable
  <2> QED
    BY <1>7, <2>1, <2>2 DEF moveRow, saveData, reloadData, captured
<1>8. ASSUME NEW row \in 1..Len(shown), Swipe(row)
      PROVE  IInv'
  BY <1>8 DEF Swipe, Touchable
<1>9. CASE Edit
  BY <1>9 DEF Edit, Touchable
<1>10. CASE Modify
  BY <1>10 DEF Modify, saveData, ReplaceAt
<1>11. CASE Cancel
  BY <1>11 DEF Cancel
<1>12. CASE Delete
  <2>1. datasource' \in Seq(Texts)
    BY <1>12, RemovedType DEF Delete
  <2> QED
    BY <1>12, <2>1 DEF Delete, Touchable, saveData, reloadData
<1>13. CASE UNCHANGED vars
  BY <1>13 DEF vars, captured
<1> QED
  BY <1>1, <1>2, <1>3, <1>4, <1>5, <1>6, <1>7, <1>8, <1>9, <1>10, <1>11,
     <1>12, <1>13, Zenon DEF Next

(* So it holds throughout.                                                 *)
LEMMA Inductive == Spec => []IInv
BY Initially, Preserved, PTL DEF Spec

-----------------------------------------------------------------------------

(* The lists are lists of texts, rows are numbers, and a swipe is put away *)
(* before its alert comes up.                                              *)
THEOREM TypeCorrect == Spec => []TypeOK
<1>1. IInv => TypeOK
  BY DEF IInv
<1> QED
  BY <1>1, Inductive, PTL

(* UserDefaults, datasource and the table hold the same list whenever the  *)
(* user can act.                                                           *)
THEOREM CopiesAlwaysAgree == Spec => []CopiesAgree
<1>1. IInv => CopiesAgree
  BY DEF IInv
<1> QED
  BY <1>1, Inductive, PTL

(* A row that a closure remembers is in range and is the memo that was     *)
(* swiped.                                                                 *)
THEOREM CapturedRowsHold == Spec => []CapturedRowIsMeant
<1>1. IInv => CapturedRowIsMeant
  BY DEF IInv
<1> QED
  BY <1>1, Inductive, PTL

-----------------------------------------------------------------------------

(* The first launch finds nothing stored.                                  *)
LEMMA StoreInitially == Init => Abstract!InitMemos
BY DEF Init, Abstract!InitMemos

(* Every handler is a step of the abstract store, or none.                 *)
LEMMA StoreSteps == IInv /\ [Next]_vars => [Abstract!NextMemos]_stored
<1> SUFFICES ASSUME IInv, [Next]_vars PROVE Abstract!NextMemos \/ UNCHANGED stored
  OBVIOUS
<1>1. CASE Launch
  BY <1>1 DEF Launch
<1>2. CASE Kill
  BY <1>2 DEF Kill
<1>3. ASSUME NEW text \in Texts, TypeMemo(text)
      PROVE  UNCHANGED stored
  BY <1>3 DEF TypeMemo
<1>4. ASSUME NEW text \in Texts, TypeEdit(text)
      PROVE  UNCHANGED stored
  BY <1>4 DEF TypeEdit
<1>5. CASE addMemo
  <2>1. stored' = Append(stored, memoText) /\ memoText \in Texts
    BY <1>5 DEF addMemo, Touchable, saveData, IInv, CopiesAgree, TypeOK
  <2>2. \E text \in Texts : Abstract!Add(text)
    BY <2>1 DEF Abstract!Add
  <2> QED
    BY <2>2, Zenon DEF Abstract!NextMemos
<1>6. CASE changeEditing
  BY <1>6 DEF changeEditing
<1>7. ASSUME NEW from \in 1..Len(datasource), NEW to \in 1..Len(datasource),
             moveRow(from, to)
      PROVE  Abstract!NextMemos
  <2>1. /\ datasource = stored
        /\ stored \in Seq(Texts)
        /\ stored' = InsertAt(RemoveAt(stored, from), to, stored[from])
    BY <1>7 DEF moveRow, Touchable, saveData, IInv, CopiesAgree, TypeOK
  <2>2. /\ Len(stored') = Len(stored)
        /\ stored'[to] = stored[from]
        /\ RemoveAt(stored', to) = RemoveAt(stored, from)
    BY <2>1, MovedType
  <2>3. Abstract!Carry(from, to)
    BY <2>2 DEF Abstract!Carry, Abstract!RemoveAt, RemoveAt
  <2>4. from \in DOMAIN stored /\ to \in DOMAIN stored
    BY <2>1
  <2> QED
    BY <2>3, <2>4, Zenon DEF Abstract!NextMemos
<1>8. ASSUME NEW row \in 1..Len(shown), Swipe(row)
      PROVE  UNCHANGED stored
  BY <1>8 DEF Swipe
<1>9. CASE Edit
  BY <1>9 DEF Edit
<1>10. CASE Modify
  <2>1. /\ stored \in Seq(Texts)
        /\ editRow \in 1..Len(stored)
        /\ editText \in Texts
        /\ stored' = ReplaceAt(stored, editRow, editText)
    BY <1>10 DEF Modify, saveData, IInv, CopiesAgree, TypeOK
  <2>2. editRow \in DOMAIN stored
    BY <2>1
  <2>3. Abstract!Rewrite(editRow, editText)
    BY <2>1 DEF Abstract!Rewrite, Abstract!ReplaceAt, ReplaceAt
  <2> QED
    BY <2>1, <2>2, <2>3, Zenon DEF Abstract!NextMemos
<1>11. CASE Cancel
  BY <1>11 DEF Cancel
<1>12. CASE Delete
  <2>1. /\ stored \in Seq(Texts)
        /\ swiped \in 1..Len(stored)
        /\ stored' = RemoveAt(stored, swiped)
    BY <1>12 DEF Delete, Touchable, saveData, IInv, CopiesAgree, TypeOK
  <2>2. swiped \in DOMAIN stored
    BY <2>1
  <2>3. Abstract!Drop(swiped)
    BY <2>1 DEF Abstract!Drop, Abstract!RemoveAt, RemoveAt
  <2> QED
    BY <2>2, <2>3, Zenon DEF Abstract!NextMemos
<1>13. CASE UNCHANGED vars
  BY <1>13 DEF vars
<1> QED
  BY <1>1, <1>2, <1>3, <1>4, <1>5, <1>6, <1>7, <1>8, <1>9, <1>10, <1>11,
     <1>12, <1>13, Zenon DEF Next

(* Every handler changes the stored list as the abstract store may: one    *)
(* memo is added, rewritten, dropped or carried.                           *)
THEOREM MemoStoreImplemented == Spec => ImplementsMemoStore
BY StoreInitially, StoreSteps, Inductive, PTL
   DEF Spec, ImplementsMemoStore, Abstract!MemoStoreSpec

=============================================================================
