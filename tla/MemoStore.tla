------------------------------ MODULE MemoStore ------------------------------
(***************************************************************************)
(* What TableViewExample promises of the memos it keeps: they change one   *)
(* at a time, and whatever is done to one leaves the others as they were   *)
(* and in the order they were in.                                          *)
(***************************************************************************)
EXTENDS Naturals, Sequences, SequencesExt

CONSTANT Texts

VARIABLE memos

InitMemos == memos = <<>>

Add(text) == memos' = Append(memos, text)

Rewrite(row, text) == memos' = ReplaceAt(memos, row, text)

Drop(row) == memos' = RemoveAt(memos, row)

(* Taking the memo away leaves the same before the move and after it.      *)
Carry(from, to) ==
    /\ Len(memos') = Len(memos)
    /\ memos'[to] = memos[from]
    /\ RemoveAt(memos', to) = RemoveAt(memos, from)

NextMemos ==
    \/ \E text \in Texts :
          \/ Add(text)
          \/ \E row \in DOMAIN memos : Rewrite(row, text)
    \/ \E row \in DOMAIN memos :
          \/ Drop(row)
          \/ \E to \in DOMAIN memos : Carry(row, to)

MemoStoreSpec == InitMemos /\ [][NextMemos]_memos

=============================================================================
