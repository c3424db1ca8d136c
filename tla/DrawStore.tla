------------------------------ MODULE DrawStore ------------------------------
(***************************************************************************)
(* What the file of LottoDraw promises, and all it promises: a save first  *)
(* empties the store and then hands its columns over one by one, in order. *)
(* A column may be skipped if statements may fail, and the columns not yet *)
(* handed over are abandoned if the process may die; nothing else ever     *)
(* changes what is stored.  In particular a save is not atomic.            *)
(***************************************************************************)
EXTENDS Naturals, Sequences

CONSTANTS
    Columns,        \* what can be stored
    MaySkip,        \* TRUE when an insert may fail
    MayAbandon      \* TRUE when a save may be cut off

VARIABLES
    stored,         \* the columns in the store
    pending         \* the columns the save in progress has yet to hand over

storeVars == <<stored, pending>>

StoreInit ==
    /\ stored = <<>>
    /\ pending = <<>>

BeginSave ==
    /\ pending = <<>>
    /\ stored' = <<>>
    /\ pending' \in Seq(Columns)

Put ==
    /\ pending # <<>>
    /\ stored' = Append(stored, Head(pending))
    /\ pending' = Tail(pending)

Skip ==
    /\ MaySkip
    /\ pending # <<>>
    /\ pending' = Tail(pending)
    /\ UNCHANGED stored

Abandon ==
    /\ MayAbandon
    /\ pending' = <<>>
    /\ UNCHANGED stored

StoreNext == BeginSave \/ Put \/ Skip \/ Abandon

StoreSpec == StoreInit /\ [][StoreNext]_storeVars

=============================================================================
