------------------------------ MODULE NoteStore ------------------------------
(***************************************************************************)
(* What MemoApp's persistent store promises: it changes by one user action *)
(* at a time.  A note is created, gets another text, or is marked deleted, *)
(* and is never removed.  A save that throws leaves it behind what the app *)
(* shows: the next save catches up with all that was done since, or the    *)
(* process ends and the store is not behind any more.                      *)
(***************************************************************************)
CONSTANTS Notes, Texts

VARIABLES
    text,       \* the text of each note created so far
    marked,     \* the notes marked as deleted
    behind      \* whether a save has thrown and none succeeded since

noteVars == <<text, marked, behind>>

NoteStoreInit ==
    /\ text = [n \in {} |-> {}]
    /\ marked = {}
    /\ behind = FALSE

Create(n, t) ==
    /\ n \notin DOMAIN text
    /\ text' = [m \in DOMAIN text \cup {n} |-> IF m = n THEN t ELSE text[m]]
    /\ UNCHANGED marked

(* Also a note that a save behind the user's back has marked.              *)
Edit(n, t) ==
    /\ n \in DOMAIN text
    /\ text' = [text EXCEPT ![n] = t]
    /\ UNCHANGED marked

Mark(n) ==
    /\ n \in DOMAIN text
    /\ marked' = marked \cup {n}
    /\ UNCHANGED text

Save ==
    /\ ~behind /\ ~behind'
    /\ \E n \in Notes : (\E t \in Texts : Create(n, t) \/ Edit(n, t)) \/ Mark(n)

Throw == behind' /\ UNCHANGED <<text, marked>>

CatchUp ==
    /\ behind /\ ~behind'
    /\ DOMAIN text \subseteq DOMAIN text'
    /\ marked \subseteq marked'

NoteStoreNext == Save \/ Throw \/ CatchUp

NoteStoreSpec == NoteStoreInit /\ [][NoteStoreNext]_noteVars

=============================================================================
