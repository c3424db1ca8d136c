---------------------------- MODULE DurableWrites ----------------------------
(***************************************************************************)
(* What the write half of Firestore promises an app: the writes of a user  *)
(* form a queue that outlives the process, only the oldest write of the    *)
(* user who is signed in is decided, and the app hears of a write at most  *)
(* once, when it is the oldest.  A crash may keep the app from hearing,    *)
(* and may come after it heard and before the write leaves the queue.      *)
(***************************************************************************)
EXTENDS Integers, Sequences

CONSTANTS Users

VARIABLES pending,  \* the queue of each user
          made,     \* how many writes were made
          heard     \* the writes the app heard of, with what it heard
vars == <<pending, made, heard>>

Init == pending = [u \in Users |-> <<>>] /\ made = 0 /\ heard = <<>>

Make(u) == /\ made' = made + 1
           /\ pending' = [pending EXCEPT ![u] = Append(@, made + 1)]
           /\ UNCHANGED heard

Silent(w) == \A i \in DOMAIN heard : heard[i].write # w
Hear(u) == /\ pending[u] # <<>> /\ Silent(Head(pending[u]))
           /\ \E ok \in BOOLEAN :
                heard' = Append(heard, [write |-> Head(pending[u]), ok |-> ok])

Decide(u) == /\ pending[u] # <<>>
             /\ pending' = [pending EXCEPT ![u] = Tail(@)]
             /\ Hear(u) \/ UNCHANGED heard
             /\ UNCHANGED made

HearFirst(u) == Hear(u) /\ UNCHANGED <<pending, made>>

Next == \E u \in Users : Make(u) \/ Decide(u) \/ HearFirst(u)
Spec == Init /\ [][Next]_vars
=============================================================================
