------------------------------ MODULE GrpcStream ------------------------------
(***************************************************************************)
(* One bidirectional call of Firestore's GrpcStream: the completions it    *)
(* hands to gRPC as tags, the buffered writer that keeps a single write    *)
(* under way, and the two ways in which the call ends.  gRPC takes a tag   *)
(* and, at some time, posts its completion to the worker queue; only there *)
(* do the callbacks run.  FastFinishCompletionsBlocking cancels the        *)
(* callbacks and blocks the worker until gRPC has let go of every tag: so  *)
(* a handler that finishes the call is cut at that wait.                   *)
(***************************************************************************)
EXTENDS Integers, Sequences

CONSTANTS MaxWrites,   \* bound: messages the observer writes
          MaxMessages  \* bound: messages the server sends

ASSUME StreamAssumption == MaxWrites \in Nat /\ MaxMessages \in Nat

Types == {"Read", "Write", "Finish"}

VARIABLES grpc,      \* how many tags of each type gRPC holds
          posted,    \* the completions on the worker queue, cancelled ones left out
          buffered,  \* how many writes wait in queue_
          active,    \* has_active_write_
          finished,  \* is_grpc_call_finished_
          observer,  \* observer_ is set
          worker,    \* what the worker queue's thread waits for
          phase,     \* "new", "live", "gone"
          call,      \* the call as gRPC sees it
          handed,    \* what the observer has been told
          sound      \* no HARD_ASSERT has failed

stream == <<buffered, active, finished, observer>>
vars == <<grpc, posted, stream, worker, phase, call, handed, sound>>

Init == /\ grpc = [t \in Types |-> 0] /\ posted = <<>>
        /\ buffered = 0 /\ active = FALSE /\ finished = FALSE /\ observer = TRUE
        /\ worker = "free" /\ phase = "new"
        /\ call = [end |-> "no", sent |-> 0, read |-> 0, written |-> 0]
        /\ handed = [messages |-> 0, status |-> "none", closed |-> FALSE]
        /\ sound = TRUE

NoCompletions == posted = <<>> /\ \A t \in Types : grpc[t] = 0
Issue(type) == grpc' = [grpc EXCEPT ![type] = @ + 1]
Running == worker = "free" /\ phase = "live" /\ sound

-----------------------------------------------------------------------------
(* What the stream's owner does, on the worker queue. *)

Start == /\ phase = "new" /\ phase' = "live"
         /\ Issue("Read")
         /\ UNCHANGED <<posted, stream, worker, call, handed, sound>>

(* BufferedWriter::EnqueueWrite and MaybeWrite. *)
Write == /\ Running /\ observer /\ call.written < MaxWrites
         /\ call' = [call EXCEPT !.written = @ + 1]
         /\ \/ /\ ~active
               /\ active' = TRUE /\ Issue("Write") /\ UNCHANGED buffered
            \/ /\ active
               /\ buffered' = buffered + 1 /\ UNCHANGED <<active, grpc>>
         /\ UNCHANGED <<posted, finished, observer, worker, phase, handed, sound>>

(* FinishImmediately: Shutdown cancels the call if it is not finished yet, *)
(* cancels the callbacks, and waits; a stream that never started is gone   *)
(* at once.                                                                *)
Shutdown == /\ posted' = <<>>
            /\ IF finished \/ NoCompletions
               THEN worker' = "last" /\ UNCHANGED <<call, finished>>
               ELSE /\ call' = [call EXCEPT !.end = IF @ = "no" THEN "cancelled" ELSE @]
                    /\ finished' = TRUE /\ worker' = "closing"

FinishImmediately == /\ Running /\ observer
                     /\ Shutdown
                     /\ observer' = FALSE
                     /\ handed' = [handed EXCEPT !.closed = TRUE]
                     /\ UNCHANGED <<grpc, buffered, active, phase, sound>>

FinishUnstarted == /\ phase = "new" /\ phase' = "gone" /\ observer' = FALSE
                   /\ handed' = [handed EXCEPT !.closed = TRUE]
                   /\ UNCHANGED <<grpc, posted, buffered, active, finished, worker, call, sound>>

(* WriteAndFinish: a last write, if none is active, and a wait of at most  *)
(* half a second for it.                                                   *)
WriteAndFinish == /\ Running /\ observer /\ ~finished /\ ~active
                  /\ active' = TRUE /\ Issue("Write")
                  /\ worker' = "lastWrite"
                  /\ observer' = FALSE
                  /\ handed' = [handed EXCEPT !.closed = TRUE]
                  /\ UNCHANGED <<posted, buffered, finished, phase, call, sound>>

LastWriteWaited == /\ worker = "lastWrite"
                   /\ Shutdown
                   /\ UNCHANGED <<grpc, buffered, active, observer, phase, handed, sound>>

-----------------------------------------------------------------------------
(* The waits of FastFinishCompletionsBlocking, and what follows them. *)

Drained == \A t \in Types : grpc[t] = 0

(* A mutant: Finish does not wait for the other tags. *)
IssueFinishAtOnce == /\ worker \in {"failing", "closing"}
                     /\ Issue("Finish")
                     /\ worker' = IF worker = "failing" THEN "free" ELSE "last"
                     /\ UNCHANGED <<posted, stream, phase, call, handed, sound>>

(* FinishGrpcCall goes on: Finish is handed to gRPC. *)
IssueFinish == /\ worker \in {"failing", "closing"} /\ Drained
               /\ Issue("Finish")
               /\ worker' = IF worker = "failing" THEN "free" ELSE "last"
               /\ UNCHANGED <<posted, stream, phase, call, handed, sound>>

(* The stream may be destroyed: the owner does so at once. *)
Release == /\ worker = "last" /\ Drained
           /\ worker' = "free" /\ phase' = "gone"
           /\ sound' = (sound /\ NoCompletions)
           /\ UNCHANGED <<grpc, posted, stream, call, handed>>

-----------------------------------------------------------------------------
(* The callbacks of the completions, in the order of the worker queue. *)

Next1(type, ok) == /\ Running /\ posted # <<>>
                   /\ Head(posted).type = type /\ Head(posted).ok = ok

OnRead == /\ Next1("Read", TRUE)
          /\ posted' = Tail(posted)
          /\ Issue("Read")
          /\ handed' = [handed EXCEPT !.messages = @ + 1]
          /\ sound' = (sound /\ Head(posted).message = handed.messages + 1)
          /\ UNCHANGED <<stream, worker, phase, call>>

(* BufferedWriter::DequeueNextWrite. *)
OnWrite == /\ Next1("Write", TRUE)
           /\ posted' = Tail(posted)
           /\ \/ /\ buffered > 0
                 /\ buffered' = buffered - 1 /\ Issue("Write") /\ UNCHANGED active
              \/ /\ buffered = 0
                 /\ active' = FALSE /\ UNCHANGED <<buffered, grpc>>
           /\ UNCHANGED <<finished, observer, worker, phase, call, handed, sound>>

(* A mutant: a failure ends the call and asks for no status. *)
OnOperationFailedForgets ==
  /\ posted # <<>> /\ Running /\ ~Head(posted).ok
  /\ posted' = Tail(posted) /\ finished' = TRUE
  /\ UNCHANGED <<grpc, buffered, active, observer, worker, phase, call, handed, sound>>

(* OnOperationFailed: only the first failure finishes the call; what has   *)
(* been posted since is cancelled, a message that was read included.       *)
OnOperationFailed ==
  /\ posted # <<>> /\ Running /\ ~Head(posted).ok
  /\ \/ /\ finished
        /\ posted' = Tail(posted) /\ UNCHANGED <<finished, worker>>
     \/ /\ ~finished
        /\ posted' = <<>> /\ finished' = TRUE /\ worker' = "failing"
  /\ UNCHANGED <<grpc, buffered, active, observer, phase, call, handed, sound>>

(* FinishAndNotify, with the status of the call. *)
OnFinish == /\ Next1("Finish", TRUE)
            /\ posted' = <<>> /\ worker' = "last"
            /\ observer' = FALSE
            /\ handed' = [handed EXCEPT !.status = call.end]
            /\ UNCHANGED <<grpc, buffered, active, finished, phase, call, sound>>

-----------------------------------------------------------------------------
(* gRPC, the network and the server: a tag comes back once, with success   *)
(* while the call lives, with failure when it has ended.  A blocked worker *)
(* has cancelled the callback, so that nothing is left to post.            *)

Back(type, ok, message) ==
  /\ grpc[type] > 0
  /\ grpc' = [grpc EXCEPT ![type] = @ - 1]
  /\ posted' = IF worker \in {"free", "lastWrite"}
               THEN Append(posted, [type |-> type, ok |-> ok, message |-> message])
               ELSE posted
  /\ UNCHANGED <<stream, worker, phase, handed, sound>>

ReadBack == /\ call.read < call.sent /\ ~finished /\ call.end \in {"no", "status"}
            /\ Back("Read", TRUE, call.read + 1)
            /\ call' = [call EXCEPT !.read = @ + 1]
WriteBack == Back("Write", TRUE, 0) /\ ~finished /\ UNCHANGED call
FinishBack == Back("Finish", TRUE, 0) /\ call.end # "no" /\ UNCHANGED call
FailedBack == /\ call.end # "no"
              /\ \/ /\ call.read = call.sent \/ finished \/ call.end # "status"
                    /\ Back("Read", FALSE, 0)
                 \/ Back("Write", FALSE, 0)
              /\ UNCHANGED call

ServerSends == /\ call.end = "no" /\ call.sent < MaxMessages /\ phase = "live"
               /\ call' = [call EXCEPT !.sent = @ + 1]
               /\ UNCHANGED <<grpc, posted, stream, worker, phase, handed, sound>>
CallEnds == /\ call.end = "no" /\ phase = "live"
            /\ call' \in {[call EXCEPT !.end = e] : e \in {"status", "broken"}}
            /\ UNCHANGED <<grpc, posted, stream, worker, phase, handed, sound>>

-----------------------------------------------------------------------------

Returns == ReadBack \/ WriteBack \/ FinishBack \/ FailedBack
Waits == IssueFinish \/ Release \/ LastWriteWaited
Callbacks == OnRead \/ OnWrite \/ OnOperationFailed \/ OnFinish
Next == \/ Start \/ Write \/ FinishImmediately \/ FinishUnstarted \/ WriteAndFinish
        \/ LastWriteWaited \/ IssueFinish \/ Release
        \/ OnRead \/ OnWrite \/ OnOperationFailed \/ OnFinish
        \/ ReadBack \/ WriteBack \/ FinishBack \/ FailedBack
        \/ ServerSends \/ CallEnds

Spec == Init /\ [][Next]_vars
(* gRPC gives every tag of an ended call back, a wait that is over ends,   *)
(* and the worker runs what is posted.                                     *)
FairSpec == Spec /\ WF_vars(Returns) /\ WF_vars(Waits) /\ WF_vars(Callbacks)

-----------------------------------------------------------------------------
(* What must hold. *)

(* The types of the state. *)
TypeOK == /\ grpc \in [Types -> 0..2]
          /\ \A i \in DOMAIN posted : posted[i].type \in Types /\ posted[i].ok \in BOOLEAN
          /\ buffered \in 0..MaxWrites
          /\ {active, finished, observer, sound} \subseteq BOOLEAN
          /\ worker \in {"free", "lastWrite", "failing", "closing", "last"}
          /\ phase \in {"new", "live", "gone"}
          /\ handed.messages \in 0..MaxMessages

(* No HARD_ASSERT fails: the stream is destroyed only when no completion   *)
(* refers to it; and the observer gets the messages in order, none twice.  *)
NoAssertionFails == sound

(* gRPC's requirement, which BufferedWriter is there for: only one write   *)
(* is under way, also in the window between a failure and the status; and  *)
(* never more than one read.                                               *)
OneOfEach == grpc["Write"] <= 1 /\ grpc["Read"] <= 1

(* Finish is handed to gRPC only when all other tags are back, as the      *)
(* comment in FinishGrpcCall asks.                                         *)
FinishComesAlone ==
  [][grpc'["Finish"] > grpc["Finish"] => grpc'["Read"] = 0 /\ grpc'["Write"] = 0]_vars

(* Once its owner has closed it the stream tells the observer nothing more.*)
SilentOnceClosed ==
  [][handed.closed => handed'.messages = handed.messages /\ handed'.status = handed.status]_vars

(* An open stream is always listening: a read is under way, or its result  *)
(* waits to be handed over.                                                *)
AlwaysListening ==
  phase = "live" /\ observer /\ ~finished =>
    grpc["Read"] = 1 \/ \E i \in DOMAIN posted : posted[i].type = "Read"

(* The worker queue, on which all of Firestore runs, is never blocked for  *)
(* good by the wait for gRPC.                                              *)
WorkerComesFree == worker # "free" ~> worker = "free"

(* When the call ends the observer is told, unless it closed the stream.   *)
EndIsTold == call.end \in {"status", "broken"} ~> handed.status # "none" \/ handed.closed

(* The tags obey gRPC: one read and one write at most, Finish alone, and   *)
(* none is left when the stream is destroyed.                              *)
TagsFollowTheRules == [](TypeOK /\ NoAssertionFails /\ OneOfEach) /\ FinishComesAlone

(* The observer is served: the stream listens while it is open, tells the  *)
(* end of the call and nothing after it was closed, and frees the worker.  *)
ObserverIsServed == /\ []AlwaysListening /\ SilentOnceClosed
                    /\ EndIsTold /\ WorkerComesFree
===============================================================================
