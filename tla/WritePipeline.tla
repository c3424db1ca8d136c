---------------------------- MODULE WritePipeline ----------------------------
(***************************************************************************)
(* How a write reaches Cloud Firestore from the apps that use it           *)
(* (FrieStoreBasic, sendMessage): the SyncEngine's queue of pending        *)
(* writes, which leveldb keeps per user, the RemoteStore's write pipeline, *)
(* the write stream with its handshake, its idle, health and backoff       *)
(* timers, and the server.  Every handler runs on one worker queue, so a   *)
(* handler is one step; Stream::Close calls the RemoteStore back before it *)
(* returns, so the handlers are written as operators that take the state   *)
(* of the client and give the next one.  A HARD_ASSERT that does not hold  *)
(* ends the process: it clears "sound".                                    *)
(*                                                                         *)
(* Left out: what the documents hold and the views computed from them, the *)
(* stream token, which the client only stores and sends back, the lengths  *)
(* of the delays, and the watch stream.                                    *)
(***************************************************************************)
EXTENDS Integers, FiniteSets, Sequences, SequencesExt, FiniteSetsExt

CONSTANTS Users,              \* the users the credentials provider reports
          kMaxPendingWrites,  \* the size of the write pipeline (10)
          MaxWrites,          \* bound: how many writes the app makes
          MaxDisruptions,     \* bound: how many errors, restarts and changes
          MaxWaiters,         \* bound: how many times the app waits
          AcksBeforeStatus    \* the channel hands over every answer before
                              \* the status that ends the call

ASSUME PipelineAssumption == /\ kMaxPendingWrites \in Nat \ {0}
                             /\ {MaxWrites, MaxDisruptions, MaxWaiters} \subseteq Nat
                             /\ AcksBeforeStatus \in BOOLEAN

VARIABLES client,   \* the process and its database
          server,   \* what the server has committed and refused, and the
                    \* writes it answered in a way nobody could read
          written,  \* how many writes were made, and for whom each
          spent     \* disruptions spent
vars == <<client, server, written, spent>>

Closed == {"Initial", "Error"}
Statuses == {"permanent", "aborted", "transient"}

-----------------------------------------------------------------------------
(* The persisted queue: the batches of a user, by batch id. *)

ById(batches) ==
  CHOOSE q \in [1..Cardinality(batches) -> batches] :
    \A i, j \in DOMAIN q : i < j => q[i].id < q[j].id
AllBatches(s) == UNION {s.db[u] : u \in Users}
Ids(batches) == {b.id : b \in batches}

(* A mutant: batch ids start again with every process. *)
LoadNextBatchIdOne(s) == 1

LoadNextBatchId(s) == 1 + Max({0} \cup Ids(AllBatches(s)))

GetHighestUnacknowledgedBatchId(s) == Max({-1} \cup Ids(s.db[s.user]))

AddMutationBatch(s, w) ==
  LET batch == [id |-> s.next, write |-> w]
  IN [s EXCEPT !.next = @ + 1,
               !.db[s.user] = {b \in @ : b.id # s.next} \cup {batch}]

HardAssert(s, condition) == [s EXCEPT !.sound = @ /\ condition]

RemoveMutationBatch(s, id) ==
  [HardAssert(s, id \in Ids(s.db[s.user])) EXCEPT
     !.db[s.user] = {b \in @ : b.id # id}]

-----------------------------------------------------------------------------
(* The stream. *)

IsOpen(s) == s.state \in {"Open", "Healthy"}
IsStarted(s) == s.state \in {"Starting", "Backoff"} \/ IsOpen(s)

RequestCredentials(s) == [s EXCEPT !.requests = @ \cup {s.closes}]

Start(s) ==
  IF s.state = "Error"
  THEN [s EXCEPT !.state = "Backoff", !.backoff = TRUE]
  ELSE RequestCredentials([HardAssert(s, s.state = "Initial") EXCEPT !.state = "Starting"])

InhibitBackoff(s) == [HardAssert(s, ~IsStarted(s)) EXCEPT !.state = "Initial"]

MarkIdle(s) == IF IsOpen(s) THEN [s EXCEPT !.idle = TRUE] ELSE s

(* The messages in ms, one after the other. *)
Write(s, ms) ==
  IF ms = <<>> THEN s
  ELSE [HardAssert(s, IsOpen(s)) EXCEPT !.idle = FALSE, !.out = @ \o ms]

Handshake == [kind |-> "handshake"]
WritesOf(m) == IF m.kind = "writes" THEN {m.batch.write} ELSE {}
Requests(bs) == [i \in DOMAIN bs |-> [kind |-> "writes", batch |-> bs[i]]]
WriteHandshake(s) == Write(HardAssert(s, ~s.handshake), <<Handshake>>)
WriteMutations(s, bs) ==
  Write(HardAssert(s, bs = <<>> \/ s.handshake), Requests(bs))

-----------------------------------------------------------------------------
(* The RemoteStore. *)

CanAddToWritePipeline(s) == s.network /\ Len(s.pipeline) < kMaxPendingWrites
ShouldStartWriteStream(s) == s.network /\ ~IsStarted(s) /\ s.pipeline # <<>>

(* The batches in bs, one after the other: the last may fill the pipeline. *)
AddToWritePipeline(s, bs) ==
  LET fits == s.network /\ Len(s.pipeline) + Len(bs) <= kMaxPendingWrites
      t == [HardAssert(s, bs = <<>> \/ fits) EXCEPT !.pipeline = @ \o bs]
  IN IF IsOpen(t) /\ t.handshake THEN WriteMutations(t, bs) ELSE t

(* What the loop adds: the batches that follow, as many as there is room for. *)
Fitting(s) ==
  LET last == IF s.pipeline = <<>> THEN -1 ELSE Last(s.pipeline).id
      more == ById({b \in s.db[s.user] : b.id > last})
      room == IF s.network THEN kMaxPendingWrites - Len(s.pipeline) ELSE 0
  IN SubSeq(more, 1, IF Len(more) < room THEN Len(more) ELSE room)

FillWritePipeline(s) ==
  LET filled == AddToWritePipeline(s, Fitting(s))
      u == IF CanAddToWritePipeline(filled) /\ filled.pipeline = <<>>
             THEN MarkIdle(filled) ELSE filled
  IN IF ShouldStartWriteStream(u) THEN Start(u) ELSE u

-----------------------------------------------------------------------------
(* The SyncEngine's bookkeeping. *)

NotifyUser(s, id, ok) ==
  LET called == {c \in s.callbacks : c.user = s.user /\ c.id = id}
      c == CHOOSE d \in called : TRUE
  IN IF called = {} THEN s
     ELSE [s EXCEPT !.callbacks = @ \ called,
                    !.told = Append(@, [write |-> c.write, ok |-> ok])]

TriggerPendingWriteCallbacks(s, id) ==
  LET called == {c \in s.waiters : c.id = id}
  IN [s EXCEPT !.waiters = @ \ called,
               !.woken = @ \cup {[number |-> c.number, ok |-> TRUE] : c \in called}]

FailOutstandingPendingWriteCallbacks(s) ==
  [s EXCEPT !.waiters = {},
            !.woken = @ \cup {[number |-> c.number, ok |-> FALSE] : c \in s.waiters}]

HandleSuccessfulWrite(s, id) ==
  RemoveMutationBatch(TriggerPendingWriteCallbacks(NotifyUser(s, id, TRUE), id), id)

HandleRejectedWrite(s, id) ==
  TriggerPendingWriteCallbacks(NotifyUser(RemoveMutationBatch(s, id), id, FALSE), id)

-----------------------------------------------------------------------------
(* The end of a stream, and of the network. *)

IsPermanentWriteError(status) == status = "permanent"

HandleWriteError(s, status) ==
  IF ~IsPermanentWriteError(status) THEN s
  ELSE LET t == InhibitBackoff([s EXCEPT !.pipeline = Tail(@)])
       IN FillWritePipeline(HandleRejectedWrite(t, Head(s.pipeline).id))

(* A mutant: an error before the handshake counts for a write. *)
OnWriteStreamCloseAnyTime(s, status) ==
  LET t == IF status = "ok" THEN HardAssert(s, ~ShouldStartWriteStream(s)) ELSE s
      u == IF status # "ok" /\ t.pipeline # <<>> THEN HandleWriteError(t, status) ELSE t
  IN IF ShouldStartWriteStream(u) THEN Start(u) ELSE u

(* A mutant: a stream that failed is not started again. *)
OnWriteStreamCloseForGood(s, status) ==
  LET t == IF status = "ok" THEN HardAssert(s, ~ShouldStartWriteStream(s)) ELSE s
  IN IF status # "ok" /\ t.pipeline # <<>> /\ t.handshake
     THEN HandleWriteError(t, status) ELSE t

OnWriteStreamClose(s, status) ==
  LET t == IF status = "ok" THEN HardAssert(s, ~ShouldStartWriteStream(s)) ELSE s
      u == IF status # "ok" /\ t.pipeline # <<>> /\ t.handshake
             THEN HandleWriteError(t, status) ELSE t
  IN IF ShouldStartWriteStream(u) THEN Start(u) ELSE u

Close(s, status) ==
  IF status = "ok" /\ ~IsStarted(s) THEN s
  ELSE LET t == [HardAssert(s, IsStarted(s)) EXCEPT
                   !.idle = FALSE, !.backoff = FALSE, !.health = FALSE,
                   !.closes = @ + 1, !.call = FALSE, !.out = <<>>, !.in = <<>>,
                   !.state = IF status = "ok" THEN "Initial" ELSE "Error"]
       IN [OnWriteStreamClose(t, status) EXCEPT !.handshake = FALSE]

EnableNetwork(s) == FillWritePipeline([s EXCEPT !.network = TRUE])

DisableNetwork(s) ==
  [Close([s EXCEPT !.network = FALSE], "ok") EXCEPT !.pipeline = <<>>]

RestartNetwork(s) == EnableNetwork(InhibitBackoff(DisableNetwork(s)))

(* A process that has just started with the database db for the user u. *)
Launch(db, u, history) ==
  LET idle == [db |-> db, user |-> u, next |-> 0,
               callbacks |-> {}, told |-> history.told,
               waiters |-> {}, woken |-> history.woken,
               network |-> FALSE, pipeline |-> <<>>,
               state |-> "Initial", closes |-> 0, handshake |-> FALSE,
               idle |-> FALSE, backoff |-> FALSE, health |-> FALSE,
               requests |-> {}, call |-> FALSE, out |-> <<>>, in |-> <<>>,
               sound |-> TRUE]
  IN EnableNetwork([idle EXCEPT !.next = LoadNextBatchId(idle)])

-----------------------------------------------------------------------------
(* The steps of the client, one for each operation on its worker queue. *)

Init == /\ \E u \in Users :
             client = Launch([x \in Users |-> {}], u, [told |-> <<>>, woken |-> {}])
        /\ server = [firsts |-> <<>>, refused |-> {}, garbled |-> {}]
        /\ written = <<>>
        /\ spent = 0

Disrupt == spent < MaxDisruptions /\ spent' = spent + 1

(* SyncEngine::WriteMutations *)
WriteDocument ==
  LET w == Len(written) + 1
      s == AddMutationBatch(client, w)
      c == [user |-> s.user, id |-> client.next, write |-> w]
      taken == \E d \in s.callbacks : d.user = c.user /\ d.id = c.id
  IN /\ w <= MaxWrites
     /\ written' = Append(written, client.user)
     /\ client' = FillWritePipeline(
                    IF taken THEN s ELSE [s EXCEPT !.callbacks = @ \cup {c}])
     /\ UNCHANGED <<server, spent>>

(* SyncEngine::RegisterPendingWritesCallback *)
WaitForPendingWrites ==
  LET number == 1 + Max({0} \cup {c.number : c \in client.waiters \cup client.woken})
      last == GetHighestUnacknowledgedBatchId(client)
  IN /\ number <= MaxWaiters
     /\ client' =
          IF last = -1
          THEN [client EXCEPT !.woken = @ \cup {[number |-> number, ok |-> TRUE]}]
          ELSE [client EXCEPT !.waiters = @ \cup
                  {[number |-> number, id |-> last,
                    for |-> {b.write : b \in client.db[client.user]}]}]
     /\ UNCHANGED <<server, written, spent>>

(* SyncEngine::HandleCredentialChange; the same user again is a new token. *)
CredentialChange ==
  \E u \in Users :
    LET failed == FailOutstandingPendingWriteCallbacks(client)
        moved == [failed EXCEPT !.user = u, !.next = LoadNextBatchId(client)]
        s == IF u = client.user THEN client ELSE moved
    IN /\ Disrupt
       /\ client' = IF s.network THEN RestartNetwork(s) ELSE s
       /\ UNCHANGED <<server, written>>

NetworkOff == /\ client.network /\ Disrupt
              /\ client' = DisableNetwork(client)
              /\ UNCHANGED <<server, written>>

NetworkOn == /\ ~client.network
             /\ client' = EnableNetwork(client)
             /\ UNCHANGED <<server, written, spent>>

(* The answer of the credentials provider, which a closed stream ignores. *)
CredentialsArrive ==
  \E count \in client.requests :
    LET s == [client EXCEPT !.requests = @ \ {count}]
        t == [HardAssert(s, s.state = "Starting") EXCEPT !.call = TRUE, !.state = "Open"]
    IN /\ client' = IF count # s.closes THEN s
                    ELSE [WriteHandshake(t) EXCEPT !.health = TRUE]
       /\ UNCHANGED <<server, written, spent>>

CredentialsFail ==
  \E count \in client.requests :
    LET s == [client EXCEPT !.requests = @ \ {count}]
    IN /\ Disrupt
       /\ client' = IF count # s.closes THEN s
                    ELSE Close(HardAssert(s, s.state = "Starting"), "transient")
       /\ UNCHANGED <<server, written>>

IdleTimer == /\ client.idle
             /\ client' = Close([client EXCEPT !.idle = FALSE], "ok")
             /\ UNCHANGED <<server, written, spent>>

HealthTimer == /\ client.health
               /\ client' = [client EXCEPT !.health = FALSE,
                               !.state = IF IsOpen(client) THEN "Healthy" ELSE @]
               /\ UNCHANGED <<server, written, spent>>

BackoffTimer ==
  LET s == HardAssert([client EXCEPT !.backoff = FALSE], client.state = "Backoff")
      t == Start([s EXCEPT !.state = "Initial"])
  IN /\ client.backoff
     /\ client' = HardAssert(t, IsStarted(t))
     /\ UNCHANGED <<server, written, spent>>

(* WriteStream::NotifyStreamResponse, for the answer at the front. *)
Answered(s) == [HardAssert(s, IsStarted(s)) EXCEPT !.in = Tail(@)]

(* A mutant: the handshake is done and the pipeline is not sent. *)
HandshakeAnswerSilent ==
  /\ client.in # <<>> /\ Head(client.in).kind # "end"
  /\ ~client.handshake
  /\ client' = [Answered(client) EXCEPT !.handshake = TRUE]
  /\ UNCHANGED <<server, written, spent>>

HandshakeAnswer ==
  LET s == [Answered(client) EXCEPT !.handshake = TRUE]
  IN /\ client.in # <<>> /\ Head(client.in).kind # "end"
     /\ ~client.handshake
     /\ client' = WriteMutations(s, s.pipeline)
     /\ UNCHANGED <<server, written, spent>>

MutationResult ==
  LET s == HardAssert(Answered(client), client.pipeline # <<>>)
      t == [s EXCEPT !.pipeline = Tail(@)]
  IN /\ client.in # <<>> /\ Head(client.in).kind # "end"
     /\ client.handshake
     /\ client' = FillWritePipeline(HandleSuccessfulWrite(t, Head(s.pipeline).id))
     /\ UNCHANGED <<server, written, spent>>

(* The answer at the front does not parse.                                 *)
Garbled == /\ client.in # <<>> /\ Head(client.in).kind # "end"
           /\ server' = IF Head(client.in).kind = "ack"
                        THEN [server EXCEPT !.garbled = @ \cup {Head(client.in).batch.write}]
                        ELSE server

(* The stream is closed with a data loss, which counts as permanent.       *)
AnswerUnreadable ==
  /\ Garbled /\ Disrupt
  /\ client' = Close(Answered(client), "permanent")
  /\ UNCHANGED written

(* The status of a call that the server ended. *)
Finishing == /\ client.in # <<>> /\ Last(client.in).kind = "end"
             /\ AcksBeforeStatus => Len(client.in) = 1

StreamFinish ==
  /\ Finishing
  /\ client' = Close(client, Last(client.in).status)
  /\ UNCHANGED <<server, written, spent>>

(* The connection breaks: what is under way in both directions is lost. *)
ConnectionLost == /\ client.call /\ Disrupt
                  /\ client' = Close(client, "transient")
                  /\ UNCHANGED <<server, written>>

-----------------------------------------------------------------------------
(* The process ends and is started again, with whichever user signed in:   *)
(* between two operations, or inside one that settles a write, before the  *)
(* last of what outlives the process, the queue and what the app heard.    *)

Crash == /\ Disrupt
         /\ \E u \in Users : client' = Launch(client.db, u, client)
         /\ UNCHANGED <<server, written>>

(* After the writer was told, or also those who waited for the write.      *)
CrashInResult ==
  LET id == Head(client.pipeline).id
      told == NotifyUser(client, id, TRUE)
  IN /\ client.in # <<>> /\ Head(client.in).kind = "ack" /\ client.handshake
     /\ Disrupt
     /\ \E u \in Users, s \in {told, TriggerPendingWriteCallbacks(told, id)} :
          client' = Launch(s.db, u, s)
     /\ UNCHANGED <<server, written>>

(* After the batch was removed, or also the writer told.                   *)
CrashInReject ==
  LET id == Head(client.pipeline).id
      removed == RemoveMutationBatch(client, id)
  IN /\ client.handshake /\ client.pipeline # <<>>
     /\ \/ Finishing /\ IsPermanentWriteError(Last(client.in).status) /\ UNCHANGED server
        \/ Garbled
     /\ Disrupt
     /\ \E u \in Users, s \in {removed, NotifyUser(removed, id, FALSE)} :
          client' = Launch(s.db, u, s)
     /\ UNCHANGED written

-----------------------------------------------------------------------------
(* The server: it answers the requests of a call in order, commits a batch *)
(* as a whole, and ends the call when it refuses one.  A batch it has      *)
(* committed may come again, on a later call, and may then be refused.     *)

Ended == client.in # <<>> /\ Last(client.in).kind = "end"
Serving == client.out # <<>> /\ ~Ended

ServerAnswers ==
  LET m == Head(client.out)
      answer == IF m.kind = "handshake" THEN Handshake
                ELSE [kind |-> "ack", batch |-> m.batch]
      new == WritesOf(m) \ ToSet(server.firsts)
  IN /\ Serving
     /\ client' = [client EXCEPT !.out = Tail(@), !.in = Append(@, answer)]
     /\ server' = IF new = {} THEN server
                  ELSE [server EXCEPT !.firsts = Append(@, m.batch.write)]
     /\ UNCHANGED <<written, spent>>

ServerRefuses ==
  /\ Serving /\ Disrupt
  /\ \E status \in Statuses :
       /\ client' = [client EXCEPT !.out = Tail(@),
                       !.in = Append(@, [kind |-> "end", status |-> status,
                                         of |-> Head(client.out)])]
       /\ server' = IF status = "permanent"
                    THEN [server EXCEPT !.refused = @ \cup WritesOf(Head(client.out))]
                    ELSE server
  /\ UNCHANGED written

-----------------------------------------------------------------------------

Live == client.sound
Next == Live /\ (\/ WriteDocument \/ WaitForPendingWrites \/ CredentialChange
                 \/ NetworkOff \/ NetworkOn
                 \/ CredentialsArrive \/ CredentialsFail
                 \/ IdleTimer \/ HealthTimer \/ BackoffTimer
                 \/ HandshakeAnswer \/ MutationResult \/ AnswerUnreadable
                 \/ StreamFinish \/ ConnectionLost
                 \/ Crash \/ CrashInResult \/ CrashInReject
                 \/ ServerAnswers \/ ServerRefuses)

Spec == Init /\ [][Next]_vars

(* The worker queue does not stop while an answer, a status, a token or a  *)
(* backoff timer is there to be handled, and a server that can be reached  *)
(* answers; the app that turned the network off turns it on again.  The    *)
(* idle and health timers need not fire.  Disruptions end with the bound.  *)
(* Fairness is WF_vars(Live /\ Progress), whose ENABLED is CanProgress: a  *)
(* record is evaluated anew at each use inside ENABLED, and handlers nest. *)
Progress == \/ HandshakeAnswer \/ MutationResult \/ StreamFinish
            \/ CredentialsArrive \/ BackoffTimer
            \/ ServerAnswers \/ NetworkOn
CanProgress == \/ client.in # <<>> \/ client.requests # {} \/ client.backoff
               \/ Serving \/ ~client.network
Fairness == []<>(~(Live /\ CanProgress)) \/ []<><<Live /\ Progress>>_vars
FairSpec == Spec /\ Fairness

-----------------------------------------------------------------------------
(* What must hold. *)

Writes == 1..MaxWrites
Batches == [id : Nat, write : Writes]
AllRequests == [kind : {"handshake"}] \cup [kind : {"writes"}, batch : Batches]
AllAnswers == [kind : {"handshake"}] \cup [kind : {"ack"}, batch : Batches]
                \cup [kind : {"end"}, status : Statuses, of : AllRequests]

(* The types of the client's state, of the server's and of the history.    *)
TypeOK ==
  /\ client.state \in {"Starting", "Backoff", "Open", "Healthy"} \cup Closed
  /\ \A u \in Users : client.db[u] \subseteq Batches
  /\ client.pipeline \in Seq(Batches) /\ Len(client.pipeline) <= kMaxPendingWrites
  /\ client.out \in Seq(AllRequests) /\ client.in \in Seq(AllAnswers)
  /\ client.told \in Seq([write : Writes, ok : BOOLEAN])
  /\ client.requests \subseteq 0..client.closes
  /\ server.firsts \in Seq(Writes)
  /\ server.refused \subseteq Writes /\ server.garbled \subseteq Writes
  /\ written \in Seq(Users) /\ spent \in 0..MaxDisruptions

(* No order of events makes one of the HARD_ASSERTs of the stream, the     *)
(* RemoteStore and the mutation queue end the process.                     *)
NoAssertionFails == client.sound

(* After the handshake the answers on their way to the client, then the    *)
(* requests on their way to the server, are the batches of the pipeline in *)
(* its order: so an answer may be correlated with the front, as            *)
(* OnWriteStreamMutationResult does.                                       *)
Answers(m, b) == \/ m.kind = "ack" /\ m.batch = b
                 \/ m.kind = "end" /\ WritesOf(m.of) = {b.write}
AnswersMatchPipeline ==
  LET answered == Len(client.in)
  IN client.handshake =>
       /\ Len(client.pipeline) = answered + Len(client.out)
       /\ \A i \in DOMAIN client.in : Answers(client.in[i], client.pipeline[i])
       /\ \A i \in DOMAIN client.out :
            client.out[i] = [kind |-> "writes", batch |-> client.pipeline[answered + i]]

(* The pipeline holds the oldest batches of the current user's queue.      *)
PipelineIsFrontOfQueue ==
  LET queue == ById(client.db[client.user])
  IN IsPrefix(client.pipeline, queue)

(* The idle timer runs only while there is nothing to write.               *)
IdleOnlyWhenNothingToWrite ==
  client.idle => IsOpen(client) /\ client.db[client.user] = {}

(* No write the app was allowed to make is lost by an error, a change of   *)
(* user or a crash: it is still queued, or the server has decided on it.   *)
NoWriteLost ==
  \A w \in DOMAIN written :
    \/ w \in {b.write : b \in client.db[written[w]]}
    \/ w \in ToSet(server.firsts) \cup server.refused

(* The server first commits the writes of a user in the order in which the *)
(* app made them, however often they are sent.                             *)
CommittedInOrder ==
  \A i, j \in DOMAIN server.firsts :
    i < j /\ written[server.firsts[i]] = written[server.firsts[j]]
      => server.firsts[i] < server.firsts[j]

(* The app is told about each write of a user at most once, in their order.*)
ToldOnceInOrder ==
  \A i, j \in DOMAIN client.told :
    i < j /\ written[client.told[i].write] = written[client.told[j].write]
      => client.told[i].write < client.told[j].write

(* A write the app hears succeeded was committed.                          *)
SuccessIsTrue ==
  \A i \in DOMAIN client.told :
    client.told[i].ok => client.told[i].write \in ToSet(server.firsts)

(* A write the app hears failed was refused, or committed with an answer   *)
(* that could not be read: the comment of HandleWriteError says only "the  *)
(* request itself was the problem".  And only so if no answer is left      *)
(* behind by the status that ends the call.                                *)
FailureIsTrue ==
  AcksBeforeStatus =>
    \A i \in DOMAIN client.told :
      ~client.told[i].ok => client.told[i].write \in server.refused \cup server.garbled

(* Every callback that still waits belongs to a batch that is still        *)
(* queued, so none is forgotten and none answers for another write.        *)
CallbacksHaveBatches ==
  \A c \in client.callbacks :
    [id |-> c.id, write |-> c.write] \in client.db[c.user]

(* waitForPendingWrites succeeds only when the server has decided on every *)
(* write that was pending at the call ("have been acknowledged by the      *)
(* backend", FIRFirestore.h): also in a process that ends before the last  *)
(* of them has left the queue, and sends it again in its next life.        *)
WokenWhenDone ==
  [][\A c \in client.waiters :
       [number |-> c.number, ok |-> TRUE] \in client'.woken
         => c.for \subseteq ToSet(server'.firsts) \cup server'.refused]_vars

(* The queue of the current user is always emptied again, whatever streams *)
(* failed, closed or were idle in between.                                 *)
QueueDrains == []<>(client.db[client.user] = {})

(* And whoever waits for the pending writes is woken, or dies waiting.     *)
WaitersWoken == client.waiters # {} ~> client.waiters = {}

(* The pipeline, the stream and what is under way are in step, whatever    *)
(* order answers, timers, tokens and disruptions come in.                  *)
PipelineInStep == /\ TypeOK /\ NoAssertionFails
                  /\ AnswersMatchPipeline /\ PipelineIsFrontOfQueue
                  /\ IdleOnlyWhenNothingToWrite

(* What the app and the server end up with: no write is lost or overtaken, *)
(* and what the app hears of a write is true and about that write.         *)
OutcomesAreTrue == /\ NoWriteLost /\ CommittedInOrder
                   /\ ToldOnceInOrder /\ SuccessIsTrue /\ FailureIsTrue
                   /\ CallbacksHaveBatches

(* The queue and those who wait for it are served: the queue drains,       *)
(* waiters are woken, with success only when their writes are decided.     *)
QueueIsServed == QueueDrains /\ WaitersWoken /\ WokenWhenDone

(* The pipeline, the stream and the crashes implement a durable queue.     *)
Queue == INSTANCE DurableWrites WITH
  pending <- [u \in Users |-> LET queue == ById(client.db[u])
                              IN [i \in DOMAIN queue |-> queue[i].write]],
  made <- Len(written),
  heard <- client.told
ImplementsDurableWrites == Queue!Spec
=============================================================================
