------------------------------ MODULE Observers ------------------------------
(***************************************************************************)
(* RealTimeDataBasic: a screen that registers an observer whenever it is   *)
(* about to appear, reads once at a tap and removes a value at another,    *)
(* composed with the client of the Realtime Database it calls into.  The   *)
(* app's handlers and callbacks run on the main queue; the client runs on  *)
(* a queue of its own, which takes what the app dispatched to it and what  *)
(* the connection received in any interleaving.                            *)
(*                                                                         *)
(* The database holds one value that matters here, users/1234/.../date:    *)
(* Removed, or the number of the last write of another client.             *)
(***************************************************************************)
EXTENDS Integers, Sequences, FiniteSets

CONSTANTS MaxAppearances,  \* bound: how often the screen comes up
          MaxReads,        \* bound: taps on Get Data
          MaxRemovals,     \* bound: taps on Remove Data
          MaxOthers,       \* bound: writes of other clients
          MaxDrops         \* bound: connections that break

ASSUME BoundsAssumption == {MaxAppearances, MaxReads, MaxRemovals, MaxOthers, MaxDrops} \subseteq Nat

Removed == 0
Unknown == -1              \* no complete server data in the cache
Handles == 1..MaxAppearances
Reads == 1..MaxReads
Removals == 1..MaxRemovals

VARIABLES screen,    \* "hidden", "appearing", "shown", "leaving"
          refHandle, \* the handle of the last observer registered
          reads,     \* taps on Get Data
          removals,  \* taps on Remove Data
          alert,     \* "Data removed!" is up
          mainQueue, \* blocks raised to the main queue
          dbQueue,   \* blocks dispatched to the client's queue
          observers, \* handles registered with the view at the root
          onces,     \* reads registered with the view at users/1234
          cache,     \* the server's value, as far as the client knows it
          writes,    \* the removals that overlay the cache
          conn,      \* the connection, see Offline
          server,    \* the value and the greatest one written so far
          told,      \* what each observer was told last
          newest,    \* history: the newest write each observer was told
          answered,  \* how often each read was answered
          completed, \* the removals whose completion ran
          erased     \* history: per removal, the value it found; Unknown before

app == <<screen, refHandle, reads, removals, alert>>
client == <<observers, onces, cache, writes>>
heard == <<told, newest, answered, completed>>
vars == <<app, mainQueue, dbQueue, client, conn, server, heard, erased>>

(* puts: outstanding; toAck: answered while a listen was not; unacked:     *)
(* listens sent and not answered; owed, listening: the server's session.   *)
Offline == [up |-> FALSE, listens |-> FALSE, puts |-> {}, toAck |-> <<>>, unacked |-> 0,
            toServer |-> <<>>, toClient |-> <<>>, owed |-> 0, listening |-> FALSE, drops |-> 0]

Init == /\ screen = "hidden" /\ refHandle = 0 /\ reads = 0 /\ removals = 0 /\ alert = FALSE
        /\ mainQueue = <<>> /\ dbQueue = <<>>
        /\ observers = {} /\ onces = {} /\ cache = Unknown /\ writes = {}
        /\ conn = Offline
        /\ server = [value |-> Removed, last |-> 0]
        /\ told = [h \in Handles |-> Unknown] /\ newest = [h \in Handles |-> 0]
        /\ answered = [r \in Reads |-> 0] /\ completed = {}
        /\ erased = [w \in Removals |-> Unknown]

-----------------------------------------------------------------------------
(* The screen.  A swipe back that is given up again is an appearing that   *)
(* turns into a leaving.                                                   *)

viewWillAppear == /\ screen = "hidden" /\ refHandle < MaxAppearances
                  /\ screen' = "appearing" /\ refHandle' = refHandle + 1
                  /\ dbQueue' = Append(dbQueue, [op |-> "observe", id |-> refHandle'])
                  /\ UNCHANGED <<reads, removals, alert, mainQueue, client, conn, server, heard, erased>>

Lifecycle(from, to) == /\ screen \in from /\ screen' = to
                       /\ UNCHANGED <<refHandle, reads, removals, alert, mainQueue, dbQueue,
                                      client, conn, server, heard, erased>>
DidAppear == Lifecycle({"appearing"}, "shown")
WillDisappear == ~alert /\ Lifecycle({"appearing", "shown"}, "leaving")
viewDidDisappear == Lifecycle({"leaving"}, "hidden")

pressBtn == /\ screen = "shown" /\ ~alert /\ reads < MaxReads
            /\ reads' = reads + 1
            /\ dbQueue' = Append(dbQueue, [op |-> "once", id |-> reads'])
            /\ UNCHANGED <<screen, refHandle, removals, alert, mainQueue, client, conn, server, heard, erased>>

removeData == /\ screen = "shown" /\ ~alert /\ removals < MaxRemovals
              /\ removals' = removals + 1
              /\ dbQueue' = Append(dbQueue, [op |-> "remove", id |-> removals'])
              /\ UNCHANGED <<screen, refHandle, reads, alert, mainQueue, client, conn, server, heard, erased>>

DismissAlert == /\ alert /\ alert' = FALSE
                /\ UNCHANGED <<screen, refHandle, reads, removals, mainQueue, dbQueue,
                               client, conn, server, heard, erased>>

FirstAnswers(rs) == {r \in rs : answered[r] = 0}

(* One block of the main queue.  Consecutive callbacks of one change are   *)
(* one block here.  A read hands on its first event only, and asks for its *)
(* removal; the completion of a removal presents the alert, which UIKit    *)
(* ignores when the view is in no window or another alert is up.           *)
RaisedValue ==
  /\ mainQueue # <<>> /\ Head(mainQueue).block = "value"
  /\ LET b == Head(mainQueue)
         first == FirstAnswers(b.reads)
     IN /\ told' = [h \in Handles |-> IF h \in b.observers THEN b.value ELSE told[h]]
        /\ newest' = [h \in Handles |-> IF told'[h] > newest[h] THEN told'[h] ELSE newest[h]]
        /\ answered' = [r \in Reads |-> IF r \in first THEN answered[r] + 1 ELSE answered[r]]
        /\ dbQueue' = IF first = {} THEN dbQueue
                      ELSE Append(dbQueue, [op |-> "removeOnce", ids |-> first])
  /\ mainQueue' = Tail(mainQueue)
  /\ UNCHANGED <<app, client, conn, server, completed, erased>>

RaisedCompletion ==
  /\ mainQueue # <<>> /\ Head(mainQueue).block = "done"
  /\ alert' = (alert \/ (Head(mainQueue).ok /\ screen # "hidden"))
  /\ completed' = completed \union {Head(mainQueue).id}
  /\ mainQueue' = Tail(mainQueue)
  /\ UNCHANGED <<screen, refHandle, reads, removals, dbQueue, client, conn, server, told, newest, answered, erased>>

-----------------------------------------------------------------------------
(* The client's queue: what the app dispatched. *)

View(c, ws) == IF c = Unknown THEN Unknown ELSE IF ws # {} THEN Removed ELSE c

ToMain(value, os, rs) ==
  IF value = Unknown \/ os \union rs = {} THEN <<>>
  ELSE <<[block |-> "value", value |-> value, observers |-> os, reads |-> rs]>>

(* A view that exists raises an event when its value changes. *)
Changed(old, new) == IF old = new THEN <<>> ELSE ToMain(new, observers, onces)

Op(op) == dbQueue # <<>> /\ Head(dbQueue).op = op /\ dbQueue' = Tail(dbQueue)
Sent(c, request) == IF c.up THEN [c EXCEPT !.toServer = Append(@, request)] ELSE c
SendListen(c) == IF c.up THEN [Sent(c, [req |-> "listen"]) EXCEPT !.unacked = @ + 1] ELSE c
SendPut(c, w) == Sent(c, [req |-> "put", id |-> w])

AddObserver == /\ Op("observe")
               /\ observers' = observers \union {Head(dbQueue).id}
               /\ mainQueue' = mainQueue \o ToMain(View(cache, writes), {Head(dbQueue).id}, {})
               /\ conn' = IF conn.listens THEN conn ELSE SendListen([conn EXCEPT !.listens = TRUE])
               /\ UNCHANGED <<app, onces, cache, writes, server, heard, erased>>

(* The view at users/1234 lies below the one that is listened to. *)
AddOnce == /\ Op("once")
           /\ onces' = onces \union {Head(dbQueue).id}
           /\ mainQueue' = mainQueue \o ToMain(View(cache, writes), {}, {Head(dbQueue).id})
           /\ UNCHANGED <<app, observers, cache, writes, conn, server, heard, erased>>

RemoveOnce == /\ Op("removeOnce")
              /\ onces' = onces \ Head(dbQueue).ids
              /\ UNCHANGED <<app, mainQueue, observers, cache, writes, conn, server, heard, erased>>

RemoveValue == /\ Op("remove")
               /\ writes' = writes \union {Head(dbQueue).id}
               /\ mainQueue' = mainQueue \o Changed(View(cache, writes), View(cache, writes'))
               /\ conn' = SendPut([conn EXCEPT !.puts = @ \union {Head(dbQueue).id}], Head(dbQueue).id)
               /\ UNCHANGED <<app, observers, onces, cache, server, heard, erased>>

-----------------------------------------------------------------------------
(* The client's queue: what the connection received. *)

Receive(msg) == /\ conn.toClient # <<>> /\ Head(conn.toClient).msg = msg
Rest(c) == [c EXCEPT !.toClient = Tail(@)]

(* A mutant: an event that overtakes those already raised. *)
OnDataUpdateAhead ==
  /\ Receive("data")
  /\ cache' = Head(conn.toClient).value
  /\ mainQueue' = Changed(View(cache, writes), View(cache', writes)) \o mainQueue
  /\ conn' = Rest(conn)
  /\ UNCHANGED <<app, dbQueue, observers, onces, writes, server, heard, erased>>

OnDataUpdate == /\ Receive("data")
                /\ cache' = Head(conn.toClient).value
                /\ mainQueue' = mainQueue \o Changed(View(cache, writes), View(cache', writes))
                /\ conn' = Rest(conn)
                /\ UNCHANGED <<app, dbQueue, observers, onces, writes, server, heard, erased>>

AckedIds(acks, n) == {acks[i].id : i \in 1..n}

(* ackWrite and callOnComplete for the answers in acks, in order.          *)
Acked(ws, acks) ==
  LET raised[n \in 0..Len(acks)] ==
        IF n = 0 THEN <<>>
        ELSE raised[n - 1]
             \o Changed(View(cache, ws \ AckedIds(acks, n - 1)), View(cache, ws \ AckedIds(acks, n)))
             \o <<[block |-> "done", ok |-> acks[n].ok, id |-> acks[n].id]>>
  IN raised[Len(acks)]

AckPuts(acks) == /\ mainQueue' = mainQueue \o Acked(writes, acks)
                 /\ writes' = writes \ AckedIds(acks, Len(acks))

OnListenResponse ==
  /\ Receive("listening")
  /\ IF conn.unacked = 1
     THEN /\ AckPuts(conn.toAck)
          /\ conn' = [Rest(conn) EXCEPT !.unacked = 0, !.toAck = <<>>]
     ELSE /\ conn' = [Rest(conn) EXCEPT !.unacked = @ - 1]
          /\ UNCHANGED <<mainQueue, writes>>
  /\ UNCHANGED <<app, dbQueue, observers, onces, cache, server, heard, erased>>

(* A mutant: the answer is passed on while a listen is still out. *)
OnPutResponseAtOnce ==
  /\ Receive("put")
  /\ LET a == [id |-> Head(conn.toClient).id, ok |-> Head(conn.toClient).ok]
     IN AckPuts(<<a>>) /\ conn' = [Rest(conn) EXCEPT !.puts = @ \ {a.id}]
  /\ UNCHANGED <<app, dbQueue, observers, onces, cache, server, heard, erased>>

(* The answer to a put waits while the answer to a listen is out. *)
OnPutResponse ==
  /\ Receive("put")
  /\ LET a == [id |-> Head(conn.toClient).id, ok |-> Head(conn.toClient).ok]
         c == [Rest(conn) EXCEPT !.puts = @ \ {a.id}]
     IN \/ /\ conn.unacked = 0
           /\ AckPuts(<<a>>) /\ conn' = c
        \/ /\ conn.unacked > 0
           /\ conn' = [c EXCEPT !.toAck = Append(@, a)] /\ UNCHANGED <<mainQueue, writes>>
  /\ UNCHANGED <<app, dbQueue, observers, onces, cache, server, heard, erased>>

(* restoreState: the listen again, then the outstanding puts in order. *)
RestoreListen(c) == IF c.listens THEN SendListen(c) ELSE c
InOrder(ws) == {keys \in [1..Cardinality(ws) -> ws] :
                  \A i, j \in 1..Cardinality(ws) : i < j => keys[i] < keys[j]}
RestorePuts(c, putKeys) ==
  [c EXCEPT !.toServer = @ \o [i \in DOMAIN putKeys |-> [req |-> "put", id |-> putKeys[i]]]]

(* A mutant: only the listens are restored. *)
OnReadyListening == /\ ~conn.up
                    /\ conn' = RestoreListen([conn EXCEPT !.up = TRUE])
                    /\ UNCHANGED <<app, mainQueue, dbQueue, client, server, heard, erased>>

OnReady == /\ ~conn.up
           /\ \E putKeys \in InOrder(conn.puts) :
                conn' = RestorePuts(RestoreListen([conn EXCEPT !.up = TRUE]), putKeys)
           /\ UNCHANGED <<app, mainQueue, dbQueue, client, server, heard, erased>>

OnDisconnect == /\ conn.up /\ conn.drops < MaxDrops
                /\ conn' = [conn EXCEPT !.up = FALSE, !.unacked = 0, !.toServer = <<>>,
                                        !.toClient = <<>>, !.owed = 0, !.listening = FALSE,
                                        !.drops = @ + 1]
                /\ UNCHANGED <<app, mainQueue, dbQueue, client, server, heard, erased>>

-----------------------------------------------------------------------------
(* The database service: requests arrive in order, a listen may be         *)
(* answered later than what follows it, and whatever a put changes is sent *)
(* to a listener before the put is answered.                               *)

Push(c, value) == IF c.listening THEN [c EXCEPT !.toClient = Append(@, [msg |-> "data", value |-> value])] ELSE c
Request(req) == conn.toServer # <<>> /\ Head(conn.toServer).req = req
Taken == [conn EXCEPT !.toServer = Tail(@)]

ServerTakesListen == /\ Request("listen")
                     /\ conn' = [Taken EXCEPT !.owed = @ + 1]
                     /\ UNCHANGED <<app, mainQueue, dbQueue, client, server, heard, erased>>

ServerAnswersListen ==
  /\ conn.owed > 0
  /\ conn' = [conn EXCEPT !.owed = @ - 1, !.listening = TRUE,
                          !.toClient = @ \o <<[msg |-> "data", value |-> server.value], [msg |-> "listening"]>>]
  /\ UNCHANGED <<app, mainQueue, dbQueue, client, server, heard, erased>>

ServerTakesPut ==
  /\ Request("put")
  /\ LET w == Head(conn.toServer).id
         reply(ok) == [msg |-> "put", id |-> w, ok |-> ok]
     IN \/ /\ server' = [server EXCEPT !.value = Removed]
           /\ erased' = [erased EXCEPT ![w] = server.last]
           /\ conn' = [Push(Taken, Removed) EXCEPT !.toClient = Append(@, reply(TRUE))]
        \/ /\ conn' = [Taken EXCEPT !.toClient = Append(@, reply(FALSE))]
           /\ UNCHANGED <<server, erased>>
  /\ UNCHANGED <<app, mainQueue, dbQueue, client, heard>>

OthersWrite == /\ server.last < MaxOthers
               /\ server' = [value |-> server.last + 1, last |-> server.last + 1]
               /\ conn' = Push(conn, server'.value)
               /\ UNCHANGED <<app, mainQueue, dbQueue, client, heard, erased>>

-----------------------------------------------------------------------------

MainThread == RaisedValue \/ RaisedCompletion
Dispatched == AddObserver \/ AddOnce \/ RemoveOnce \/ RemoveValue
Received == OnDataUpdate \/ OnListenResponse \/ OnPutResponse
Service == ServerTakesListen \/ ServerAnswersListen \/ ServerTakesPut
Next == \/ viewWillAppear \/ DidAppear \/ WillDisappear \/ viewDidDisappear
        \/ pressBtn \/ removeData \/ DismissAlert
        \/ MainThread \/ Dispatched \/ Received \/ OnReady \/ OnDisconnect
        \/ Service \/ OthersWrite

Spec == Init /\ [][Next]_vars
(* Both queues run what is put on them, the client reconnects, and the     *)
(* service takes and answers what it is sent.                              *)
FairSpec == /\ Spec
            /\ WF_vars(MainThread) /\ WF_vars(Dispatched) /\ WF_vars(Received)
            /\ WF_vars(OnReady) /\ WF_vars(ServerTakesListen \/ ServerTakesPut)
            /\ WF_vars(ServerAnswersListen)

-----------------------------------------------------------------------------
(* What must hold. *)

(* The types of the state; listens not answered are never counted below    *)
(* zero, as an assertion in sendListen asks.                               *)
TypeOK == /\ screen \in {"hidden", "appearing", "shown", "leaving"}
          /\ refHandle \in 0..MaxAppearances /\ alert \in BOOLEAN
          /\ observers \subseteq Handles /\ onces \subseteq Reads
          /\ writes \subseteq Removals /\ conn.puts \subseteq writes
          /\ cache \in {Unknown} \union 0..MaxOthers
          /\ conn.unacked \in 0..1 /\ conn.owed \in 0..1
          /\ \A h \in Handles : told[h] \in {Unknown} \union 0..MaxOthers
          /\ \A r \in Reads : answered[r] \in 0..1

(* The comment of viewDidDisappear: once the screen has gone, its observer *)
(* is deleted.  The line that would delete it is commented out, and the    *)
(* handle it names is that of the last appearance only, so this does not   *)
(* hold: each appearance leaves an observer that prints every change again.*)
ObserverGoesWithScreen ==
  screen = "hidden" /\ dbQueue = <<>> => observers = {}

(* A tap on Get Data is answered once, although its observer stays         *)
(* registered until the client's queue has seen its removal.               *)
ReadOnce == \A r \in Reads : answered[r] <= 1 /\ (r > reads => answered[r] = 0)

(* Once everything under way has arrived, what every observer was told     *)
(* last is what the database holds, refused removals taken back.           *)
Quiet == /\ mainQueue = <<>> /\ dbQueue = <<>> /\ conn.up /\ conn.unacked = 0
         /\ conn.toServer = <<>> /\ conn.toClient = <<>>
ToldTheTruth == Quiet => \A h \in observers : told[h] = server.value

(* No observer is told an older value after a newer one, whatever order    *)
(* answers and reconnections come in: only its own pending removal hides   *)
(* a value for a while.                                                    *)
NeverOlder ==
  [][\A h \in Handles : told'[h] # told[h] => told'[h] = Removed \/ told'[h] >= newest[h]]_vars

(* When a removal has been acknowledged, the data the client holds is from *)
(* after it: dropping the overlay never brings the removed value back onto *)
(* the screen.  This is what holding back the answers to puts is for.      *)
RemovedStaysRemoved ==
  \A w \in Removals : w \notin writes /\ erased[w] # Unknown /\ cache # Unknown =>
                        cache = Removed \/ cache > erased[w]

(* "Data removed!" appears only if the server has removed it at least once.*)
AlertIsTrue == alert => \E w \in Removals : erased[w] # Unknown

(* Every tap on Get Data is answered in the end. *)
ReadsAnswered == \A r \in Reads : reads >= r ~> answered[r] = 1

(* Every removal gets its answer in the end, across broken connections.    *)
RemovalsAnswered == \A w \in Removals : removals >= w ~> w \in completed

(* What the screen shows of the database is true: of its values, of its    *)
(* removals and of its reads, whichever observers are registered.          *)
ShownIsTrue == /\ TypeOK /\ ReadOnce
               /\ ToldTheTruth /\ RemovedStaysRemoved /\ AlertIsTrue

(* Every tap is answered in the end.                                       *)
TapsAnswered == ReadsAnswered /\ RemovalsAnswered
===============================================================================
