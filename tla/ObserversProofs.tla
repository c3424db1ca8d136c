--------------------------- MODULE ObserversProofs ---------------------------
(***************************************************************************)
(* What Observers keeps safe, for any number of appearances, taps, writes  *)
(* of other clients and broken connections.                                *)
(***************************************************************************)
EXTENDS Observers, SequenceTheorems, FiniteSetTheorems, WellFoundedInduction, TLAPS

Values == {Removed} \union 1..MaxOthers
Block == [block : {"value"}, value : Values, observers : SUBSET Handles, reads : SUBSET Reads]
           \union [block : {"done"}, ok : BOOLEAN, id : Removals]
Call == [op : {"observe"}, id : Handles] \union [op : {"once"}, id : Reads]
          \union [op : {"remove"}, id : Removals] \union [op : {"removeOnce"}, ids : SUBSET Reads]
Ack == [id : Removals, ok : BOOLEAN]
ToServer == [req : {"listen"}] \union [req : {"put"}, id : Removals]
ToClient == [msg : {"data"}, value : Values] \union [msg : {"listening"}]
              \union [msg : {"put"}, id : Removals, ok : BOOLEAN]
Connection == [up : BOOLEAN, listens : BOOLEAN, puts : SUBSET Removals, toAck : Seq(Ack),
               unacked : Int, toServer : Seq(ToServer), toClient : Seq(ToClient),
               owed : Int, listening : BOOLEAN, drops : Int]

TypeInv ==
  /\ screen \in {"hidden", "appearing", "shown", "leaving"}
  /\ refHandle \in 0..MaxAppearances /\ reads \in 0..MaxReads /\ removals \in 0..MaxRemovals
  /\ alert \in BOOLEAN
  /\ mainQueue \in Seq(Block) /\ dbQueue \in Seq(Call)
  /\ observers \in SUBSET Handles /\ onces \in SUBSET Reads /\ writes \in SUBSET Removals
  /\ cache \in {Unknown} \union Values
  /\ conn \in Connection
  /\ server \in [value : Values, last : Values]
  /\ told \in [Handles -> {Unknown} \union Values] /\ newest \in [Handles -> Values]
  /\ answered \in [Reads -> 0..1] /\ completed \in SUBSET Removals
  /\ erased \in [Removals -> {Unknown} \union Values]

-----------------------------------------------------------------------------
(* Queues. *)

(* t is s with x at its end. *)
Grown(s, t, x) == /\ Len(t) = Len(s) + 1 /\ t[Len(t)] = x
                  /\ \A i \in 1..Len(s) : t[i] = s[i]

(* t is s without its first element. *)
Shrunk(s, t) == /\ Len(s) = Len(t) + 1
                /\ \A i \in 1..Len(t) : t[i] = s[i + 1]

(* What Append and Tail do to a queue.                                     *)
LEMMA AppendGrown ==
  ASSUME NEW S, NEW s \in Seq(S), NEW x \in S
  PROVE  Append(s, x) \in Seq(S) /\ Grown(s, Append(s, x), x) /\ Len(s) \in Nat
BY DEF Grown

LEMMA TailShrunk ==
  ASSUME NEW S, NEW s \in Seq(S), s # <<>>
  PROVE  /\ Tail(s) \in Seq(S) /\ Shrunk(s, Tail(s)) /\ Head(s) = s[1] /\ s[1] \in S
         /\ Len(s) \in Nat /\ Len(s) >= 1 /\ Len(Tail(s)) \in Nat
BY DEF Shrunk

(* What a message is. *)
LEMMA MessageKinds ==
  ASSUME NEW m \in ToClient
  PROVE  /\ m.msg \in {"data", "listening", "put"}
         /\ m.msg = "data" => m.value \in Values
         /\ m.msg = "put" => m.id \in Removals /\ m.ok \in BOOLEAN
BY DEF ToClient

LEMMA RequestKinds ==
  ASSUME NEW m \in ToServer
  PROVE  /\ m.req \in {"listen", "put"}
         /\ m.req = "put" => m.id \in Removals
BY DEF ToServer

LEMMA CallKinds ==
  ASSUME NEW m \in Call
  PROVE  /\ m.op \in {"observe", "once", "remove", "removeOnce"}
         /\ m.op = "observe" => m.id \in Handles
         /\ m.op = "once" => m.id \in Reads
         /\ m.op = "remove" => m.id \in Removals
         /\ m.op = "removeOnce" => m.ids \in SUBSET Reads
BY DEF Call

LEMMA BlockKinds ==
  ASSUME NEW m \in Block
  PROVE  /\ m.block \in {"value", "done"}
         /\ m.block = "value" => /\ m.value \in Values /\ m.observers \in SUBSET Handles
                                 /\ m.reads \in SUBSET Reads
         /\ m.block = "done" => m.ok \in BOOLEAN /\ m.id \in Removals
BY DEF Block

(* The values a write of another client may have, and their bounds.        *)
LEMMA Bounds ==
  /\ MaxAppearances \in Nat /\ MaxReads \in Nat /\ MaxRemovals \in Nat
  /\ MaxOthers \in Nat /\ MaxDrops \in Nat
  /\ Handles \subseteq Int /\ Reads \subseteq Int /\ Removals \subseteq Int
  /\ \A v \in Values : v \in Int /\ 0 <= v /\ v <= MaxOthers
  /\ Removed \in Values /\ Unknown \notin Values
  /\ \A v \in Int : 0 <= v /\ v <= MaxOthers => v \in Values
BY BoundsAssumption DEF Handles, Reads, Removals, Values, Removed, Unknown

-----------------------------------------------------------------------------
(* What is invariant of the connection. *)

Put(i) == conn.toServer[i].req = "put"
Listen(i) == conn.toServer[i].req = "listen"
Reply(j) == conn.toClient[j].msg = "put"
Answer(j) == conn.toClient[j].msg = "listening"
Data(j) == conn.toClient[j].msg = "data"
Requests == 1..Len(conn.toServer)
Messages == 1..Len(conn.toClient)
Held == AckedIds(conn.toAck, Len(conn.toAck))

(* A pending removal is outstanding or its answer is held back; while the  *)
(* connection is up its put or the answer to it is under way, and only     *)
(* one of them, once.                                                      *)
PutInv ==
  /\ writes = conn.puts \union Held /\ conn.puts \intersect Held = {}
  /\ \A i \in Requests : Put(i) => conn.toServer[i].id \in conn.puts
  /\ \A j \in Messages : Reply(j) => conn.toClient[j].id \in conn.puts
  /\ \A i, j \in Requests : Put(i) /\ Put(j) /\ conn.toServer[i].id = conn.toServer[j].id => i = j
  /\ \A i, j \in Messages : Reply(i) /\ Reply(j) /\ conn.toClient[i].id = conn.toClient[j].id => i = j
  /\ \A i \in Requests, j \in Messages : Put(i) /\ Reply(j) => conn.toServer[i].id # conn.toClient[j].id
  /\ conn.up => \A w \in conn.puts : \/ \E i \in Requests : Put(i) /\ conn.toServer[i].id = w
                                     \/ \E j \in Messages : Reply(j) /\ conn.toClient[j].id = w

(* The listen has not been answered by the service. *)
Asking == (\E i \in Requests : Listen(i)) \/ conn.owed = 1
Answered == \E j \in Messages : Answer(j)

(* The listen of a connection is with the service, or answered, or its     *)
(* answer is under way behind the data it answers; this is what is counted *)
(* in unacked, and what answers are held back for.                         *)
SessionInv ==
  /\ \A i, j \in Requests : Listen(i) /\ Listen(j) => i = j
  /\ \A i, j \in Messages : Answer(i) /\ Answer(j) => i = j
  /\ conn.owed \in 0..1 /\ ((\E i \in Requests : Listen(i)) => conn.owed = 0)
  /\ Asking => ~conn.listening
  /\ Asking \/ conn.listening <=> conn.up /\ conn.listens
  /\ Asking \/ Answered => conn.unacked = 1
  /\ ~Asking /\ ~Answered => conn.unacked = 0
  /\ ~conn.listening => \A j \in Messages : Reply(j)
  /\ \A j \in Messages : Answer(j) /\ j > 1 => Data(j - 1)
  /\ ~conn.up => conn.toServer = <<>> /\ conn.toClient = <<>>
  /\ conn.toAck # <<>> => conn.listens /\ (conn.up => conn.unacked = 1)
  /\ (observers # {} => conn.listens) /\ (~conn.listens => cache = Unknown)

(* What arrives last on a connection that is listened to is the value.     *)
LatestInv ==
  conn.listening =>
    \/ cache = server.value /\ \A j \in Messages : ~Data(j)
    \/ \E k \in Messages : /\ Data(k) /\ conn.toClient[k].value = server.value
                           /\ \A j \in Messages : j > k => ~Data(j)

(* v was written before the removal w was executed. *)
Stale(v, w) == 0 < v /\ v <= erased[w]
StaleAt(j, w) == Data(j) /\ Stale(conn.toClient[j].value, w)
Cures(j, w) == Data(j) /\ ~Stale(conn.toClient[j].value, w)
CuredBefore(n, w) ==
  /\ Stale(cache, w) => \E k \in Messages : k < n /\ Cures(k, w)
  /\ \A j \in Messages : j < n /\ StaleAt(j, w) => \E k \in Messages : j < k /\ k < n /\ Cures(k, w)
NoneStale(n, w) == \A j \in Messages : n <= j => ~StaleAt(j, w)

ServerInv ==
  /\ server.value \in {Removed, server.last}
  /\ \A w \in Removals : erased[w] <= server.last /\ ~Stale(server.value, w)

(* The answer to a removal comes after data from after the removal, or     *)
(* else the answer to the listen comes later and brings such data.         *)
ErasedInv ==
  \A w \in Removals :
    /\ w \notin writes => ~Stale(cache, w) /\ NoneStale(1, w)
    /\ \A n \in Messages : Reply(n) /\ conn.toClient[n].id = w =>
         /\ NoneStale(n, w)
         /\ Asking \/ (\E k \in Messages : n < k /\ Answer(k)) \/ CuredBefore(n, w)
    /\ w \in Held => /\ NoneStale(1, w)
                     /\ 1 \in Messages /\ Answer(1) => ~Stale(cache, w)

(* Values other than Removed come in the order they were written in.       *)
Above(v, u) == v = Removed \/ u <= v
FlowInv ==
  /\ cache <= server.last
  /\ \A k \in Messages : Data(k) => Above(conn.toClient[k].value, cache) /\ conn.toClient[k].value <= server.last
  /\ \A i, j \in Messages : i < j /\ Data(i) /\ Data(j) => Above(conn.toClient[j].value, conn.toClient[i].value)

(* What the client may yet hear is no older than u. *)
Reported(u) ==
  /\ cache = Unknown => u = 0
  /\ cache # Unknown => Above(cache, u)
  /\ u <= server.last
  /\ \A k \in Messages : Data(k) => Above(conn.toClient[k].value, u)

ConnInv == PutInv /\ SessionInv /\ LatestInv /\ ServerInv /\ ErasedInv /\ FlowInv

-----------------------------------------------------------------------------
(* The steps of the service. *)

Unmoved == /\ cache' = cache /\ writes' = writes /\ observers' = observers

LEMMA TakesListenDoes ==
  ASSUME TypeInv, ServerTakesListen
  PROVE  /\ conn' \in Connection /\ conn'.up = conn.up /\ conn'.listens = conn.listens
         /\ conn'.puts = conn.puts /\ conn'.toAck = conn.toAck /\ conn'.unacked = conn.unacked
         /\ conn'.toClient = conn.toClient /\ conn'.listening = conn.listening
         /\ conn'.owed = conn.owed + 1
         /\ Shrunk(conn.toServer, conn'.toServer) /\ conn.toServer[1].req = "listen"
         /\ Unmoved /\ server' = server /\ erased' = erased
<1>1. /\ conn \in Connection /\ conn.toServer # <<>> /\ Head(conn.toServer).req = "listen"
      /\ conn' = [Taken EXCEPT !.owed = @ + 1]
  BY DEF TypeInv, ServerTakesListen, Request
<1>2. conn.toServer \in Seq(ToServer)
  BY <1>1 DEF Connection
<1>3. /\ Tail(conn.toServer) \in Seq(ToServer) /\ Shrunk(conn.toServer, Tail(conn.toServer))
      /\ Head(conn.toServer) = conn.toServer[1]
  BY <1>1, <1>2, TailShrunk
<1>4. /\ conn' \in Connection /\ conn'.up = conn.up /\ conn'.listens = conn.listens
      /\ conn'.puts = conn.puts /\ conn'.toAck = conn.toAck /\ conn'.unacked = conn.unacked
      /\ conn'.toClient = conn.toClient /\ conn'.listening = conn.listening
      /\ conn'.owed = conn.owed + 1 /\ conn'.toServer = Tail(conn.toServer)
  <2>1. conn.owed + 1 \in Int
    BY <1>1 DEF Connection
  <2> QED
    BY <1>1, <1>3, <2>1 DEF Taken, Connection
<1> QED
  BY <1>1, <1>3, <1>4 DEF ServerTakesListen, Unmoved, client


(* t is s with n more elements. *)
Longer(s, t, n) == /\ Len(t) = Len(s) + n /\ Len(s) \in Nat
                   /\ \A i \in 1..Len(s) : t[i] = s[i]

(* What the connection puts at the end of a queue.                         *)
LEMMA OneLonger ==
  ASSUME NEW S, NEW s \in Seq(S), NEW x \in S
  PROVE  /\ Append(s, x) \in Seq(S) /\ Longer(s, Append(s, x), 1)
         /\ Append(s, x)[Len(s) + 1] = x
BY DEF Longer

LEMMA TwoLonger ==
  ASSUME NEW S, NEW s \in Seq(S), NEW x \in S, NEW y \in S
  PROVE  LET t == Append(Append(s, x), y)
         IN  /\ t \in Seq(S) /\ Longer(s, t, 2)
             /\ t[Len(s) + 1] = x /\ t[Len(s) + 2] = y
BY DEF Longer

LEMMA PairIsTwo ==
  ASSUME NEW S, NEW s \in Seq(S), NEW x \in S, NEW y \in S
  PROVE  LET t == s \o <<x, y>>
         IN  /\ t \in Seq(S) /\ Longer(s, t, 2)
             /\ t[Len(s) + 1] = x /\ t[Len(s) + 2] = y
<1>1. <<x, y>> \in Seq(S) /\ Len(<<x, y>>) = 2 /\ <<x, y>>[1] = x /\ <<x, y>>[2] = y
  OBVIOUS
<1> QED
  BY <1>1, ConcatProperties DEF Longer

(* The types of the fields of the connection.                              *)
LEMMA ConnTypes ==
  ASSUME TypeInv
  PROVE  /\ conn \in Connection /\ conn.toServer \in Seq(ToServer) /\ conn.toClient \in Seq(ToClient)
         /\ conn.toAck \in Seq(Ack) /\ conn.unacked \in Int /\ conn.owed \in Int /\ conn.drops \in Int
         /\ conn.up \in BOOLEAN /\ conn.listens \in BOOLEAN /\ conn.listening \in BOOLEAN
         /\ conn.puts \subseteq Removals
         /\ Len(conn.toServer) \in Nat /\ Len(conn.toClient) \in Nat /\ Len(conn.toAck) \in Nat
         /\ server.value \in Values /\ server.last \in Values
BY DEF TypeInv, Connection

SameSession == /\ conn'.up = conn.up /\ conn'.listens = conn.listens /\ conn'.puts = conn.puts
               /\ conn'.toAck = conn.toAck /\ conn'.unacked = conn.unacked

LEMMA AnswersListenDoes ==
  ASSUME TypeInv, ServerAnswersListen
  PROVE  /\ conn' \in Connection /\ SameSession /\ conn'.toServer = conn.toServer
         /\ conn.owed > 0 /\ conn'.owed = conn.owed - 1 /\ conn'.listening = TRUE
         /\ Longer(conn.toClient, conn'.toClient, 2)
         /\ conn'.toClient[Len(conn.toClient) + 1] = [msg |-> "data", value |-> server.value]
         /\ conn'.toClient[Len(conn.toClient) + 2] = [msg |-> "listening"]
         /\ Unmoved /\ server' = server /\ erased' = erased
<1> DEFINE d == [msg |-> "data", value |-> server.value]
           l == [msg |-> "listening"]
           t == conn.toClient \o <<d, l>>
<1>1. d \in ToClient /\ l \in ToClient
  BY ConnTypes DEF ToClient
<1> HIDE DEF d, l
<1>2. /\ t \in Seq(ToClient) /\ Longer(conn.toClient, t, 2)
      /\ t[Len(conn.toClient) + 1] = d /\ t[Len(conn.toClient) + 2] = l
  BY <1>1, ConnTypes, PairIsTwo
<1>3. conn.owed > 0 /\ conn' = [conn EXCEPT !.owed = @ - 1, !.listening = TRUE, !.toClient = t]
  BY Zenon DEF ServerAnswersListen, t, d, l
<1>4. conn \in Connection /\ conn.owed - 1 \in Int
  BY ConnTypes
<1> HIDE DEF t
<1>5. /\ conn' \in Connection /\ SameSession /\ conn'.toServer = conn.toServer
      /\ conn'.owed = conn.owed - 1 /\ conn'.listening = TRUE /\ conn'.toClient = t
  BY <1>2, <1>3, <1>4 DEF Connection, SameSession
<1>6. Unmoved /\ server' = server /\ erased' = erased
  BY DEF ServerAnswersListen, Unmoved, client
<1> QED
  BY <1>2, <1>3, <1>5, <1>6, Zenon DEF d, l

LEMMA TakesPutDoes ==
  ASSUME TypeInv, ServerTakesPut
  PROVE  LET w == conn.toServer[1].id
             n == Len(conn.toClient)
             reply(ok) == [msg |-> "put", id |-> w, ok |-> ok]
         IN  /\ conn' \in Connection /\ SameSession
             /\ conn'.owed = conn.owed /\ conn'.listening = conn.listening
             /\ Shrunk(conn.toServer, conn'.toServer) /\ conn.toServer[1].req = "put" /\ Len(conn.toServer) >= 1
             /\ w \in Removals /\ Unmoved
             /\ \/ /\ Longer(conn.toClient, conn'.toClient, 2) /\ conn.listening
                   /\ conn'.toClient[n + 1] = [msg |-> "data", value |-> Removed]
                   /\ conn'.toClient[n + 2] = reply(TRUE)
                   /\ server' = [server EXCEPT !.value = Removed]
                   /\ erased' = [erased EXCEPT ![w] = server.last]
                \/ /\ Longer(conn.toClient, conn'.toClient, 1) /\ ~conn.listening
                   /\ conn'.toClient[n + 1] = reply(TRUE)
                   /\ server' = [server EXCEPT !.value = Removed]
                   /\ erased' = [erased EXCEPT ![w] = server.last]
                \/ /\ Longer(conn.toClient, conn'.toClient, 1)
                   /\ conn'.toClient[n + 1] = reply(FALSE)
                   /\ server' = server /\ erased' = erased
<1> DEFINE w == conn.toServer[1].id
           n == Len(conn.toClient)
           reply(ok) == [msg |-> "put", id |-> w, ok |-> ok]
           d == [msg |-> "data", value |-> Removed]
           rest == Tail(conn.toServer)
<1>1. /\ conn.toServer # <<>> /\ Head(conn.toServer).req = "put"
  BY DEF ServerTakesPut, Request
<1>2. /\ rest \in Seq(ToServer) /\ Shrunk(conn.toServer, rest) /\ Len(conn.toServer) >= 1
      /\ Head(conn.toServer) = conn.toServer[1] /\ conn.toServer[1] \in ToServer
  BY <1>1, ConnTypes, TailShrunk
<1>3. w \in Removals /\ conn.toServer[1].req = "put" /\ Head(conn.toServer).id = w
  BY <1>1, <1>2, RequestKinds
<1>4. d \in ToClient /\ \A ok \in BOOLEAN : reply(ok) \in ToClient
  BY <1>3, Bounds DEF ToClient
<1>5. /\ Taken \in Connection /\ Taken.toClient = conn.toClient /\ Taken.listening = conn.listening
      /\ Taken.toServer = rest /\ Taken.owed = conn.owed
      /\ Taken.up = conn.up /\ Taken.listens = conn.listens /\ Taken.puts = conn.puts
      /\ Taken.toAck = conn.toAck /\ Taken.unacked = conn.unacked
  BY <1>2, ConnTypes DEF Taken, Connection
<1>6. Unmoved
  BY DEF ServerTakesPut, Unmoved, client
<1> HIDE DEF w, rest, d, reply
<1>7. ASSUME NEW t \in Seq(ToClient), conn' = [Taken EXCEPT !.toClient = t]
      PROVE  /\ conn' \in Connection /\ SameSession /\ conn'.owed = conn.owed
             /\ conn'.listening = conn.listening /\ conn'.toClient = t /\ conn'.toServer = rest
  BY <1>5, <1>7 DEF Connection, SameSession
<1>8. \/ /\ server' = [server EXCEPT !.value = Removed]
         /\ erased' = [erased EXCEPT ![w] = server.last]
         /\ conn' = [Push(Taken, Removed) EXCEPT !.toClient = Append(@, reply(TRUE))]
      \/ /\ conn' = [Taken EXCEPT !.toClient = Append(@, reply(FALSE))]
         /\ server' = server /\ erased' = erased
  BY <1>3 DEF ServerTakesPut, reply
<1>9. CASE /\ server' = [server EXCEPT !.value = Removed]
           /\ erased' = [erased EXCEPT ![w] = server.last]
           /\ conn' = [Push(Taken, Removed) EXCEPT !.toClient = Append(@, reply(TRUE))]
  <2>1. CASE conn.listening
    <3> DEFINE r == reply(TRUE)
               t == Append(Append(conn.toClient, d), r)
    <3>a. r \in ToClient /\ d \in ToClient /\ conn.toClient \in Seq(ToClient)
      BY <1>4, ConnTypes
    <3>1. /\ t \in Seq(ToClient) /\ Longer(conn.toClient, t, 2)
          /\ t[n + 1] = d /\ t[n + 2] = r
      <4> HIDE DEF r
      <4> QED
        BY <3>a, TwoLonger
    <3>2. Push(Taken, Removed) = [Taken EXCEPT !.toClient = Append(conn.toClient, d)]
      BY <1>5, <2>1 DEF Push, d
    <3>3. conn' = [Taken EXCEPT !.toClient = t]
      BY <1>5, <1>9, <3>2 DEF Connection
    <3> HIDE DEF t
    <3>4. /\ conn' \in Connection /\ SameSession /\ conn'.owed = conn.owed
          /\ conn'.listening = conn.listening /\ conn'.toClient = t /\ conn'.toServer = rest
      BY <1>7, <3>1, <3>3
    <3> QED
      BY <1>2, <1>3, <1>6, <1>9, <2>1, <3>1, <3>4 DEF w, rest, d, reply
  <2>2. CASE ~conn.listening
    <3> DEFINE t == Append(conn.toClient, reply(TRUE))
    <3>1. t \in Seq(ToClient) /\ Longer(conn.toClient, t, 1) /\ t[n + 1] = reply(TRUE)
      BY <1>4, ConnTypes, OneLonger
    <3>2. conn' = [Taken EXCEPT !.toClient = t]
      BY <1>5, <1>9, <2>2 DEF Push
    <3> HIDE DEF t
    <3>3. /\ conn' \in Connection /\ SameSession /\ conn'.owed = conn.owed
          /\ conn'.listening = conn.listening /\ conn'.toClient = t /\ conn'.toServer = rest
      BY <1>7, <3>1, <3>2
    <3> QED
      BY <1>2, <1>3, <1>6, <1>9, <2>2, <3>1, <3>3 DEF w, rest, reply
  <2> QED
    BY <2>1, <2>2, ConnTypes
<1>10. CASE /\ conn' = [Taken EXCEPT !.toClient = Append(@, reply(FALSE))]
            /\ server' = server /\ erased' = erased
  <2> DEFINE t == Append(conn.toClient, reply(FALSE))
  <2>1. t \in Seq(ToClient) /\ Longer(conn.toClient, t, 1) /\ t[n + 1] = reply(FALSE)
    BY <1>4, ConnTypes, OneLonger
  <2>2. conn' = [Taken EXCEPT !.toClient = t]
    BY <1>5, <1>10
  <2> HIDE DEF t
  <2>3. /\ conn' \in Connection /\ SameSession /\ conn'.owed = conn.owed
        /\ conn'.listening = conn.listening /\ conn'.toClient = t /\ conn'.toServer = rest
    BY <1>7, <2>1, <2>2
  <2> QED
    BY <1>2, <1>3, <1>6, <1>10, <2>1, <2>3 DEF w, rest, reply
<1> QED
  BY <1>8, <1>9, <1>10

LEMMA OthersWriteDoes ==
  ASSUME TypeInv, OthersWrite
  PROVE  /\ conn' \in Connection /\ SameSession /\ conn'.toServer = conn.toServer
         /\ conn'.owed = conn.owed /\ conn'.listening = conn.listening
         /\ server' = [value |-> server.last + 1, last |-> server.last + 1] /\ server.last < MaxOthers
         /\ Unmoved /\ erased' = erased
         /\ \/ /\ conn.listening /\ Longer(conn.toClient, conn'.toClient, 1)
               /\ conn'.toClient[Len(conn.toClient) + 1] = [msg |-> "data", value |-> server.last + 1]
            \/ ~conn.listening /\ conn'.toClient = conn.toClient
<1> DEFINE v == server.last + 1
           d == [msg |-> "data", value |-> v]
           t == Append(conn.toClient, d)
<1>1. /\ server.last < MaxOthers /\ server' = [value |-> v, last |-> v]
      /\ Unmoved /\ erased' = erased
  BY DEF OthersWrite, Unmoved, client
<1>2. v \in Values
  BY <1>1, ConnTypes, Bounds
<1>3. server'.value = v
  BY <1>1
<1> HIDE DEF v
<1>4. d \in ToClient
  BY <1>2 DEF ToClient
<1>5. t \in Seq(ToClient) /\ Longer(conn.toClient, t, 1) /\ t[Len(conn.toClient) + 1] = d
  <2> HIDE DEF d
  <2> QED
    BY <1>4, ConnTypes, OneLonger
<1>6. conn' = IF conn.listening THEN [conn EXCEPT !.toClient = t] ELSE conn
  BY <1>3 DEF OthersWrite, Push
<1>7. CASE conn.listening
  <2> HIDE DEF t
  <2>1. /\ conn' \in Connection /\ SameSession /\ conn'.toServer = conn.toServer
        /\ conn'.owed = conn.owed /\ conn'.listening = conn.listening /\ conn'.toClient = t
    BY <1>5, <1>6, <1>7, ConnTypes DEF Connection, SameSession
  <2> QED
    BY <1>1, <1>5, <1>7, <2>1 DEF v
<1>8. CASE ~conn.listening
  BY <1>1, <1>6, <1>8, ConnTypes DEF SameSession, v
<1> QED
  BY <1>7, <1>8, ConnTypes


-----------------------------------------------------------------------------
(* The steps of the client. *)

LEMMA OpDoes ==
  ASSUME TypeInv, NEW op, Op(op)
  PROVE  /\ dbQueue' \in Seq(Call) /\ Shrunk(dbQueue, dbQueue') /\ Len(dbQueue) >= 1
         /\ Head(dbQueue) = dbQueue[1] /\ dbQueue[1] \in Call /\ dbQueue[1].op = op
         /\ Len(dbQueue') \in Nat
<1>1. dbQueue \in Seq(Call) /\ dbQueue # <<>> /\ Head(dbQueue).op = op /\ dbQueue' = Tail(dbQueue)
  BY DEF TypeInv, Op
<1> QED
  BY <1>1, TailShrunk

(* What is received is the first message, and is taken.                    *)
LEMMA ReceiveDoes ==
  ASSUME TypeInv, NEW msg, Receive(msg)
  PROVE  LET t == Tail(conn.toClient)
         IN  /\ t \in Seq(ToClient) /\ Shrunk(conn.toClient, t) /\ Len(conn.toClient) >= 1
             /\ Head(conn.toClient) = conn.toClient[1] /\ conn.toClient[1] \in ToClient
             /\ conn.toClient[1].msg = msg
<1>1. conn.toClient # <<>> /\ Head(conn.toClient).msg = msg
  BY DEF Receive
<1> QED
  BY <1>1, ConnTypes, TailShrunk

LEMMA SendListenDoes ==
  ASSUME NEW c \in Connection, c.up
  PROVE  LET d == SendListen(c)
         IN  /\ d \in Connection /\ d.up = c.up /\ d.listens = c.listens /\ d.puts = c.puts
             /\ d.toAck = c.toAck /\ d.unacked = c.unacked + 1 /\ d.toClient = c.toClient
             /\ d.owed = c.owed /\ d.listening = c.listening
             /\ d.toServer = Append(c.toServer, [req |-> "listen"])
<1> DEFINE l == [req |-> "listen"]
           t == Append(c.toServer, l)
<1>1. l \in ToServer /\ c.toServer \in Seq(ToServer) /\ c.unacked \in Int /\ c.unacked + 1 \in Int
  BY DEF ToServer, Connection
<1> HIDE DEF l
<1>2. t \in Seq(ToServer)
  BY <1>1
<1>3. SendListen(c) = [[c EXCEPT !.toServer = t] EXCEPT !.unacked = @ + 1]
  BY Zenon DEF SendListen, Sent, t, l
<1> HIDE DEF t
<1>4. [c EXCEPT !.toServer = t].unacked = c.unacked
  BY DEF Connection
<1>5. SendListen(c) = [[c EXCEPT !.toServer = t] EXCEPT !.unacked = c.unacked + 1]
  BY <1>3, <1>4
<1> DEFINE d == SendListen(c)
<1>6. /\ d \in Connection /\ d.up = c.up /\ d.listens = c.listens /\ d.puts = c.puts
      /\ d.toAck = c.toAck /\ d.unacked = c.unacked + 1 /\ d.toClient = c.toClient
      /\ d.owed = c.owed /\ d.listening = c.listening /\ d.toServer = t
  BY <1>1, <1>2, <1>5 DEF Connection
<1> QED
  BY <1>6, Zenon DEF t, l

SameAnswers == /\ conn'.toClient = conn.toClient /\ conn'.owed = conn.owed
               /\ conn'.listening = conn.listening /\ conn'.up = conn.up /\ conn'.toAck = conn.toAck

LEMMA AddObserverDoes ==
  ASSUME TypeInv, AddObserver
  PROVE  /\ conn' \in Connection /\ SameAnswers /\ conn'.puts = conn.puts /\ conn'.listens = TRUE
         /\ IF ~conn.listens /\ conn.up
            THEN /\ conn'.unacked = conn.unacked + 1
                 /\ Longer(conn.toServer, conn'.toServer, 1)
                 /\ conn'.toServer[Len(conn.toServer) + 1] = [req |-> "listen"]
            ELSE conn'.unacked = conn.unacked /\ conn'.toServer = conn.toServer
         /\ observers' = observers \union {dbQueue[1].id} /\ dbQueue[1].id \in Handles
         /\ cache' = cache /\ writes' = writes /\ server' = server /\ erased' = erased
<1>1. /\ Op("observe") /\ observers' = observers \union {Head(dbQueue).id}
      /\ conn' = IF conn.listens THEN conn ELSE SendListen([conn EXCEPT !.listens = TRUE])
      /\ cache' = cache /\ writes' = writes /\ server' = server /\ erased' = erased
  BY DEF AddObserver
<1>2. Head(dbQueue) = dbQueue[1] /\ dbQueue[1].id \in Handles
  BY <1>1, OpDoes, CallKinds
<1> DEFINE c == [conn EXCEPT !.listens = TRUE]
<1>3. /\ c \in Connection /\ c.up = conn.up /\ c.listens = TRUE /\ c.puts = conn.puts
      /\ c.toAck = conn.toAck /\ c.unacked = conn.unacked /\ c.toClient = conn.toClient
      /\ c.owed = conn.owed /\ c.listening = conn.listening /\ c.toServer = conn.toServer
  BY ConnTypes DEF Connection
<1>4. CASE conn.listens
  BY <1>1, <1>2, <1>4, ConnTypes DEF SameAnswers
<1>5. CASE ~conn.listens /\ conn.up
  <2> DEFINE d == SendListen(c)
             l == [req |-> "listen"]
  <2>1. conn' = d
    BY <1>1, <1>5
  <2> HIDE DEF c
  <2>2. /\ d \in Connection /\ d.up = c.up /\ d.listens = c.listens /\ d.puts = c.puts
        /\ d.toAck = c.toAck /\ d.unacked = c.unacked + 1 /\ d.toClient = c.toClient
        /\ d.owed = c.owed /\ d.listening = c.listening /\ d.toServer = Append(c.toServer, l)
    BY <1>3, <1>5, SendListenDoes
  <2>3. l \in ToServer
    BY DEF ToServer
  <2> HIDE DEF d, l
  <2>4. Longer(conn.toServer, conn'.toServer, 1) /\ conn'.toServer[Len(conn.toServer) + 1] = l
    BY <1>3, <2>1, <2>2, <2>3, ConnTypes, OneLonger
  <2> QED
    BY <1>1, <1>2, <1>3, <1>5, <2>1, <2>2, <2>4 DEF SameAnswers, l
<1>6. CASE ~conn.listens /\ ~conn.up
  <2>1. conn' = c
    BY <1>1, <1>3, <1>6 DEF SendListen
  <2> HIDE DEF c
  <2> QED
    BY <1>1, <1>2, <1>3, <1>6, <2>1 DEF SameAnswers
<1> QED
  BY <1>4, <1>5, <1>6, ConnTypes

LEMMA RemoveValueDoes ==
  ASSUME TypeInv, RemoveValue
  PROVE  LET w == dbQueue[1].id
         IN  /\ w \in Removals /\ dbQueue[1].op = "remove" /\ Len(dbQueue) >= 1
             /\ conn' \in Connection /\ SameAnswers /\ conn'.puts = conn.puts \union {w}
             /\ conn'.listens = conn.listens /\ conn'.unacked = conn.unacked
             /\ IF conn.up THEN /\ Longer(conn.toServer, conn'.toServer, 1)
                                /\ conn'.toServer[Len(conn.toServer) + 1] = [req |-> "put", id |-> w]
                ELSE conn'.toServer = conn.toServer
             /\ writes' = writes \union {w}
             /\ cache' = cache /\ observers' = observers /\ server' = server /\ erased' = erased
<1> DEFINE w == dbQueue[1].id
           c == [conn EXCEPT !.puts = @ \union {w}]
           p == [req |-> "put", id |-> w]
           t == Append(conn.toServer, p)
<1>1. /\ Op("remove") /\ Head(dbQueue) = dbQueue[1] /\ dbQueue[1].op = "remove" /\ Len(dbQueue) >= 1
      /\ w \in Removals
  BY OpDoes, CallKinds DEF RemoveValue
<1>2. /\ conn' = SendPut(c, w) /\ writes' = writes \union {w}
      /\ cache' = cache /\ observers' = observers /\ server' = server /\ erased' = erased
  BY <1>1 DEF RemoveValue
<1> HIDE DEF w
<1>3. conn.puts \union {w} \in SUBSET Removals
  BY <1>1, ConnTypes
<1>4. /\ c \in Connection /\ c.up = conn.up /\ c.listens = conn.listens /\ c.puts = conn.puts \union {w}
      /\ c.toAck = conn.toAck /\ c.unacked = conn.unacked /\ c.toClient = conn.toClient
      /\ c.owed = conn.owed /\ c.listening = conn.listening /\ c.toServer = conn.toServer
  BY <1>3, ConnTypes DEF Connection
<1> HIDE DEF c
<1>5. CASE conn.up
  <2>1. p \in ToServer
    BY <1>1 DEF ToServer
  <2>2. conn' = [c EXCEPT !.toServer = t]
    BY <1>2, <1>4, <1>5 DEF SendPut, Sent
  <2> HIDE DEF p
  <2>3. t \in Seq(ToServer) /\ Longer(conn.toServer, t, 1) /\ t[Len(conn.toServer) + 1] = p
    BY <2>1, ConnTypes, OneLonger
  <2> HIDE DEF t
  <2>4. /\ conn' \in Connection /\ SameAnswers /\ conn'.puts = conn.puts \union {w}
        /\ conn'.listens = conn.listens /\ conn'.unacked = conn.unacked /\ conn'.toServer = t
    BY <1>4, <2>2, <2>3 DEF Connection, SameAnswers
  <2> QED
    BY <1>1, <1>2, <1>5, <2>3, <2>4 DEF w, p
<1>6. CASE ~conn.up
  <2>1. conn' = c
    BY <1>2, <1>4, <1>6 DEF SendPut, Sent
  <2> QED
    BY <1>1, <1>2, <1>4, <1>6, <2>1 DEF SameAnswers, w
<1> QED
  BY <1>5, <1>6, ConnTypes

SameRequests == /\ conn'.up = conn.up /\ conn'.listens = conn.listens /\ conn'.toServer = conn.toServer
                /\ conn'.owed = conn.owed /\ conn'.listening = conn.listening
                /\ observers' = observers /\ server' = server /\ erased' = erased

LEMMA OnDataUpdateDoes ==
  ASSUME TypeInv, OnDataUpdate
  PROVE  /\ conn' \in Connection /\ SameRequests /\ Shrunk(conn.toClient, conn'.toClient)
         /\ conn'.puts = conn.puts /\ conn'.toAck = conn.toAck /\ conn'.unacked = conn.unacked
         /\ Len(conn.toClient) >= 1 /\ conn.toClient[1].msg = "data" /\ cache' = conn.toClient[1].value
         /\ cache' \in Values /\ writes' = writes
<1> DEFINE t == Tail(conn.toClient)
<1>1. /\ t \in Seq(ToClient) /\ Shrunk(conn.toClient, t) /\ Len(conn.toClient) >= 1
      /\ Head(conn.toClient) = conn.toClient[1] /\ conn.toClient[1] \in ToClient
      /\ conn.toClient[1].msg = "data"
  BY ReceiveDoes DEF OnDataUpdate
<1>2. conn.toClient[1].value \in Values
  BY <1>1, MessageKinds
<1>3. /\ cache' = Head(conn.toClient).value /\ conn' = [conn EXCEPT !.toClient = t]
      /\ observers' = observers /\ server' = server /\ erased' = erased /\ writes' = writes
  BY DEF OnDataUpdate, Rest
<1> HIDE DEF t
<1>4. /\ conn' \in Connection /\ conn'.toClient = t /\ conn'.puts = conn.puts /\ conn'.toAck = conn.toAck
      /\ conn'.unacked = conn.unacked
      /\ conn'.up = conn.up /\ conn'.listens = conn.listens /\ conn'.toServer = conn.toServer
      /\ conn'.owed = conn.owed /\ conn'.listening = conn.listening
  BY <1>1, <1>3, ConnTypes DEF Connection
<1> QED
  BY <1>1, <1>2, <1>3, <1>4 DEF SameRequests

LEMMA OnListenResponseDoes ==
  ASSUME TypeInv, OnListenResponse
  PROVE  /\ conn' \in Connection /\ SameRequests /\ Shrunk(conn.toClient, conn'.toClient)
         /\ conn'.puts = conn.puts
         /\ Len(conn.toClient) >= 1 /\ conn.toClient[1].msg = "listening" /\ cache' = cache
         /\ IF conn.unacked = 1
            THEN AckPuts(conn.toAck) /\ conn'.unacked = 0 /\ conn'.toAck = <<>>
            ELSE /\ conn'.unacked = conn.unacked - 1 /\ conn'.toAck = conn.toAck
                 /\ writes' = writes /\ mainQueue' = mainQueue
<1> DEFINE t == Tail(conn.toClient)
<1>1. /\ t \in Seq(ToClient) /\ Shrunk(conn.toClient, t) /\ Len(conn.toClient) >= 1
      /\ Head(conn.toClient) = conn.toClient[1] /\ conn.toClient[1] \in ToClient
      /\ conn.toClient[1].msg = "listening"
  BY ReceiveDoes DEF OnListenResponse
<1>2. cache' = cache /\ observers' = observers /\ server' = server /\ erased' = erased
  BY DEF OnListenResponse
<1> DEFINE r == Rest(conn)
<1>3. /\ r \in Connection /\ r.up = conn.up /\ r.listens = conn.listens /\ r.puts = conn.puts
      /\ r.toAck = conn.toAck /\ r.unacked = conn.unacked /\ r.toClient = t
      /\ r.owed = conn.owed /\ r.listening = conn.listening /\ r.toServer = conn.toServer
  BY <1>1, ConnTypes DEF Connection, Rest
<1>4. \/ conn.unacked = 1 /\ AckPuts(conn.toAck) /\ conn' = [r EXCEPT !.unacked = 0, !.toAck = <<>>]
      \/ /\ conn.unacked # 1 /\ conn' = [r EXCEPT !.unacked = @ - 1]
         /\ writes' = writes /\ mainQueue' = mainQueue
  BY DEF OnListenResponse
<1> HIDE DEF r, t
<1>5. CASE conn.unacked = 1 /\ AckPuts(conn.toAck) /\ conn' = [r EXCEPT !.unacked = 0, !.toAck = <<>>]
  <2>1. <<>> \in Seq(Ack) /\ 0 \in Int
    OBVIOUS
  <2>2. /\ conn' \in Connection /\ SameRequests /\ conn'.toClient = t /\ conn'.puts = conn.puts
        /\ conn'.unacked = 0 /\ conn'.toAck = <<>>
    BY <1>2, <1>3, <1>5, <2>1 DEF Connection, SameRequests
  <2> QED
    BY <1>1, <1>2, <1>5, <2>2
<1>6. CASE /\ conn.unacked # 1 /\ conn' = [r EXCEPT !.unacked = @ - 1]
           /\ writes' = writes /\ mainQueue' = mainQueue
  <2>1. r.unacked - 1 \in Int
    BY <1>3, ConnTypes
  <2>2. /\ conn' \in Connection /\ SameRequests /\ conn'.toClient = t /\ conn'.puts = conn.puts
        /\ conn'.unacked = conn.unacked - 1 /\ conn'.toAck = conn.toAck
    BY <1>2, <1>3, <1>6, <2>1 DEF Connection, SameRequests
  <2> QED
    BY <1>1, <1>2, <1>6, <2>2
<1> QED
  BY <1>4, <1>5, <1>6

LEMMA OnPutResponseDoes ==
  ASSUME TypeInv, OnPutResponse
  PROVE  LET m == conn.toClient[1]
             a == [id |-> m.id, ok |-> m.ok]
         IN  /\ conn' \in Connection /\ SameRequests /\ Shrunk(conn.toClient, conn'.toClient)
             /\ conn'.puts = conn.puts \ {m.id} /\ conn'.unacked = conn.unacked
             /\ Len(conn.toClient) >= 1 /\ m.msg = "put" /\ cache' = cache
             /\ m.id \in Removals /\ a \in Ack
             /\ \/ conn.unacked = 0 /\ AckPuts(<<a>>) /\ conn'.toAck = conn.toAck
                \/ /\ conn.unacked > 0 /\ writes' = writes /\ mainQueue' = mainQueue
                   /\ conn'.toAck = Append(conn.toAck, a)
<1> DEFINE t == Tail(conn.toClient)
           m == conn.toClient[1]
           a == [id |-> m.id, ok |-> m.ok]
<1>1. /\ t \in Seq(ToClient) /\ Shrunk(conn.toClient, t) /\ Len(conn.toClient) >= 1
      /\ Head(conn.toClient) = m /\ m \in ToClient /\ m.msg = "put"
  BY ReceiveDoes DEF OnPutResponse
<1>2. cache' = cache /\ observers' = observers /\ server' = server /\ erased' = erased
  BY DEF OnPutResponse
<1>3. m.id \in Removals /\ a \in Ack
  BY <1>1, MessageKinds DEF Ack
<1> DEFINE c == [Rest(conn) EXCEPT !.puts = @ \ {m.id}]
<1>4. /\ c \in Connection /\ c.up = conn.up /\ c.listens = conn.listens /\ c.puts = conn.puts \ {m.id}
      /\ c.toAck = conn.toAck /\ c.unacked = conn.unacked /\ c.toClient = t
      /\ c.owed = conn.owed /\ c.listening = conn.listening /\ c.toServer = conn.toServer
  <2> DEFINE r == Rest(conn)
  <2>1. /\ r \in Connection /\ r.up = conn.up /\ r.listens = conn.listens /\ r.puts = conn.puts
        /\ r.toAck = conn.toAck /\ r.unacked = conn.unacked /\ r.toClient = t
        /\ r.owed = conn.owed /\ r.listening = conn.listening /\ r.toServer = conn.toServer
    BY <1>1, ConnTypes DEF Connection, Rest
  <2> HIDE DEF r, m, t
  <2>2. r.puts \ {m.id} \in SUBSET Removals
    BY <2>1, ConnTypes
  <2>3. c = [r EXCEPT !.puts = r.puts \ {m.id}]
    BY DEF r
  <2> HIDE DEF c
  <2> QED
    BY <2>1, <2>2, <2>3 DEF Connection
<1>5. \/ conn.unacked = 0 /\ AckPuts(<<a>>) /\ conn' = c
      \/ /\ conn.unacked > 0 /\ writes' = writes /\ mainQueue' = mainQueue
         /\ conn' = [c EXCEPT !.toAck = Append(@, a)]
  BY <1>1 DEF OnPutResponse
<1> HIDE DEF c, a, m, t
<1>6. CASE conn.unacked = 0 /\ AckPuts(<<a>>) /\ conn' = c
  BY <1>1, <1>2, <1>3, <1>4, <1>6 DEF SameRequests, a, m
<1>7. CASE /\ conn.unacked > 0 /\ writes' = writes /\ mainQueue' = mainQueue
           /\ conn' = [c EXCEPT !.toAck = Append(@, a)]
  <2>1. Append(conn.toAck, a) \in Seq(Ack)
    BY <1>3, ConnTypes
  <2>2. /\ conn' \in Connection /\ SameRequests /\ conn'.toClient = t /\ conn'.puts = conn.puts \ {m.id}
        /\ conn'.unacked = conn.unacked /\ conn'.toAck = Append(conn.toAck, a)
    BY <1>2, <1>4, <1>7, <2>1 DEF Connection, SameRequests
  <2> QED
    BY <1>1, <1>2, <1>3, <1>7, <2>2 DEF a, m
<1> QED
  BY <1>5, <1>6, <1>7


-----------------------------------------------------------------------------
(* The connection comes and goes. *)

(* The keys of an ordering are the whole set, each once. *)
LEMMA OrderingDoes ==
  ASSUME NEW ws \in SUBSET Removals, NEW keys \in InOrder(ws)
  PROVE  LET n == Cardinality(ws)
         IN  /\ n \in Nat /\ keys \in [1..n -> ws]
             /\ \A i, j \in 1..n : keys[i] = keys[j] => i = j
             /\ \A w \in ws : \E i \in 1..n : keys[i] = w
<1> DEFINE n == Cardinality(ws)
           D == 1..n
<1>1. IsFiniteSet(ws)
  <2>1. MaxRemovals \in Int
    BY BoundsAssumption
  <2>2. IsFiniteSet(Removals)
    BY <2>1, FS_Interval DEF Removals
  <2> QED
    BY <2>2, FS_Subset
<1>2. n \in Nat
  BY <1>1, FS_CardinalityType
<1>3. keys \in [D -> ws] /\ \A i, j \in D : i < j => keys[i] < keys[j]
  BY DEF InOrder
<1>4. ws \subseteq Int
  BY Bounds
<1>5. \A i, j \in D : keys[i] = keys[j] => i = j
  <2>1. TAKE i, j \in D
  <2>2. HAVE keys[i] = keys[j]
  <2>3. i \in Int /\ j \in Int /\ keys[i] \in Int /\ keys[j] \in Int
    <3>1. i \in Int /\ j \in Int
      OBVIOUS
    <3>2. keys[i] \in ws /\ keys[j] \in ws
      BY <1>3
    <3> QED
      BY <1>4, <3>1, <3>2
  <2>4. ~(i < j) /\ ~(j < i)
    BY <1>3, <2>2, <2>3
  <2> QED
    BY <2>3, <2>4
<1>6. keys \in Injection(D, ws)
  BY <1>3, <1>5 DEF Injection, IsInjective
<1>7. Cardinality(D) = n
  BY <1>2, FS_Interval
<1> HIDE DEF D, n
<1>8. keys \in Surjection(D, ws)
  BY <1>1, <1>6, <1>7, FS_Injection DEF n
<1>9. \A w \in ws : \E i \in D : keys[i] = w
  BY <1>8 DEF Surjection
<1> QED
  BY <1>2, <1>3, <1>5, <1>9 DEF D, n

LEMMA OnReadyDoes ==
  ASSUME TypeInv, SessionInv, OnReady
  PROVE  /\ conn' \in Connection /\ ~conn.up /\ conn'.up = TRUE /\ conn'.listens = conn.listens
         /\ conn'.puts = conn.puts /\ conn'.toAck = conn.toAck
         /\ conn'.toClient = conn.toClient /\ conn.toClient = <<>> /\ conn.toServer = <<>>
         /\ conn'.owed = conn.owed /\ conn'.listening = conn.listening
         /\ conn'.unacked = IF conn.listens THEN conn.unacked + 1 ELSE conn.unacked
         /\ LET n == Len(conn'.toServer)
                f == IF conn.listens THEN 1 ELSE 0
                q == conn'.toServer
            IN  /\ n \in Nat /\ n >= f /\ (conn.listens => q[1] = [req |-> "listen"])
                /\ \A i \in 1..n : i > f => q[i].req = "put" /\ q[i].id \in conn.puts
                /\ \A i, j \in 1..n : i > f /\ j > f /\ q[i].id = q[j].id => i = j
                /\ \A w \in conn.puts : \E i \in 1..n : i > f /\ q[i].id = w
         /\ Unmoved /\ server' = server /\ erased' = erased
<1> DEFINE c == [conn EXCEPT !.up = TRUE]
           r == RestoreListen(c)
           f == IF conn.listens THEN 1 ELSE 0
           m == Cardinality(conn.puts)
<1>1. ~conn.up /\ conn.toServer = <<>> /\ conn.toClient = <<>> /\ Unmoved /\ server' = server /\ erased' = erased
  BY DEF OnReady, SessionInv, Unmoved, client
<1>2. PICK keys \in InOrder(conn.puts) : conn' = RestorePuts(r, keys)
  BY DEF OnReady
<1>3. /\ m \in Nat /\ keys \in [1..m -> conn.puts]
      /\ \A i, j \in 1..m : keys[i] = keys[j] => i = j
      /\ \A w \in conn.puts : \E i \in 1..m : keys[i] = w
  BY ConnTypes, OrderingDoes
<1>4. /\ c \in Connection /\ c.up = TRUE /\ c.listens = conn.listens /\ c.puts = conn.puts
      /\ c.toAck = conn.toAck /\ c.unacked = conn.unacked /\ c.toClient = conn.toClient
      /\ c.owed = conn.owed /\ c.listening = conn.listening /\ c.toServer = <<>>
  BY <1>1, ConnTypes DEF Connection
<1> HIDE DEF c
<1>5. /\ r \in Connection /\ r.up = TRUE /\ r.listens = conn.listens /\ r.puts = conn.puts
      /\ r.toAck = conn.toAck /\ r.toClient = conn.toClient
      /\ r.owed = conn.owed /\ r.listening = conn.listening
      /\ r.unacked = IF conn.listens THEN conn.unacked + 1 ELSE conn.unacked
      /\ r.toServer = IF conn.listens THEN <<[req |-> "listen"]>> ELSE <<>>
  <2>1. CASE conn.listens
    <3>1. r = SendListen(c)
      BY <1>4, <2>1 DEF RestoreListen
    <3> DEFINE l == [req |-> "listen"]
    <3>2. Append(<<>>, l) = <<l>>
      OBVIOUS
    <3>3. /\ r \in Connection /\ r.up = c.up /\ r.listens = c.listens /\ r.puts = c.puts
          /\ r.toAck = c.toAck /\ r.unacked = c.unacked + 1 /\ r.toClient = c.toClient
          /\ r.owed = c.owed /\ r.listening = c.listening
          /\ r.toServer = Append(c.toServer, l)
      <4> HIDE DEF r
      <4> QED
        BY <1>4, <3>1, SendListenDoes
    <3> HIDE DEF r
    <3> QED
      BY <1>4, <2>1, <3>2, <3>3
  <2>2. CASE ~conn.listens
    <3>1. r = c
      BY <1>4, <2>2 DEF RestoreListen
    <3> QED
      BY <1>4, <2>2, <3>1
  <2> QED
    BY <2>1, <2>2, ConnTypes
<1> HIDE DEF r
<1> DEFINE ps == [i \in DOMAIN keys |-> [req |-> "put", id |-> keys[i]]]
           q == r.toServer \o ps
<1>6. /\ ps \in Seq(ToServer) /\ Len(ps) = m
      /\ \A i \in 1..m : ps[i].req = "put" /\ ps[i].id = keys[i]
  <2>1. DOMAIN keys = 1..m
    BY <1>3
  <2>2. \A i \in 1..m : [req |-> "put", id |-> keys[i]] \in ToServer
    BY <1>3, ConnTypes DEF ToServer
  <2>3. ps = [i \in 1..m |-> [req |-> "put", id |-> keys[i]]]
    BY <2>1
  <2> HIDE DEF ps, m
  <2> QED
    BY <1>3, <2>2, <2>3
<1>7. r.toServer \in Seq(ToServer) /\ Len(r.toServer) = f /\ (conn.listens => r.toServer[1] = [req |-> "listen"])
  <2> DEFINE l == [req |-> "listen"]
  <2>1. l \in ToServer
    BY DEF ToServer
  <2>2. r.toServer = IF conn.listens THEN <<l>> ELSE <<>>
    BY <1>5
  <2> HIDE DEF l
  <2>3. r.toServer \in Seq(ToServer) /\ Len(r.toServer) = f /\ (conn.listens => r.toServer[1] = l)
    BY <2>1, <2>2
  <2> QED
    BY <2>3 DEF l
<1>8. /\ q \in Seq(ToServer) /\ Len(q) = f + m /\ (conn.listens => q[1] = [req |-> "listen"])
      /\ \A i \in 1..(f + m) : i > f => q[i] = ps[i - f]
  <2>1. f \in 0..1 /\ (conn.listens => f = 1) /\ m \in Nat
    BY <1>3
  <2> DEFINE s == r.toServer
  <2>2. s \in Seq(ToServer) /\ ps \in Seq(ToServer) /\ Len(s) = f /\ Len(ps) = m
    BY <1>6, <1>7
  <2> HIDE DEF s, ps, f, m
  <2>3. /\ s \o ps \in Seq(ToServer) /\ Len(s \o ps) = f + m
        /\ \A i \in 1..(f + m) : (s \o ps)[i] = IF i <= f THEN s[i] ELSE ps[i - f]
    BY <2>2, ConcatProperties
  <2>4. q = s \o ps
    BY DEF s
  <2> HIDE DEF q
  <2>5. \A i \in 1..(f + m) : i > f => q[i] = ps[i - f]
    <3>1. TAKE i \in 1..(f + m)
    <3>2. HAVE i > f
    <3>3. i \in Int /\ f \in Int /\ ~(i <= f)
      BY <2>1, <3>2
    <3>4. q[i] = IF i <= f THEN s[i] ELSE ps[i - f]
      BY <2>3, <2>4
    <3> QED
      BY <3>3, <3>4
  <2>6. conn.listens => q[1] = s[1]
    BY <2>1, <2>3, <2>4
  <2> QED
    BY <1>7, <2>3, <2>4, <2>5, <2>6 DEF s
<1> HIDE DEF ps, m
<1>9. conn' = [r EXCEPT !.toServer = q]
  <2>1. conn' = [r EXCEPT !.toServer = @ \o ps]
    BY <1>2 DEF RestorePuts, ps
  <2> QED
    BY <2>1
<1> HIDE DEF q
<1>10. /\ conn' \in Connection /\ conn'.up = TRUE /\ conn'.listens = conn.listens /\ conn'.puts = conn.puts
       /\ conn'.toAck = conn.toAck /\ conn'.toClient = conn.toClient
       /\ conn'.owed = conn.owed /\ conn'.listening = conn.listening
       /\ conn'.unacked = IF conn.listens THEN conn.unacked + 1 ELSE conn.unacked
       /\ conn'.toServer = q
  BY <1>5, <1>8, <1>9 DEF Connection
<1>11. f \in 0..1 /\ f + m \in Nat /\ f + m >= f
  BY <1>3
<1>12. \A i \in 1..(f + m) : i > f => i - f \in 1..m
  BY <1>3
<1>13. \A i \in 1..(f + m) : i > f => q[i].req = "put" /\ q[i].id = keys[i - f] /\ keys[i - f] \in conn.puts
  BY <1>3, <1>6, <1>8, <1>12
<1>14. \A i, j \in 1..(f + m) : i > f /\ j > f /\ q[i].id = q[j].id => i = j
  <2>1. TAKE i, j \in 1..(f + m)
  <2>2. HAVE i > f /\ j > f /\ q[i].id = q[j].id
  <2>3. i - f = j - f
    BY <1>3, <1>12, <1>13, <2>2
  <2> QED
    BY <1>3, <2>3
<1>15. \A w \in conn.puts : \E i \in 1..(f + m) : i > f /\ q[i].id = w
  <2>1. TAKE w \in conn.puts
  <2>2. PICK i \in 1..m : keys[i] = w
    BY <1>3
  <2>3. i + f \in 1..(f + m) /\ i + f > f /\ (i + f) - f = i
    BY <1>3
  <2> QED
    BY <1>13, <2>2, <2>3
<1> QED
  <2> HIDE DEF f
  <2> QED
    BY <1>1, <1>8, <1>10, <1>11, <1>13, <1>14, <1>15, Zenon DEF f

LEMMA OnDisconnectDoes ==
  ASSUME TypeInv, OnDisconnect
  PROVE  /\ conn' \in Connection /\ conn'.up = FALSE /\ conn'.listens = conn.listens
         /\ conn'.puts = conn.puts /\ conn'.toAck = conn.toAck
         /\ conn'.toClient = <<>> /\ conn'.toServer = <<>>
         /\ conn'.owed = 0 /\ conn'.listening = FALSE /\ conn'.unacked = 0
         /\ Unmoved /\ server' = server /\ erased' = erased
<1>1. conn \in Connection /\ conn.drops + 1 \in Int
  BY ConnTypes
<1>2. conn' = [conn EXCEPT !.up = FALSE, !.unacked = 0, !.toServer = <<>>, !.toClient = <<>>,
                           !.owed = 0, !.listening = FALSE, !.drops = conn.drops + 1]
  BY <1>1 DEF OnDisconnect, Connection
<1>3. <<>> \in Seq(ToServer) /\ <<>> \in Seq(ToClient) /\ 0 \in Int
  OBVIOUS
<1>4. /\ conn' \in Connection /\ conn'.up = FALSE /\ conn'.listens = conn.listens
      /\ conn'.puts = conn.puts /\ conn'.toAck = conn.toAck
      /\ conn'.toClient = <<>> /\ conn'.toServer = <<>>
      /\ conn'.owed = 0 /\ conn'.listening = FALSE /\ conn'.unacked = 0
  BY <1>1, <1>2, <1>3 DEF Connection
<1> QED
  BY <1>4 DEF OnDisconnect, Unmoved, client


-----------------------------------------------------------------------------
(* Each step of the connection keeps its invariants. *)

LEMMA ShrunkIndices ==
  ASSUME NEW s, NEW t, Shrunk(s, t), Len(t) \in Nat
  PROVE  /\ \A i \in 1..Len(t) : i + 1 \in 1..Len(s) /\ i + 1 # 1 /\ t[i] = s[i + 1]
         /\ \A i \in 1..Len(s) : i = 1 \/ (i - 1 \in 1..Len(t) /\ t[i - 1] = s[i])
         /\ 1 \in 1..Len(s)
<1>1. Len(s) = Len(t) + 1 /\ Len(s) \in Nat
  BY DEF Shrunk
<1>2. \A i \in 1..Len(t) : i + 1 \in 1..Len(s) /\ i + 1 # 1 /\ t[i] = s[i + 1]
  BY <1>1 DEF Shrunk
<1>3. ASSUME NEW i \in 1..Len(s), i # 1
      PROVE  i - 1 \in 1..Len(t) /\ t[i - 1] = s[i]
  <2>1. i - 1 \in 1..Len(t) /\ (i - 1) + 1 = i
    BY <1>1, <1>3
  <2> QED
    BY <1>2, <2>1
<1> QED
  BY <1>1, <1>2, <1>3

LEMMA LongerIndices ==
  ASSUME NEW s, NEW t, NEW n \in 1..2, Longer(s, t, n)
  PROVE  /\ \A i \in 1..Len(s) : i \in 1..Len(t) /\ t[i] = s[i] /\ i < Len(s) + 1 /\ i < Len(s) + 2
         /\ \A i \in 1..Len(t) : \/ i \in 1..Len(s) \/ i = Len(s) + 1 \/ (n = 2 /\ i = Len(s) + 2)
         /\ Len(s) + 1 \in 1..Len(t) /\ (n = 2 => Len(s) + 2 \in 1..Len(t))
         /\ Len(s) \in Nat
<1>1. /\ Len(t) = Len(s) + n /\ Len(s) \in Nat /\ Len(t) \in Nat
      /\ \A i \in 1..Len(s) : t[i] = s[i]
  BY DEF Longer
<1>2. n \in Int /\ n >= 1 /\ (n = 1 \/ n = 2)
  OBVIOUS
<1>3. ASSUME NEW i \in 1..Len(s)
      PROVE  i \in 1..Len(t) /\ t[i] = s[i] /\ i < Len(s) + 1 /\ i < Len(s) + 2
  <2>1. i \in Int /\ 1 <= i /\ i <= Len(s)
    BY <1>1
  <2> QED
    BY <1>1, <1>2, <2>1
<1>4. ASSUME NEW i \in 1..Len(t)
      PROVE  i \in 1..Len(s) \/ i = Len(s) + 1 \/ (n = 2 /\ i = Len(s) + 2)
  <2>1. i \in Int /\ 1 <= i /\ i <= Len(s) + n
    BY <1>1
  <2> QED
    BY <1>1, <1>2, <2>1
<1>5. Len(s) + 1 \in 1..Len(t) /\ (n = 2 => Len(s) + 2 \in 1..Len(t))
  BY <1>1, <1>2
<1>6. Len(s) \in Nat
  BY <1>1
<1> QED
  BY <1>3, <1>4, <1>5, <1>6

(* And those of the next connection.                                       *)
LEMMA PrimedTypes ==
  ASSUME TypeInv, conn' \in Connection
  PROVE  /\ Len(conn'.toServer) \in Nat /\ Len(conn'.toClient) \in Nat /\ Len(conn'.toAck) \in Nat
         /\ conn'.toServer \in Seq(ToServer) /\ conn'.toClient \in Seq(ToClient)
         /\ \A i \in Requests' : conn'.toServer[i].req \in {"listen", "put"}
         /\ \A i \in Messages' : conn'.toClient[i].msg \in {"data", "put", "listening"}
<1>1. /\ Len(conn'.toServer) \in Nat /\ Len(conn'.toClient) \in Nat /\ Len(conn'.toAck) \in Nat
      /\ conn'.toServer \in Seq(ToServer) /\ conn'.toClient \in Seq(ToClient)
  BY DEF Connection
<1>2. /\ \A i \in Requests' : conn'.toServer[i] \in ToServer
      /\ \A i \in Messages' : conn'.toClient[i] \in ToClient
  BY <1>1 DEF Requests, Messages
<1> QED
  BY <1>1, <1>2, RequestKinds, MessageKinds

LEMMA TakesListenKeeps ==
  ASSUME TypeInv, ConnInv, ServerTakesListen
  PROVE  ConnInv' /\ \A u \in Values : Reported(u) => Reported(u)'
<1>1. /\ conn' \in Connection /\ conn'.up = conn.up /\ conn'.listens = conn.listens
      /\ conn'.puts = conn.puts /\ conn'.toAck = conn.toAck /\ conn'.unacked = conn.unacked
      /\ conn'.toClient = conn.toClient /\ conn'.listening = conn.listening
      /\ conn'.owed = conn.owed + 1
      /\ Shrunk(conn.toServer, conn'.toServer) /\ conn.toServer[1].req = "listen"
      /\ cache' = cache /\ writes' = writes /\ observers' = observers
      /\ server' = server /\ erased' = erased
  BY TakesListenDoes DEF Unmoved
<1>2. /\ \A i \in Requests' : i + 1 \in Requests /\ i + 1 # 1 /\ conn'.toServer[i] = conn.toServer[i + 1]
      /\ \A i \in Requests : i = 1 \/ (i - 1 \in Requests' /\ conn'.toServer[i - 1] = conn.toServer[i])
      /\ 1 \in Requests /\ Messages' = Messages
  BY <1>1, PrimedTypes, ShrunkIndices DEF Requests, Messages
<1>3. Listen(1) /\ ~Put(1) /\ \A i \in Requests : i # 1 => ~Listen(i)
  BY <1>1, <1>2 DEF ConnInv, SessionInv, Listen, Put
<1>4. Held' = Held /\ Answered' = Answered
  BY <1>1, <1>2 DEF Held, AckedIds, Answered, Answer
<1>5. Asking /\ Asking' /\ conn.owed = 0 /\ conn'.owed = 1 /\ \A i \in Requests' : ~Listen(i)'
  BY <1>1, <1>2, <1>3 DEF ConnInv, SessionInv, Asking, Listen
<1>6. PutInv'
  <2>1. \A i, j \in Requests' : i + 1 = j + 1 => i = j
    BY DEF Requests
  <2> QED
    BY <1>1, <1>2, <1>3, <1>4, <2>1 DEF ConnInv, PutInv, Put, Reply
<1>7. SessionInv'
  BY <1>1, <1>2, <1>4, <1>5 DEF ConnInv, SessionInv, Answer, Reply, Data
<1>8. LatestInv' /\ ServerInv' /\ FlowInv' /\ \A u \in Values : Reported(u) => Reported(u)'
  BY <1>1, <1>2 DEF ConnInv, LatestInv, ServerInv, Stale, FlowInv, Reported, Data, Above
<1>9. ErasedInv'
  BY <1>1, <1>2, <1>4, <1>5 DEF ConnInv, ErasedInv, NoneStale, StaleAt, CuredBefore, Cures, Stale, Data, Reply, Answer
<1> QED
  BY <1>6, <1>7, <1>8, <1>9 DEF ConnInv


LEMMA AnswersListenKeeps ==
  ASSUME TypeInv, ConnInv, ServerAnswersListen
  PROVE  ConnInv' /\ \A u \in Values : Reported(u) => Reported(u)'
<1>0. PICK n : n = Len(conn.toClient)
  OBVIOUS
<1>1. /\ conn' \in Connection /\ conn'.up = conn.up /\ conn'.listens = conn.listens
      /\ conn'.puts = conn.puts /\ conn'.toAck = conn.toAck /\ conn'.unacked = conn.unacked
      /\ conn'.toServer = conn.toServer
      /\ conn.owed > 0 /\ conn'.owed = conn.owed - 1 /\ conn'.listening = TRUE
      /\ Longer(conn.toClient, conn'.toClient, 2)
      /\ conn'.toClient[n + 1] = [msg |-> "data", value |-> server.value]
      /\ conn'.toClient[n + 2] = [msg |-> "listening"]
      /\ cache' = cache /\ writes' = writes /\ observers' = observers
      /\ server' = server /\ erased' = erased
  BY <1>0, AnswersListenDoes DEF Unmoved, SameSession
<1>2. /\ \A i \in Messages : i \in Messages' /\ conn'.toClient[i] = conn.toClient[i] /\ i < n + 1 /\ i < n + 2
      /\ \A i \in Messages' : i \in Messages \/ i = n + 1 \/ i = n + 2
      /\ n + 1 \in Messages' /\ n + 2 \in Messages' /\ n \in Nat /\ Requests' = Requests
  BY <1>0, <1>1, LongerIndices DEF Requests, Messages
<1>3. /\ Data(n + 1)' /\ ~Reply(n + 1)' /\ ~Answer(n + 1)' /\ conn'.toClient[n + 1].value = server.value
      /\ Answer(n + 2)' /\ ~Reply(n + 2)' /\ ~Data(n + 2)'
  BY <1>1 DEF Data, Reply, Answer
<1>4. Held' = Held
  BY <1>1 DEF Held, AckedIds
<1>5. /\ conn.owed = 1 /\ conn'.owed = 0 /\ ~conn.listening /\ conn.unacked = 1 /\ conn.up /\ conn.listens
      /\ (\A i \in Requests : ~Listen(i)) /\ (\A i \in Requests' : ~Listen(i)')
      /\ \A j \in Messages : Reply(j)
  BY <1>1, <1>2 DEF ConnInv, SessionInv, Asking, Listen
<1>6. /\ ~Asking' /\ Answered'
      /\ \A j \in Messages : Reply(j)' /\ Reply(j) /\ ~Answer(j) /\ ~Answer(j)' /\ ~Data(j) /\ ~Data(j)'
  BY <1>1, <1>2, <1>3, <1>5 DEF Asking, Answered, Reply, Answer, Data, Listen
<1>7. PutInv'
  BY <1>1, <1>2, <1>3, <1>4, <1>6 DEF ConnInv, PutInv, Put, Reply
<1>8. SessionInv'
  <2>1. \A j \in Messages' : Answer(j)' => j = n + 2
    BY <1>2, <1>3, <1>6
  <2>2. (n + 2) - 1 = n + 1
    BY <1>2
  <2> QED
    BY <1>1, <1>2, <1>3, <1>5, <1>6, <2>1, <2>2 DEF ConnInv, SessionInv
<1>9. LatestInv'
  <2>1. ASSUME NEW j \in Messages', j > n + 1 PROVE ~Data(j)'
    <3>1. CASE j \in Messages
      BY <1>6, <3>1
    <3>2. CASE j \notin Messages
      BY <1>2, <1>3, <2>1, <3>2
    <3> QED
      BY <3>1, <3>2
  <2> QED
    BY <1>1, <1>2, <1>3, <2>1 DEF LatestInv
<1>10. ServerInv'
  BY <1>1 DEF ConnInv, ServerInv, Stale
<1>11. server.value \in {Removed, server.last} /\ server.value <= server.last /\ server.last \in Values
  <2>1. server.last \in Values /\ server.value \in {Removed, server.last}
    BY ConnTypes DEF ConnInv, ServerInv
  <2> QED
    BY <2>1, Bounds DEF Removed
<1>12. FlowInv' /\ \A u \in Values : Reported(u) => Reported(u)'
  BY <1>1, <1>2, <1>3, <1>6, <1>11 DEF ConnInv, FlowInv, Reported, Data, Above
<1>13. ErasedInv'
  <2>1. ASSUME NEW w \in Removals
        PROVE  \A j \in Messages' : ~StaleAt(j, w)'
    BY <1>1, <1>2, <1>3, <1>6, <2>1 DEF ConnInv, ServerInv, StaleAt, Stale
  <2>2. 1 \in Messages' /\ Answer(1)' => FALSE
    BY <1>2, <1>3, <1>6
  <2>3. ASSUME NEW k \in Messages', Reply(k)'
        PROVE  k < n + 2 /\ n + 2 \in Messages' /\ Answer(n + 2)'
    BY <1>2, <1>3, <2>3
  <2>4. \A w \in Removals : w \notin writes => ~Stale(cache, w)
    BY DEF ConnInv, ErasedInv
  <2> QED
    BY <1>1, <2>1, <2>2, <2>3, <2>4 DEF ErasedInv, NoneStale, Stale
<1> QED
  BY <1>7, <1>8, <1>9, <1>10, <1>12, <1>13 DEF ConnInv

LEMMA OnDisconnectKeeps ==
  ASSUME TypeInv, ConnInv, OnDisconnect
  PROVE  ConnInv' /\ \A u \in Values : Reported(u) => Reported(u)'
<1>1. /\ conn' \in Connection /\ conn'.up = FALSE /\ conn'.listens = conn.listens
      /\ conn'.puts = conn.puts /\ conn'.toAck = conn.toAck
      /\ conn'.toClient = <<>> /\ conn'.toServer = <<>>
      /\ conn'.owed = 0 /\ conn'.listening = FALSE /\ conn'.unacked = 0
      /\ cache' = cache /\ writes' = writes /\ observers' = observers
      /\ server' = server /\ erased' = erased
  BY OnDisconnectDoes DEF Unmoved
<1>2. Requests' = {} /\ Messages' = {} /\ Held' = Held /\ ~Asking' /\ ~Answered'
  BY <1>1 DEF Requests, Messages, Held, AckedIds, Asking, Answered
<1>3. PutInv'
  BY <1>1, <1>2 DEF ConnInv, PutInv
<1>4. SessionInv'
  BY <1>1, <1>2 DEF ConnInv, SessionInv
<1>5. LatestInv' /\ ServerInv' /\ FlowInv' /\ \A u \in Values : Reported(u) => Reported(u)'
  BY <1>1, <1>2 DEF ConnInv, LatestInv, ServerInv, Stale, FlowInv, Reported, Above
<1>6. ErasedInv'
  BY <1>1, <1>2 DEF ConnInv, ErasedInv, NoneStale, Stale
<1> QED
  BY <1>3, <1>4, <1>5, <1>6 DEF ConnInv

LEMMA OnReadyKeeps ==
  ASSUME TypeInv, ConnInv, OnReady
  PROVE  ConnInv' /\ \A u \in Values : Reported(u) => Reported(u)'
<1> DEFINE f == IF conn.listens THEN 1 ELSE 0
<1>1. /\ conn' \in Connection /\ ~conn.up /\ conn'.up = TRUE /\ conn'.listens = conn.listens
      /\ conn'.puts = conn.puts /\ conn'.toAck = conn.toAck
      /\ conn'.toClient = conn.toClient /\ conn.toClient = <<>> /\ conn.toServer = <<>>
      /\ conn'.owed = conn.owed /\ conn'.listening = conn.listening
      /\ conn'.unacked = IF conn.listens THEN conn.unacked + 1 ELSE conn.unacked
      /\ cache' = cache /\ writes' = writes /\ observers' = observers
      /\ server' = server /\ erased' = erased
  BY OnReadyDoes, Zenon DEF Unmoved, ConnInv
<1>2. /\ Len(conn'.toServer) \in Nat /\ Len(conn'.toServer) >= f
      /\ conn.listens => conn'.toServer[1] = [req |-> "listen"]
      /\ \A i \in Requests' : i > f => conn'.toServer[i].req = "put" /\ conn'.toServer[i].id \in conn.puts
      /\ \A i, j \in Requests' : i > f /\ j > f /\ conn'.toServer[i].id = conn'.toServer[j].id => i = j
      /\ \A w \in conn.puts : \E i \in Requests' : i > f /\ conn'.toServer[i].id = w
  BY OnReadyDoes, Zenon DEF ConnInv, Requests
<1>3. Requests = {} /\ Messages = {} /\ Messages' = {} /\ Held' = Held
  BY <1>1 DEF Requests, Messages, Held, AckedIds
<1>4. ~Asking /\ ~Answered /\ ~conn.listening /\ conn.unacked = 0 /\ conn.owed = 0
  BY <1>1, <1>3 DEF ConnInv, SessionInv, Asking, Answered
<1>5. /\ \A i \in Requests' : i > f => Put(i)' /\ ~Listen(i)'
      /\ \A i \in Requests' : i > f \/ (conn.listens /\ i = 1 /\ Listen(i)' /\ ~Put(i)')
      /\ conn.listens => 1 \in Requests' /\ Listen(1)' /\ ~Put(1)'
  <2>1. ASSUME NEW i \in Requests', i > f PROVE Put(i)' /\ ~Listen(i)'
    BY <1>2, <2>1 DEF Put, Listen
  <2>2. ASSUME conn.listens PROVE 1 \in Requests' /\ Listen(1)' /\ ~Put(1)' /\ f = 1
    BY <1>2, <2>2 DEF Requests, Put, Listen
  <2>3. ASSUME NEW i \in Requests', ~(i > f) PROVE conn.listens /\ i = 1
    BY <1>2, <2>3 DEF Requests
  <2> QED
    BY <2>1, <2>2, <2>3
<1>6. (Asking' <=> conn.listens) /\ ~Answered'
  BY <1>1, <1>3, <1>4, <1>5 DEF Asking, Answered
<1> HIDE DEF f
<1>7. PutInv'
  <2>1. \A i \in Requests' : Put(i)' => i > f
    BY <1>5
  <2> QED
    BY <1>1, <1>2, <1>3, <1>5, <2>1 DEF ConnInv, PutInv
<1>8. SessionInv'
  <2>1. \A i \in Requests' : Listen(i)' => i = 1
    BY <1>5
  <2> QED
    BY <1>1, <1>3, <1>4, <1>6, <2>1 DEF ConnInv, SessionInv
<1>9. LatestInv' /\ ServerInv' /\ FlowInv' /\ \A u \in Values : Reported(u) => Reported(u)'
  BY <1>1, <1>3, <1>4 DEF ConnInv, LatestInv, ServerInv, Stale, FlowInv, Reported, Above
<1>10. ErasedInv'
  BY <1>1, <1>3 DEF ConnInv, ErasedInv, NoneStale, Stale
<1> QED
  BY <1>7, <1>8, <1>9, <1>10 DEF ConnInv


LEMMA OthersWriteKeeps ==
  ASSUME TypeInv, ConnInv, OthersWrite
  PROVE  ConnInv' /\ \A u \in Values : Reported(u) => Reported(u)'
<1>0. PICK n : n = Len(conn.toClient)
  OBVIOUS
<1>1. /\ conn' \in Connection /\ conn'.up = conn.up /\ conn'.listens = conn.listens
      /\ conn'.puts = conn.puts /\ conn'.toAck = conn.toAck /\ conn'.unacked = conn.unacked
      /\ conn'.toServer = conn.toServer /\ conn'.owed = conn.owed /\ conn'.listening = conn.listening
      /\ cache' = cache /\ writes' = writes /\ observers' = observers /\ erased' = erased
      /\ server'.value = server.last + 1 /\ server'.last = server.last + 1
  BY <1>0, OthersWriteDoes DEF Unmoved, SameSession
<1>2. Held' = Held /\ Requests' = Requests /\ Asking' = Asking
  BY <1>1 DEF Held, AckedIds, Requests, Asking, Listen
<1>3. server.last \in Nat /\ server.value <= server.last /\ erased \in [Removals -> {Unknown} \union Values]
  BY ConnTypes, Bounds DEF ConnInv, ServerInv, TypeInv, Removed
<1>4. ServerInv'
  <2>1. ASSUME NEW w \in Removals PROVE erased[w] <= server.last /\ erased[w] \in Int
    BY <1>3, Bounds DEF ConnInv, ServerInv, Unknown
  <2> QED
    BY <1>1, <1>3, <2>1 DEF ServerInv, Stale
<1>5. CASE /\ conn.listening /\ Longer(conn.toClient, conn'.toClient, 1)
           /\ conn'.toClient[n + 1] = [msg |-> "data", value |-> server.last + 1]
  <2>1. /\ \A i \in Messages : i \in Messages' /\ conn'.toClient[i] = conn.toClient[i] /\ i < n + 1
        /\ \A i \in Messages' : i \in Messages \/ i = n + 1
        /\ n + 1 \in Messages' /\ n \in Nat
    BY <1>0, <1>5, LongerIndices DEF Messages
  <2>2. /\ Data(n + 1)' /\ ~Reply(n + 1)' /\ ~Answer(n + 1)' /\ conn'.toClient[n + 1].value = server.last + 1
        /\ \A j \in Messages : (Data(j)' <=> Data(j)) /\ (Reply(j)' <=> Reply(j)) /\ (Answer(j)' <=> Answer(j))
    BY <1>5, <2>1 DEF Data, Reply, Answer
  <2>3. Answered' <=> Answered
    BY <2>1, <2>2 DEF Answered
  <2>4. PutInv'
    BY <1>1, <1>2, <2>1, <2>2 DEF ConnInv, PutInv, Put
  <2>5. SessionInv'
    <3>1. \A j \in Messages : Answer(j) /\ j > 1 => j - 1 \in Messages
      BY DEF Messages
    <3> QED
      BY <1>1, <1>2, <1>5, <2>1, <2>2, <2>3, <3>1 DEF ConnInv, SessionInv, Listen
  <2>5a. \A j \in Messages' : ~(j > n + 1)
    BY <2>1 DEF Messages
  <2>6. LatestInv'
    BY <1>1, <2>1, <2>2, <2>5a DEF LatestInv
  <2>7. FlowInv' /\ \A u \in Values : Reported(u) => Reported(u)'
    <3>1. cache \in Int /\ \A k \in Messages : Data(k) => conn.toClient[k].value \in Int
      <4>1. cache \in Int
        BY Bounds DEF TypeInv, Unknown
      <4>2. \A k \in Messages : conn.toClient[k] \in ToClient
        BY ConnTypes DEF Messages
      <4> QED
        BY <4>1, <4>2, MessageKinds, Bounds DEF Data
    <3>2. FlowInv'
      <4>1. cache' <= server'.last
        BY <1>1, <1>3, <3>1 DEF ConnInv, FlowInv
      <4>2. ASSUME NEW k \in Messages', Data(k)'
            PROVE  Above(conn'.toClient[k].value, cache') /\ conn'.toClient[k].value <= server'.last
        BY <1>1, <1>3, <2>1, <2>2, <3>1, <4>2 DEF ConnInv, FlowInv, Above
      <4>3. ASSUME NEW i \in Messages', NEW j \in Messages', i < j, Data(i)', Data(j)'
            PROVE  Above(conn'.toClient[j].value, conn'.toClient[i].value)
        <5>1. i \in Messages
          BY <2>1, <4>3, <2>5a DEF Messages
        <5>2. CASE j \in Messages
          BY <2>1, <2>2, <4>3, <5>1, <5>2 DEF ConnInv, FlowInv
        <5>3. CASE j = n + 1
          BY <1>3, <2>1, <2>2, <3>1, <4>3, <5>1, <5>3 DEF ConnInv, FlowInv, Above
        <5> QED
          BY <2>1, <5>2, <5>3
      <4> QED
        BY <4>1, <4>2, <4>3 DEF FlowInv, Above
    <3>3. ASSUME NEW u \in Values, Reported(u) PROVE Reported(u)'
      <4>1. u \in Int
        BY Bounds
      <4> QED
        BY <1>1, <1>3, <2>1, <2>2, <3>1, <3>3, <4>1 DEF Reported, Above
    <3> QED
      BY <3>2, <3>3
  <2>8. ErasedInv'
    <3>1. ASSUME NEW w \in Removals PROVE ~StaleAt(n + 1, w)'
      <4>1. erased[w] <= server.last /\ erased[w] \in Int
        BY <1>3, Bounds DEF ConnInv, ServerInv, Unknown
      <4> QED
        BY <1>1, <1>3, <2>2, <4>1 DEF StaleAt, Stale
    <3>2. ASSUME NEW w \in Removals, NEW m \in Int, NoneStale(m, w) PROVE NoneStale(m, w)'
      BY <1>1, <2>1, <2>2, <3>1, <3>2 DEF NoneStale, StaleAt, Stale
    <3>3. ASSUME NEW w \in Removals, NEW m \in Messages, CuredBefore(m, w) PROVE CuredBefore(m, w)'
      <4>1. ~(n + 1 < m)
        BY <2>1 DEF Messages
      <4> QED
        BY <1>1, <2>1, <2>2, <3>3, <4>1 DEF CuredBefore, Cures, StaleAt, Stale
    <3>4. Messages \subseteq Int /\ 1 \in Int
      BY DEF Messages
    <3>5. ASSUME NEW w \in Removals
          PROVE  /\ w \notin writes' => ~Stale(cache, w)' /\ NoneStale(1, w)'
                 /\ w \in Held' => NoneStale(1, w)' /\ (1 \in Messages' /\ Answer(1)' => ~Stale(cache, w)')
      <4>1. 1 \in Messages' /\ Answer(1)' => 1 \in Messages /\ Answer(1)
        BY <2>1, <2>2
      <4> QED
        BY <1>1, <1>2, <3>2, <3>4, <4>1 DEF ConnInv, ErasedInv, Stale
    <3>6. ASSUME NEW w \in Removals, NEW m \in Messages', Reply(m)', conn'.toClient[m].id = w
          PROVE  /\ NoneStale(m, w)'
                 /\ Asking' \/ (\E k \in Messages' : m < k /\ Answer(k)') \/ CuredBefore(m, w)'
      <4>1. m \in Messages /\ Reply(m) /\ conn.toClient[m].id = w /\ m \in Int
        BY <2>1, <2>2, <3>4, <3>6
      <4>2. (\E k \in Messages : m < k /\ Answer(k)) => (\E k \in Messages' : m < k /\ Answer(k)')
        BY <2>1, <2>2
      <4> QED
        BY <1>2, <3>2, <3>3, <4>1, <4>2 DEF ConnInv, ErasedInv
    <3> QED
      BY <3>5, <3>6 DEF ErasedInv
  <2> QED
    BY <1>4, <2>4, <2>5, <2>6, <2>7, <2>8 DEF ConnInv
<1>6. CASE ~conn.listening /\ conn'.toClient = conn.toClient
  <2>1. Messages' = Messages
    BY <1>6 DEF Messages
  <2>2. PutInv' /\ SessionInv' /\ LatestInv' /\ ErasedInv'
    BY <1>1, <1>2, <1>6, <2>1 DEF ConnInv, PutInv, Put, Reply, SessionInv, Listen, Answer, Answered, Data, LatestInv,
          ErasedInv, NoneStale, StaleAt, CuredBefore, Cures, Stale
  <2>3. cache \in Int /\ \A k \in Messages : ~Data(k)
    BY <1>6, Bounds DEF TypeInv, Unknown, ConnInv, SessionInv, Reply, Data
  <2>4. FlowInv'
    BY <1>1, <1>3, <1>6, <2>1, <2>3 DEF ConnInv, FlowInv, Data
  <2>5. ASSUME NEW u \in Values, Reported(u) PROVE Reported(u)'
    <3>1. u \in Int
      BY Bounds
    <3> QED
      BY <1>1, <1>3, <1>6, <2>1, <2>5, <3>1 DEF Reported, Data
  <2> QED
    BY <1>4, <2>2, <2>4, <2>5 DEF ConnInv
<1> QED
  BY <1>0, <1>5, <1>6, OthersWriteDoes

LEMMA AddObserverKeeps ==
  ASSUME TypeInv, ConnInv, AddObserver
  PROVE  ConnInv' /\ \A u \in Values : Reported(u) => Reported(u)'
<1>0. PICK n : n = Len(conn.toServer)
  OBVIOUS
<1>1. /\ conn' \in Connection /\ conn'.puts = conn.puts /\ conn'.listens = TRUE
      /\ conn'.toClient = conn.toClient /\ conn'.owed = conn.owed
      /\ conn'.listening = conn.listening /\ conn'.up = conn.up /\ conn'.toAck = conn.toAck
      /\ cache' = cache /\ writes' = writes /\ server' = server /\ erased' = erased
  BY AddObserverDoes DEF SameAnswers
<1>2. Messages' = Messages /\ Held' = Held /\ Answered' = Answered
  BY <1>1 DEF Messages, Held, AckedIds, Answered, Answer
<1>3. LatestInv' /\ ServerInv' /\ FlowInv' /\ \A u \in Values : Reported(u) => Reported(u)'
  BY <1>1, <1>2 DEF ConnInv, LatestInv, ServerInv, Stale, FlowInv, Reported, Above, Data
<1>4. CASE ~conn.listens /\ conn.up
  <2>1. /\ conn'.unacked = conn.unacked + 1 /\ Longer(conn.toServer, conn'.toServer, 1)
        /\ conn'.toServer[n + 1] = [req |-> "listen"]
    BY <1>0, <1>4, AddObserverDoes
  <2>2. /\ \A i \in Requests : i \in Requests' /\ conn'.toServer[i] = conn.toServer[i]
        /\ \A i \in Requests' : i \in Requests \/ i = n + 1
        /\ n + 1 \in Requests'
    BY <1>0, <2>1, LongerIndices DEF Requests
  <2>3. /\ ~Asking /\ ~conn.listening /\ conn.unacked = 0 /\ conn.toAck = <<>> /\ conn.owed # 1
        /\ \A j \in Messages : Reply(j) /\ ~Answer(j)
    <3>1. ~Asking /\ ~conn.listening /\ conn.owed # 1 /\ conn.toAck = <<>>
      BY <1>4 DEF ConnInv, SessionInv, Asking
    <3>2. \A j \in Messages : Reply(j) /\ ~Answer(j)
      BY <3>1 DEF ConnInv, SessionInv, Reply, Answer
    <3> QED
      BY <3>1, <3>2 DEF ConnInv, SessionInv, Answered
  <2>4. /\ Listen(n + 1)' /\ ~Put(n + 1)'
        /\ \A i \in Requests : (Listen(i)' <=> Listen(i)) /\ (Put(i)' <=> Put(i)) /\ ~Listen(i)
    BY <2>1, <2>2, <2>3 DEF Listen, Put, Asking
  <2>5. Asking' /\ ~Answered'
    BY <1>1, <1>2, <2>2, <2>3, <2>4 DEF Asking, Answered
  <2>6. PutInv'
    BY <1>1, <1>2, <2>2, <2>4 DEF ConnInv, PutInv, Reply
  <2>7. SessionInv'
    BY <1>1, <1>2, <1>4, <2>1, <2>2, <2>3, <2>4, <2>5 DEF ConnInv, SessionInv, Reply, Data, Answer
  <2>8. ErasedInv'
    BY <1>1, <1>2, <2>5 DEF ConnInv, ErasedInv, NoneStale, StaleAt, Stale, Data, Reply, Answer
  <2> QED
    BY <1>3, <2>6, <2>7, <2>8 DEF ConnInv
<1>5. CASE ~(~conn.listens /\ conn.up)
  <2>1. conn'.unacked = conn.unacked /\ conn'.toServer = conn.toServer
    BY <1>5, AddObserverDoes
  <2>2. Requests' = Requests /\ Asking' = Asking
    BY <1>1, <2>1 DEF Requests, Asking, Listen
  <2>3. PutInv' /\ ErasedInv'
    BY <1>1, <1>2, <2>1, <2>2 DEF ConnInv, PutInv, Put, Reply, ErasedInv, NoneStale, StaleAt, CuredBefore, Cures,
          Stale, Data, Answer
  <2>4. SessionInv'
    BY <1>1, <1>2, <1>5, <2>1, <2>2 DEF ConnInv, SessionInv, Reply, Data, Answer, Listen
  <2> QED
    BY <1>3, <2>3, <2>4 DEF ConnInv
<1> QED
  BY <1>4, <1>5

LEMMA OnDataUpdateKeeps ==
  ASSUME TypeInv, ConnInv, OnDataUpdate
  PROVE  ConnInv' /\ \A u \in Values : Reported(u) => Reported(u)'
<1>1. /\ conn' \in Connection /\ Shrunk(conn.toClient, conn'.toClient)
      /\ conn'.puts = conn.puts /\ conn'.toAck = conn.toAck /\ conn'.unacked = conn.unacked
      /\ conn'.up = conn.up /\ conn'.listens = conn.listens /\ conn'.toServer = conn.toServer
      /\ conn'.owed = conn.owed /\ conn'.listening = conn.listening
      /\ observers' = observers /\ server' = server /\ erased' = erased
      /\ cache' = conn.toClient[1].value /\ cache' \in Values /\ writes' = writes
  BY OnDataUpdateDoes DEF SameRequests
<1>2. /\ \A i \in Messages' : i + 1 \in Messages /\ i + 1 # 1 /\ conn'.toClient[i] = conn.toClient[i + 1]
      /\ \A i \in Messages : i = 1 \/ (i - 1 \in Messages' /\ conn'.toClient[i - 1] = conn.toClient[i])
      /\ 1 \in Messages /\ Requests' = Requests /\ Messages \subseteq Nat \ {0} /\ Messages' \subseteq Nat \ {0}
  BY <1>1, PrimedTypes, ShrunkIndices DEF Requests, Messages
<1>3. Data(1) /\ ~Reply(1) /\ ~Answer(1)
  BY OnDataUpdateDoes DEF Data, Reply, Answer
<1>4. /\ \A i \in Messages' : /\ Data(i)' <=> Data(i + 1)
                              /\ Reply(i)' <=> Reply(i + 1)
                              /\ Answer(i)' <=> Answer(i + 1)
      /\ \A i \in Messages : i # 1 => /\ Data(i - 1)' <=> Data(i)
                                      /\ Reply(i - 1)' <=> Reply(i)
                                      /\ Answer(i - 1)' <=> Answer(i)
  BY <1>2 DEF Data, Reply, Answer
<1>5. Held' = Held /\ Asking' = Asking
  BY <1>1, <1>2 DEF Held, AckedIds, Asking, Listen
<1>6. Answered' <=> Answered
  BY <1>2, <1>3, <1>4 DEF Answered
<1>7. PutInv'
  <2>1. \A i, j \in Messages' : i + 1 = j + 1 => i = j
    BY <1>2
  <2> QED
    BY <1>1, <1>2, <1>3, <1>4, <1>5, <2>1 DEF ConnInv, PutInv, Put
<1>8. conn.listening /\ conn.listens
  <2>1. conn.listening
    BY <1>2, <1>3 DEF ConnInv, SessionInv
  <2> QED
    BY <2>1 DEF ConnInv, SessionInv
<1>9. SessionInv'
  <2>1. \A i, j \in Messages' : i + 1 = j + 1 => i = j
    BY <1>2
  <2>2. ASSUME NEW j \in Messages', Answer(j)', j > 1 PROVE Data(j - 1)'
    <3>1. j + 1 \in Messages /\ Answer(j + 1) /\ j + 1 > 1 /\ (j + 1) - 1 = j
      BY <1>2, <1>4, <2>2
    <3>2. Data(j) /\ j \in Messages /\ j # 1
      BY <1>2, <2>2, <3>1 DEF ConnInv, SessionInv, Messages
    <3> QED
      BY <1>4, <3>2
  <2>3. conn'.up
    BY <1>1, <1>8 DEF ConnInv, SessionInv
  <2> QED
    BY <1>1, <1>2, <1>3, <1>4, <1>5, <1>6, <1>8, <2>1, <2>2, <2>3 DEF ConnInv, SessionInv, Listen
<1>10. LatestInv'
  <2>1. PICK k \in Messages : /\ Data(k) /\ conn.toClient[k].value = server.value
                              /\ \A j \in Messages : j > k => ~Data(j)
    BY <1>2, <1>3, <1>8 DEF ConnInv, LatestInv
  <2>2. CASE k = 1
    <3>1. \A j \in Messages' : j + 1 > k
      BY <1>2, <2>2
    <3> QED
      BY <1>1, <1>2, <1>4, <2>1, <2>2, <3>1 DEF LatestInv
  <2>3. CASE k # 1
    <3>1. \A j \in Messages' : j > k - 1 => j + 1 > k
      BY <1>2
    <3>2. \A j \in Messages' : j > k - 1 => ~Data(j)'
      BY <1>2, <1>4, <2>1, <3>1
    <3>3. k - 1 \in Messages' /\ Data(k - 1)' /\ conn'.toClient[k - 1].value = server'.value
      BY <1>1, <1>2, <1>4, <2>1, <2>3
    <3> QED
      BY <3>2, <3>3 DEF LatestInv
  <2> QED
    BY <2>2, <2>3
<1>11. ServerInv'
  BY <1>1 DEF ConnInv, ServerInv, Stale
<1>12. FlowInv' /\ \A u \in Values : Reported(u) => Reported(u)'
  <2>1. cache' # Unknown
    BY <1>1, Bounds
  <2>2. \A j \in Messages' : 1 < j + 1
    BY <1>2
  <2>3. \A i, j \in Messages' : i < j => i + 1 < j + 1
    BY <1>2
  <2>4. FlowInv'
    <3>1. cache' <= server'.last
      BY <1>1, <1>2, <1>3 DEF ConnInv, FlowInv
    <3>2. ASSUME NEW k \in Messages', Data(k)'
          PROVE  Above(conn'.toClient[k].value, cache') /\ conn'.toClient[k].value <= server'.last
      BY <1>1, <1>2, <1>3, <1>4, <2>2, <3>2 DEF ConnInv, FlowInv
    <3>3. ASSUME NEW i \in Messages', NEW j \in Messages', i < j, Data(i)', Data(j)'
          PROVE  Above(conn'.toClient[j].value, conn'.toClient[i].value)
      BY <1>1, <1>2, <1>4, <2>3, <3>3 DEF ConnInv, FlowInv
    <3> QED
      BY <3>1, <3>2, <3>3 DEF FlowInv, Above
  <2> QED
    BY <1>1, <1>2, <1>3, <1>4, <2>1, <2>4 DEF Reported, Above
<1>13. ErasedInv'
  <2>1. \A j \in Messages', w \in Removals : /\ StaleAt(j, w)' <=> StaleAt(j + 1, w)
                                             /\ Cures(j, w)' <=> Cures(j + 1, w)
    BY <1>1, <1>2, <1>4 DEF StaleAt, Cures, Stale
  <2>2. ASSUME NEW w \in Removals PROVE Stale(cache, w)' <=> StaleAt(1, w)
    BY <1>1, <1>3 DEF StaleAt, Stale
  <2>3. ASSUME NEW w \in Removals, NEW m \in Nat PROVE NoneStale(m + 1, w) => NoneStale(m, w)'
    <3>1. \A j \in Messages' : m <= j => m + 1 <= j + 1
      BY <1>2
    <3> QED
      BY <1>2, <2>1, <3>1 DEF NoneStale
  <2>4. ASSUME NEW w \in Removals, NoneStale(1, w)
        PROVE  NoneStale(1, w)' /\ ~Stale(cache, w)'
    <3>1. NoneStale(1 + 1, w)
      BY <1>2, <2>4 DEF NoneStale
    <3>2. 1 <= 1 /\ 1 \in Nat
      OBVIOUS
    <3> QED
      BY <1>2, <2>2, <2>3, <2>4, <3>1, <3>2 DEF NoneStale
  <2>5. ASSUME NEW w \in Removals, NEW m \in Messages', CuredBefore(m + 1, w) PROVE CuredBefore(m, w)'
    <3>1. ASSUME NEW j \in Messages, StaleAt(j, w), j < m + 1
          PROVE  \E k \in Messages' : j <= k /\ k < m /\ Cures(k, w)'
      <4>1. PICK k \in Messages : j < k /\ k < m + 1 /\ Cures(k, w)
        BY <2>5, <3>1 DEF CuredBefore
      <4>2. k - 1 \in Messages' /\ j <= k - 1 /\ k - 1 < m /\ (k - 1) + 1 = k
        BY <1>2, <4>1
      <4> QED
        BY <2>1, <4>1, <4>2
    <3>2. Stale(cache, w)' => \E k \in Messages' : k < m /\ Cures(k, w)'
      <4>1. 1 < m + 1
        BY <1>2
      <4> QED
        BY <1>2, <2>2, <3>1, <4>1
    <3>3. ASSUME NEW j \in Messages', j < m, StaleAt(j, w)'
          PROVE  \E k \in Messages' : j < k /\ k < m /\ Cures(k, w)'
      <4>1. j + 1 \in Messages /\ StaleAt(j + 1, w) /\ j + 1 < m + 1
        BY <1>2, <2>1, <3>3
      <4>2. PICK k \in Messages' : j + 1 <= k /\ k < m /\ Cures(k, w)'
        BY <3>1, <4>1
      <4>3. j < k
        BY <1>2, <4>2
      <4> QED
        BY <4>2, <4>3
    <3> QED
      BY <3>2, <3>3 DEF CuredBefore
  <2>6. ASSUME NEW m \in Messages', NEW k \in Messages, m + 1 < k, Answer(k)
        PROVE  \E l \in Messages' : m < l /\ Answer(l)'
    <3>1. k - 1 \in Messages' /\ m < k - 1 /\ k # 1
      BY <1>2, <2>6
    <3> QED
      BY <1>4, <2>6, <3>1
  <2>7. ASSUME NEW w \in Removals
        PROVE  /\ w \notin writes' => ~Stale(cache, w)' /\ NoneStale(1, w)'
               /\ w \in Held' => NoneStale(1, w)' /\ ~Stale(cache, w)'
    BY <1>1, <1>5, <2>4 DEF ConnInv, ErasedInv
  <2>8. ASSUME NEW w \in Removals, NEW m \in Messages', Reply(m)', conn'.toClient[m].id = w
        PROVE  /\ NoneStale(m, w)'
               /\ Asking' \/ (\E k \in Messages' : m < k /\ Answer(k)') \/ CuredBefore(m, w)'
    <3>1. m + 1 \in Messages /\ Reply(m + 1) /\ conn.toClient[m + 1].id = w /\ m \in Nat
      BY <1>2, <1>4, <2>8
    <3> QED
      BY <1>5, <2>3, <2>5, <2>6, <3>1 DEF ConnInv, ErasedInv
  <2> QED
    BY <2>7, <2>8 DEF ErasedInv
<1> QED
  BY <1>7, <1>9, <1>10, <1>11, <1>12, <1>13 DEF ConnInv


(* A message that is no data is taken from the front. *)
LEMMA NoDataTaken ==
  ASSUME TypeInv, ConnInv, conn' \in Connection, Shrunk(conn.toClient, conn'.toClient), ~Data(1),
         SameRequests, cache' = cache
  PROVE  /\ \A i \in Messages' : i + 1 \in Messages /\ i + 1 # 1 /\ conn'.toClient[i] = conn.toClient[i + 1]
         /\ \A i \in Messages : i = 1 \/ (i - 1 \in Messages' /\ conn'.toClient[i - 1] = conn.toClient[i])
         /\ 1 \in Messages /\ Requests' = Requests /\ Messages \subseteq Nat \ {0} /\ Messages' \subseteq Nat \ {0}
         /\ \A i \in Messages' : /\ Data(i)' <=> Data(i + 1)
                                 /\ Reply(i)' <=> Reply(i + 1)
                                 /\ Answer(i)' <=> Answer(i + 1)
         /\ \A i \in Messages : i # 1 => /\ Data(i - 1)' <=> Data(i)
                                         /\ Reply(i - 1)' <=> Reply(i)
                                         /\ Answer(i - 1)' <=> Answer(i)
         /\ Asking' = Asking /\ \A i, j \in Messages' : i + 1 = j + 1 => i = j
         /\ \A j \in Messages' : Answer(j)' /\ j > 1 => Data(j - 1)'
         /\ ~(1 \in Messages' /\ Answer(1)')
         /\ LatestInv' /\ ServerInv' /\ FlowInv' /\ \A u \in Values : Reported(u) => Reported(u)'
         /\ \A w \in Removals : NoneStale(1, w) => NoneStale(1, w)'
         /\ \A w \in Removals, m \in Messages' : /\ NoneStale(m + 1, w) => NoneStale(m, w)'
                                                 /\ CuredBefore(m + 1, w) => CuredBefore(m, w)'
<1>1. /\ conn'.up = conn.up /\ conn'.listens = conn.listens /\ conn'.toServer = conn.toServer
      /\ conn'.owed = conn.owed /\ conn'.listening = conn.listening
      /\ observers' = observers /\ server' = server /\ erased' = erased /\ cache' = cache
  BY DEF SameRequests
<1>2. /\ \A i \in Messages' : i + 1 \in Messages /\ i + 1 # 1 /\ conn'.toClient[i] = conn.toClient[i + 1]
      /\ \A i \in Messages : i = 1 \/ (i - 1 \in Messages' /\ conn'.toClient[i - 1] = conn.toClient[i])
      /\ 1 \in Messages /\ Requests' = Requests /\ Messages \subseteq Nat \ {0} /\ Messages' \subseteq Nat \ {0}
  BY <1>1, PrimedTypes, ShrunkIndices DEF Requests, Messages
<1>3. /\ \A i \in Messages' : /\ Data(i)' <=> Data(i + 1)
                              /\ Reply(i)' <=> Reply(i + 1)
                              /\ Answer(i)' <=> Answer(i + 1)
      /\ \A i \in Messages : i # 1 => /\ Data(i - 1)' <=> Data(i)
                                      /\ Reply(i - 1)' <=> Reply(i)
                                      /\ Answer(i - 1)' <=> Answer(i)
  BY <1>2 DEF Data, Reply, Answer
<1>4. Asking' = Asking
  BY <1>1, <1>2 DEF Asking, Listen
<1>5. \A i, j \in Messages' : i + 1 = j + 1 => i = j
  BY <1>2
<1>6. ASSUME NEW j \in Messages', Answer(j)'
      PROVE  j > 1 /\ Data(j - 1)'
  <2>1. j + 1 \in Messages /\ Answer(j + 1) /\ j + 1 > 1 /\ (j + 1) - 1 = j
    BY <1>2, <1>3, <1>6
  <2>2. Data(j)
    BY <1>2, <1>6, <2>1 DEF ConnInv, SessionInv
  <2>3. j \in Messages /\ j # 1 /\ j > 1
    BY <1>2, <1>6, <2>1, <2>2 DEF Messages
  <2> QED
    BY <1>3, <2>2, <2>3
<1>7. LatestInv'
  <2>1. CASE conn.listening /\ cache = server.value /\ \A j \in Messages : ~Data(j)
    BY <1>1, <1>2, <1>3, <2>1 DEF LatestInv
  <2>2. ASSUME NEW k \in Messages, Data(k), conn.toClient[k].value = server.value,
               \A j \in Messages : j > k => ~Data(j)
        PROVE  LatestInv'
    <3>1. k # 1
      BY <2>2
    <3>2. k - 1 \in Messages' /\ Data(k - 1)' /\ conn'.toClient[k - 1].value = server'.value
      BY <1>1, <1>2, <1>3, <2>2, <3>1
    <3>3. ASSUME NEW j \in Messages', j > k - 1 PROVE j + 1 > k
      <4>1. j \in Nat /\ k \in Nat
        BY <1>2
      <4> QED
        BY <3>3, <4>1
    <3>4. \A j \in Messages' : j > k - 1 => ~Data(j)'
      BY <1>2, <1>3, <2>2, <3>3
    <3> QED
      BY <3>2, <3>4 DEF LatestInv
  <2>3. CASE ~conn.listening
    BY <1>1, <2>3 DEF LatestInv
  <2> QED
    BY <2>1, <2>2, <2>3 DEF ConnInv, LatestInv
<1>8. ServerInv'
  BY <1>1 DEF ConnInv, ServerInv, Stale
<1>9. FlowInv' /\ \A u \in Values : Reported(u) => Reported(u)'
  <2>1. \A i, j \in Messages' : i < j => i + 1 < j + 1
    BY <1>2
  <2> QED
    BY <1>1, <1>2, <1>3, <2>1 DEF ConnInv, FlowInv, Reported, Above
<1>10. \A j \in Messages', w \in Removals : /\ StaleAt(j, w)' <=> StaleAt(j + 1, w)
                                            /\ Cures(j, w)' <=> Cures(j + 1, w)
  BY <1>1, <1>2, <1>3 DEF StaleAt, Cures, Stale
<1>11. ASSUME NEW w \in Removals PROVE /\ Stale(cache, w)' <=> Stale(cache, w)
                                       /\ ~StaleAt(1, w) /\ ~Cures(1, w)
  BY <1>1 DEF StaleAt, Stale, Cures
<1>12. ASSUME NEW w \in Removals, NEW m \in Messages', NoneStale(m + 1, w) PROVE NoneStale(m, w)'
  <2>1. \A j \in Messages' : m <= j => m + 1 <= j + 1
    BY <1>2
  <2> QED
    BY <1>2, <1>10, <1>12, <2>1 DEF NoneStale
<1>13. ASSUME NEW w \in Removals, NoneStale(1, w) PROVE NoneStale(1, w)'
  <2>1. \A j \in Messages' : 1 <= j + 1
    BY <1>2
  <2> QED
    BY <1>2, <1>10, <1>13, <2>1 DEF NoneStale
<1>14. ASSUME NEW w \in Removals, NEW m \in Messages', CuredBefore(m + 1, w) PROVE CuredBefore(m, w)'
  <2>1. ASSUME NEW k \in Messages, Cures(k, w), k < m + 1
        PROVE  k - 1 \in Messages' /\ k - 1 < m /\ Cures(k - 1, w)' /\ \A j \in Messages' : j + 1 < k => j < k - 1
    <3>1. k # 1 /\ k \in Nat /\ m \in Nat
      BY <1>2, <1>11, <2>1
    <3>2. k - 1 \in Messages' /\ k - 1 < m /\ (k - 1) + 1 = k
      BY <1>2, <2>1, <3>1
    <3>3. \A j \in Messages' : j + 1 < k => j < k - 1
      BY <1>2, <3>1
    <3> QED
      BY <1>10, <2>1, <3>2, <3>3
  <2>2. Stale(cache, w)' => \E k \in Messages' : k < m /\ Cures(k, w)'
    BY <1>11, <1>14, <2>1 DEF CuredBefore
  <2>3. ASSUME NEW j \in Messages', j < m, StaleAt(j, w)'
        PROVE  \E k \in Messages' : j < k /\ k < m /\ Cures(k, w)'
    <3>1. j + 1 \in Messages /\ StaleAt(j + 1, w) /\ j + 1 < m + 1
      BY <1>2, <1>10, <2>3
    <3>2. PICK k \in Messages : j + 1 < k /\ k < m + 1 /\ Cures(k, w)
      BY <1>14, <3>1 DEF CuredBefore
    <3> QED
      BY <2>1, <2>3, <3>2
  <2> QED
    BY <2>2, <2>3 DEF CuredBefore
<1>15. ~(1 \in Messages' /\ Answer(1)')
  <2>1. ~(1 > 1)
    OBVIOUS
  <2> QED
    BY <1>6, <2>1
<1> QED
  BY <1>2, <1>3, <1>4, <1>5, <1>6, <1>7, <1>8, <1>9, <1>12, <1>13, <1>14, <1>15

LEMMA AckedOne ==
  ASSUME NEW a
  PROVE  AckedIds(<<a>>, Len(<<a>>)) = {a.id}
<1>1. Len(<<a>>) = 1 /\ <<a>>[1] = a /\ 1..1 = {1}
  OBVIOUS
<1> QED
  BY <1>1 DEF AckedIds

LEMMA AckedMore ==
  ASSUME NEW acks \in Seq(Ack), NEW a \in Ack
  PROVE  AckedIds(Append(acks, a), Len(Append(acks, a))) = AckedIds(acks, Len(acks)) \union {a.id}
<1> DEFINE t == Append(acks, a)
           n == Len(acks)
<1>1. n \in Nat /\ Len(t) = n + 1 /\ t[n + 1] = a /\ \A i \in 1..n : t[i] = acks[i]
  OBVIOUS
<1>2. 1..(n + 1) = 1..n \union {n + 1}
  BY <1>1
<1> HIDE DEF t, n
<1>3. {t[i].id : i \in 1..(n + 1)} = {t[i].id : i \in 1..n} \union {t[n + 1].id}
  BY <1>2
<1>4. {t[i].id : i \in 1..n} = {acks[i].id : i \in 1..n}
  BY <1>1
<1> QED
  BY <1>1, <1>3, <1>4 DEF AckedIds, t, n

LEMMA OnListenResponseKeeps ==
  ASSUME TypeInv, ConnInv, OnListenResponse
  PROVE  /\ ConnInv' /\ \A u \in Values : Reported(u) => Reported(u)'
         /\ conn.unacked = 1
<1>1. /\ conn' \in Connection /\ SameRequests /\ Shrunk(conn.toClient, conn'.toClient)
      /\ conn'.puts = conn.puts /\ Len(conn.toClient) >= 1 /\ cache' = cache
      /\ conn.toClient[1].msg = "listening"
  BY OnListenResponseDoes
<1>2. 1 \in Messages /\ Answer(1) /\ ~Data(1) /\ ~Reply(1)
  BY <1>1, ConnTypes DEF Messages, Answer, Data, Reply
<1>3. conn.unacked = 1 /\ ~Asking /\ conn.listening
  BY <1>2 DEF ConnInv, SessionInv, Answered
<1>4. /\ conn'.unacked = 0 /\ conn'.toAck = <<>> /\ writes' = writes \ Held
  BY <1>3, OnListenResponseDoes DEF AckPuts, Held
<1>5. /\ conn'.up = conn.up /\ conn'.listens = conn.listens /\ conn'.toServer = conn.toServer
      /\ conn'.owed = conn.owed /\ conn'.listening = conn.listening
      /\ observers' = observers /\ server' = server /\ erased' = erased
  BY <1>1 DEF SameRequests
<1>6. /\ \A i \in Messages' : i + 1 \in Messages /\ i + 1 # 1 /\ conn'.toClient[i] = conn.toClient[i + 1]
      /\ \A i \in Messages : i = 1 \/ (i - 1 \in Messages' /\ conn'.toClient[i - 1] = conn.toClient[i])
      /\ Requests' = Requests /\ Messages' \subseteq Nat \ {0}
      /\ \A i \in Messages' : (Reply(i)' <=> Reply(i + 1)) /\ (Answer(i)' <=> Answer(i + 1))
      /\ \A i \in Messages : i # 1 => (Reply(i - 1)' <=> Reply(i)) /\ (Answer(i - 1)' <=> Answer(i))
      /\ Asking' = Asking /\ \A i, j \in Messages' : i + 1 = j + 1 => i = j
      /\ \A j \in Messages' : Answer(j)' /\ j > 1 => Data(j - 1)'
  BY <1>1, <1>2, NoDataTaken
<1>7. LatestInv' /\ ServerInv' /\ FlowInv' /\ \A u \in Values : Reported(u) => Reported(u)'
  BY <1>1, <1>2, NoDataTaken
<1>8. Held' = {}
  BY <1>4 DEF Held, AckedIds
<1>9. \A j \in Messages' : ~Answer(j)'
  BY <1>2, <1>6 DEF ConnInv, SessionInv
<1>10. PutInv'
  <2>1. writes' = conn'.puts \union Held' /\ conn'.puts \intersect Held' = {}
    BY <1>1, <1>4, <1>8 DEF ConnInv, PutInv
  <2>2. ASSUME NEW v \in conn'.puts, conn.up
        PROVE  \/ \E i \in Requests' : Put(i)' /\ conn'.toServer[i].id = v
               \/ \E j \in Messages' : Reply(j)' /\ conn'.toClient[j].id = v
    <3>1. ASSUME NEW i \in Requests, Put(i), conn.toServer[i].id = v
          PROVE  i \in Requests' /\ Put(i)' /\ conn'.toServer[i].id = v
      BY <1>5, <1>6, <3>1 DEF Put
    <3>2. ASSUME NEW j \in Messages, Reply(j), conn.toClient[j].id = v
          PROVE  j - 1 \in Messages' /\ Reply(j - 1)' /\ conn'.toClient[j - 1].id = v
      BY <1>2, <1>6, <3>2
    <3>3. \/ \E i \in Requests : Put(i) /\ conn.toServer[i].id = v
          \/ \E j \in Messages : Reply(j) /\ conn.toClient[j].id = v
      BY <1>1, <2>2 DEF ConnInv, PutInv
    <3> QED
      BY <3>1, <3>2, <3>3
  <2> QED
    BY <1>1, <1>5, <1>6, <2>1, <2>2 DEF ConnInv, PutInv, Put
<1>11. SessionInv'
  BY <1>1, <1>2, <1>3, <1>4, <1>5, <1>6, <1>9 DEF ConnInv, SessionInv, Listen, Answered
<1>12. ErasedInv'
  <2>1. ASSUME NEW w \in Removals, w \notin writes' PROVE ~Stale(cache, w)' /\ NoneStale(1, w)'
    <3>1. w \notin writes \/ w \in Held
      BY <1>4, <2>1
    <3>2. ~Stale(cache, w) /\ NoneStale(1, w)
      BY <1>2, <3>1 DEF ConnInv, ErasedInv
    <3>3. NoneStale(1, w)'
      BY <1>1, <1>2, <3>2, NoDataTaken
    <3> QED
      BY <1>1, <1>5, <3>2, <3>3 DEF Stale
  <2>2. ASSUME NEW w \in Removals, NEW m \in Messages', Reply(m)', conn'.toClient[m].id = w
        PROVE  NoneStale(m, w)' /\ CuredBefore(m, w)'
    <3>1. m + 1 \in Messages /\ Reply(m + 1) /\ conn.toClient[m + 1].id = w
      BY <1>6, <2>2
    <3>2. ~ \E k \in Messages : m + 1 < k /\ Answer(k)
      <4>1. ~(m + 1 < 1)
        BY <1>6
      <4> QED
        BY <1>2, <4>1 DEF ConnInv, SessionInv
    <3>3. NoneStale(m + 1, w) /\ CuredBefore(m + 1, w)
      BY <1>3, <3>1, <3>2 DEF ConnInv, ErasedInv
    <3> QED
      BY <1>1, <1>2, <3>3, NoDataTaken
  <2> QED
    BY <1>8, <2>1, <2>2 DEF ErasedInv
<1> QED
  BY <1>3, <1>7, <1>10, <1>11, <1>12 DEF ConnInv

LEMMA OnPutResponseKeeps ==
  ASSUME TypeInv, ConnInv, OnPutResponse
  PROVE  ConnInv' /\ \A u \in Values : Reported(u) => Reported(u)'
<1>0. PICK w : w = conn.toClient[1].id
  OBVIOUS
<1> DEFINE a == [id |-> w, ok |-> conn.toClient[1].ok]
<1>1. /\ conn' \in Connection /\ SameRequests /\ Shrunk(conn.toClient, conn'.toClient)
      /\ conn'.puts = conn.puts \ {w} /\ Len(conn.toClient) >= 1 /\ cache' = cache
      /\ conn.toClient[1].msg = "put" /\ conn'.unacked = conn.unacked /\ w \in Removals /\ a \in Ack
      /\ \/ conn.unacked = 0 /\ AckPuts(<<a>>) /\ conn'.toAck = conn.toAck
         \/ conn.unacked > 0 /\ writes' = writes /\ conn'.toAck = Append(conn.toAck, a)
  BY <1>0, OnPutResponseDoes
<1>2. 1 \in Messages /\ Reply(1) /\ ~Data(1) /\ ~Answer(1)
  BY <1>1, ConnTypes DEF Messages, Answer, Data, Reply
<1>3. conn.up /\ w \in conn.puts /\ w \in writes /\ w \notin Held
  <2>1. conn.toClient # <<>>
    BY <1>1
  <2> QED
    BY <1>0, <1>2, <2>1, ConnTypes DEF ConnInv, SessionInv, PutInv
<1>4. \/ /\ conn.unacked = 0 /\ ~Asking /\ ~Answered /\ writes' = writes \ {w} /\ Held = {} /\ Held' = {}
         /\ conn'.toAck = <<>>
      \/ /\ conn.unacked = 1 /\ conn.listens /\ writes' = writes /\ Held' = Held \union {w}
  <2>1. CASE conn.unacked = 0 /\ AckPuts(<<a>>) /\ conn'.toAck = conn.toAck
    <3>1. writes' = writes \ {w}
      BY <2>1, AckedOne DEF AckPuts
    <3>2. ~Asking /\ ~Answered /\ conn.toAck = <<>>
      BY <1>3, <2>1 DEF ConnInv, SessionInv
    <3> QED
      BY <2>1, <3>1, <3>2 DEF Held, AckedIds
  <2>2. CASE conn.unacked > 0 /\ writes' = writes /\ conn'.toAck = Append(conn.toAck, a)
    <3>1. Asking \/ Answered
      BY <2>2 DEF ConnInv, SessionInv
    <3>2. conn.unacked = 1
      BY <3>1 DEF ConnInv, SessionInv
    <3>3. Answered => conn.listening
      BY DEF Answered, ConnInv, SessionInv, Reply, Answer
    <3>4. conn.listens
      BY <3>1, <3>3 DEF ConnInv, SessionInv
    <3>5. Held' = Held \union {w}
      BY <1>1, <2>2, AckedMore, ConnTypes DEF Held
    <3> QED
      BY <2>2, <3>2, <3>4, <3>5
  <2> QED
    BY <1>1, <2>1, <2>2
<1>5. /\ conn'.up = conn.up /\ conn'.listens = conn.listens /\ conn'.toServer = conn.toServer
      /\ conn'.owed = conn.owed /\ conn'.listening = conn.listening
      /\ observers' = observers /\ server' = server /\ erased' = erased
  BY <1>1 DEF SameRequests
<1>6. /\ \A i \in Messages' : i + 1 \in Messages /\ i + 1 # 1 /\ conn'.toClient[i] = conn.toClient[i + 1]
      /\ \A i \in Messages : i = 1 \/ (i - 1 \in Messages' /\ conn'.toClient[i - 1] = conn.toClient[i])
      /\ Requests' = Requests /\ Messages' \subseteq Nat \ {0}
      /\ \A i \in Messages' : (Reply(i)' <=> Reply(i + 1)) /\ (Answer(i)' <=> Answer(i + 1))
      /\ \A i \in Messages : i # 1 => (Reply(i - 1)' <=> Reply(i)) /\ (Answer(i - 1)' <=> Answer(i))
      /\ Asking' = Asking /\ \A i, j \in Messages' : i + 1 = j + 1 => i = j
      /\ \A j \in Messages' : Answer(j)' /\ j > 1 => Data(j - 1)'
      /\ ~(1 \in Messages' /\ Answer(1)')
  BY <1>1, <1>2, NoDataTaken
<1>7. LatestInv' /\ ServerInv' /\ FlowInv' /\ \A u \in Values : Reported(u) => Reported(u)'
  BY <1>1, <1>2, NoDataTaken
<1>8. Answered' <=> Answered
  BY <1>2, <1>6 DEF Answered
<1>9. PutInv'
  <2>1. \A j \in Messages' : Reply(j)' => conn'.toClient[j].id # w /\ conn'.toClient[j].id \in conn.puts
    BY <1>0, <1>2, <1>6 DEF ConnInv, PutInv
  <2>2. \A i \in Requests : Put(i) => conn.toServer[i].id # w
    BY <1>0, <1>2 DEF ConnInv, PutInv
  <2>3. writes' = conn'.puts \union Held' /\ conn'.puts \intersect Held' = {}
    BY <1>1, <1>3, <1>4 DEF ConnInv, PutInv
  <2>4. ASSUME NEW v \in conn'.puts, conn.up
        PROVE  \/ \E i \in Requests' : Put(i)' /\ conn'.toServer[i].id = v
               \/ \E j \in Messages' : Reply(j)' /\ conn'.toClient[j].id = v
    <3>1. v \in conn.puts /\ v # w
      BY <1>1, <2>4
    <3>2. ASSUME NEW i \in Requests, Put(i), conn.toServer[i].id = v
          PROVE  i \in Requests' /\ Put(i)' /\ conn'.toServer[i].id = v
      BY <1>5, <1>6, <3>2 DEF Put
    <3>3. ASSUME NEW j \in Messages, Reply(j), conn.toClient[j].id = v
          PROVE  j - 1 \in Messages' /\ Reply(j - 1)' /\ conn'.toClient[j - 1].id = v
      BY <1>0, <1>6, <3>1, <3>3
    <3>4. \/ \E i \in Requests : Put(i) /\ conn.toServer[i].id = v
          \/ \E j \in Messages : Reply(j) /\ conn.toClient[j].id = v
      BY <2>4, <3>1 DEF ConnInv, PutInv
    <3> QED
      BY <3>2, <3>3, <3>4
  <2> QED
    BY <1>1, <1>5, <1>6, <2>1, <2>2, <2>3, <2>4 DEF ConnInv, PutInv, Put
<1>10. SessionInv'
  BY <1>1, <1>2, <1>4, <1>5, <1>6, <1>8 DEF ConnInv, SessionInv, Listen
<1>11. ErasedInv'
  <2>1. NoneStale(1, w)
    BY <1>0, <1>1, <1>2 DEF ConnInv, ErasedInv
  <2>2. ASSUME NEW v \in Removals, v \notin writes' PROVE ~Stale(cache, v)' /\ NoneStale(1, v)'
    <3>1. CASE v # w
      <4>1. ~Stale(cache, v) /\ NoneStale(1, v)
        BY <1>4, <2>2, <3>1 DEF ConnInv, ErasedInv
      <4>2. NoneStale(1, v)'
        BY <1>1, <1>2, <4>1, NoDataTaken
      <4> QED
        BY <1>1, <1>5, <4>1, <4>2 DEF Stale
    <3>2. CASE v = w
      <4>1. ~Asking /\ ~Answered
        BY <1>3, <1>4, <2>2, <3>2
      <4>2. CuredBefore(1, w)
        BY <1>0, <1>1, <1>2, <4>1 DEF ConnInv, ErasedInv, Answered
      <4>3. \A k \in Messages : ~(k < 1)
        BY DEF Messages
      <4>4. ~Stale(cache, w)
        BY <4>2, <4>3 DEF CuredBefore
      <4>5. NoneStale(1, w)'
        BY <1>1, <1>2, <2>1, NoDataTaken
      <4> QED
        BY <1>1, <1>5, <3>2, <4>4, <4>5 DEF Stale
    <3> QED
      BY <3>1, <3>2
  <2>3. ASSUME NEW v \in Removals, v \in Held' PROVE NoneStale(1, v)'
    <3>1. NoneStale(1, v)
      BY <1>4, <2>1, <2>3 DEF ConnInv, ErasedInv
    <3> QED
      BY <1>1, <1>2, <3>1, NoDataTaken
  <2>4. ASSUME NEW v \in Removals, NEW m \in Messages', Reply(m)', conn'.toClient[m].id = v
        PROVE  /\ NoneStale(m, v)'
               /\ Asking' \/ (\E k \in Messages' : m < k /\ Answer(k)') \/ CuredBefore(m, v)'
    <3>1. m + 1 \in Messages /\ Reply(m + 1) /\ conn.toClient[m + 1].id = v
      BY <1>6, <2>4
    <3>2. ASSUME NEW k \in Messages, m + 1 < k, Answer(k)
          PROVE  \E l \in Messages' : m < l /\ Answer(l)'
      <4>1. k - 1 \in Messages' /\ m < k - 1 /\ k # 1
        BY <1>2, <1>6, <3>2 DEF Messages
      <4> QED
        BY <1>6, <3>2, <4>1
    <3>3. NoneStale(m + 1, v) => NoneStale(m, v)'
      BY <1>1, <1>2, NoDataTaken
    <3>4. CuredBefore(m + 1, v) => CuredBefore(m, v)'
      BY <1>1, <1>2, NoDataTaken
    <3> QED
      BY <1>6, <3>1, <3>2, <3>3, <3>4 DEF ConnInv, ErasedInv
  <2> QED
    BY <1>6, <2>2, <2>3, <2>4 DEF ErasedInv
<1> QED
  BY <1>7, <1>9, <1>10, <1>11 DEF ConnInv


(* A removal that has not reached the client is new to it. *)
Removes(i) == dbQueue[i].op = "remove"
FreshInv ==
  /\ \A i \in 1..Len(dbQueue) : Removes(i) =>
        /\ dbQueue[i].id <= removals /\ dbQueue[i].id \notin writes /\ erased[dbQueue[i].id] = Unknown
  /\ \A i, j \in 1..Len(dbQueue) : Removes(i) /\ Removes(j) /\ dbQueue[i].id = dbQueue[j].id => i = j
  /\ \A w \in Removals : w > removals => w \notin writes /\ erased[w] = Unknown

LEMMA RemoveValueKeeps ==
  ASSUME TypeInv, ConnInv, FreshInv, RemoveValue
  PROVE  ConnInv' /\ \A u \in Values : Reported(u) => Reported(u)'
<1>0. PICK n, w : n = Len(conn.toServer) /\ w = dbQueue[1].id
  OBVIOUS
<1>1. /\ w \in Removals /\ dbQueue[1].op = "remove" /\ Len(dbQueue) >= 1
      /\ conn' \in Connection /\ conn'.puts = conn.puts \union {w}
      /\ conn'.listens = conn.listens /\ conn'.unacked = conn.unacked
      /\ conn'.toClient = conn.toClient /\ conn'.owed = conn.owed
      /\ conn'.listening = conn.listening /\ conn'.up = conn.up /\ conn'.toAck = conn.toAck
      /\ writes' = writes \union {w}
      /\ cache' = cache /\ observers' = observers /\ server' = server /\ erased' = erased
      /\ IF conn.up THEN /\ Longer(conn.toServer, conn'.toServer, 1)
                         /\ conn'.toServer[n + 1] = [req |-> "put", id |-> w]
         ELSE conn'.toServer = conn.toServer
  BY <1>0, RemoveValueDoes DEF SameAnswers
<1>2. w \notin writes /\ w \notin conn.puts /\ w \notin Held
  <2>1. 1 \in 1..Len(dbQueue)
    BY <1>1 DEF TypeInv
  <2> QED
    BY <1>0, <1>1, <2>1 DEF FreshInv, Removes, ConnInv, PutInv
<1>3. Messages' = Messages /\ Held' = Held /\ Answered' = Answered
  BY <1>1 DEF Messages, Held, AckedIds, Answered, Answer
<1>4. LatestInv' /\ ServerInv' /\ FlowInv' /\ \A u \in Values : Reported(u) => Reported(u)'
  BY <1>1, <1>3 DEF ConnInv, LatestInv, ServerInv, Stale, FlowInv, Reported, Above, Data
<1>5. /\ \A i \in Requests : /\ i \in Requests' /\ conn'.toServer[i] = conn.toServer[i]
                             /\ Put(i)' <=> Put(i)
                             /\ Listen(i)' <=> Listen(i)
      /\ \A i \in Requests' : i \in Requests \/ (conn.up /\ i = n + 1)
      /\ conn.up => /\ n + 1 \in Requests' /\ n + 1 \notin Requests
                    /\ Put(n + 1)' /\ ~Listen(n + 1)' /\ conn'.toServer[n + 1].id = w
  <2>1. CASE conn.up
    <3>1. /\ \A i \in Requests : i \in Requests' /\ conn'.toServer[i] = conn.toServer[i]
          /\ \A i \in Requests' : i \in Requests \/ i = n + 1
          /\ n + 1 \in Requests' /\ n \in Nat
      BY <1>0, <1>1, <2>1, LongerIndices DEF Requests
    <3>2. n + 1 \notin Requests
      BY <1>0, <3>1 DEF Requests
    <3> QED
      BY <1>1, <2>1, <3>1, <3>2 DEF Put, Listen
  <2>2. CASE ~conn.up
    BY <1>1, <2>2 DEF Requests, Put, Listen
  <2> QED
    BY <2>1, <2>2
<1>6. Asking' <=> Asking
  BY <1>1, <1>5 DEF Asking
<1>7. PutInv'
  <2>1. writes' = conn'.puts \union Held' /\ conn'.puts \intersect Held' = {}
    BY <1>1, <1>2, <1>3 DEF ConnInv, PutInv
  <2>2. ASSUME NEW v \in conn'.puts, conn.up
        PROVE  \/ \E i \in Requests' : Put(i)' /\ conn'.toServer[i].id = v
               \/ \E j \in Messages' : Reply(j)' /\ conn'.toClient[j].id = v
    BY <1>1, <1>3, <1>5, <2>2 DEF ConnInv, PutInv, Reply
  <2>3. \A i \in Requests : Put(i) => conn.toServer[i].id # w
    BY <1>2 DEF ConnInv, PutInv
  <2>4. \A j \in Messages : Reply(j) => conn.toClient[j].id # w
    BY <1>2 DEF ConnInv, PutInv
  <2> QED
    BY <1>1, <1>3, <1>5, <2>1, <2>2, <2>3, <2>4 DEF ConnInv, PutInv, Reply
<1>8. SessionInv'
  <2>1. ~conn.up => conn'.toServer = <<>>
    BY <1>1 DEF ConnInv, SessionInv
  <2> QED
    BY <1>1, <1>3, <1>5, <1>6, <2>1 DEF ConnInv, SessionInv, Reply, Data, Answer
<1>9. ErasedInv'
  BY <1>1, <1>3, <1>6 DEF ConnInv, ErasedInv, NoneStale, StaleAt, CuredBefore, Cures, Stale, Data, Answer, Reply
<1> QED
  BY <1>4, <1>7, <1>8, <1>9 DEF ConnInv

LEMMA TakesPutKeeps ==
  ASSUME TypeInv, ConnInv, ServerTakesPut
  PROVE  ConnInv' /\ \A u \in Values : Reported(u) => Reported(u)'
<1>0. PICK w, n : w = conn.toServer[1].id /\ n = Len(conn.toClient)
  OBVIOUS
<1>1. /\ conn' \in Connection /\ conn'.up = conn.up /\ conn'.listens = conn.listens /\ conn'.puts = conn.puts
      /\ conn'.toAck = conn.toAck /\ conn'.unacked = conn.unacked
      /\ conn'.owed = conn.owed /\ conn'.listening = conn.listening
      /\ Shrunk(conn.toServer, conn'.toServer) /\ conn.toServer[1].req = "put" /\ Len(conn.toServer) >= 1
      /\ w \in Removals
      /\ cache' = cache /\ writes' = writes /\ observers' = observers
  BY <1>0, TakesPutDoes DEF Unmoved, SameSession
(* The answer is the message at k; data, if any, right before it. *)
<1>2. \E k : /\ k \in Messages' /\ Reply(k)' /\ ~Data(k)' /\ ~Answer(k)' /\ conn'.toClient[k].id = w
             /\ \A i \in Messages : i \in Messages' /\ i < k /\ conn'.toClient[i] = conn.toClient[i]
             /\ \A i \in Messages' : \/ i \in Messages
                                     \/ i = k
                                     \/ /\ i = n + 1 /\ i < k /\ conn.listening
                                        /\ Data(i)' /\ ~Reply(i)' /\ ~Answer(i)'
                                        /\ conn'.toClient[i].value = Removed
             /\ \/ /\ conn.listening /\ n + 1 \in Messages' /\ n + 1 < k /\ k \in Int
                   /\ Data(n + 1)' /\ conn'.toClient[n + 1].value = Removed
                   /\ server' = [server EXCEPT !.value = Removed]
                   /\ erased' = [erased EXCEPT ![w] = server.last]
                \/ /\ ~conn.listening
                   /\ server' = [server EXCEPT !.value = Removed]
                   /\ erased' = [erased EXCEPT ![w] = server.last]
                \/ /\ \A i \in Messages' : i \in Messages \/ i = k
                   /\ server' = server /\ erased' = erased
  <2>1. ASSUME Longer(conn.toClient, conn'.toClient, 2), conn.listening,
               conn'.toClient[n + 1] = [msg |-> "data", value |-> Removed],
               NEW ok, conn'.toClient[n + 2] = [msg |-> "put", id |-> w, ok |-> ok]
        PROVE  /\ n + 2 \in Messages' /\ Reply(n + 2)' /\ ~Data(n + 2)' /\ ~Answer(n + 2)' /\ conn'.toClient[n + 2].id = w
               /\ \A i \in Messages : i \in Messages' /\ i < n + 2 /\ conn'.toClient[i] = conn.toClient[i]
               /\ \A i \in Messages' : i \in Messages \/ i = n + 2 \/ i = n + 1
               /\ n + 1 \in Messages' /\ n + 1 < n + 2 /\ Data(n + 1)' /\ ~Reply(n + 1)' /\ ~Answer(n + 1)'
               /\ conn'.toClient[n + 1].value = Removed /\ n + 2 \in Int
    <3>1. /\ \A i \in Messages : i \in Messages' /\ conn'.toClient[i] = conn.toClient[i] /\ i < n + 1 /\ i < n + 2
          /\ \A i \in Messages' : i \in Messages \/ i = n + 1 \/ i = n + 2
          /\ n + 1 \in Messages' /\ n + 2 \in Messages' /\ n \in Nat
      BY <1>0, <2>1, LongerIndices DEF Messages
    <3> QED
      BY <2>1, <3>1 DEF Data, Reply, Answer
  <2>2. ASSUME Longer(conn.toClient, conn'.toClient, 1),
               NEW ok, conn'.toClient[n + 1] = [msg |-> "put", id |-> w, ok |-> ok]
        PROVE  /\ n + 1 \in Messages' /\ Reply(n + 1)' /\ ~Data(n + 1)' /\ ~Answer(n + 1)' /\ conn'.toClient[n + 1].id = w
               /\ \A i \in Messages : i \in Messages' /\ i < n + 1 /\ conn'.toClient[i] = conn.toClient[i]
               /\ \A i \in Messages' : i \in Messages \/ i = n + 1
    <3>1. /\ \A i \in Messages : i \in Messages' /\ conn'.toClient[i] = conn.toClient[i] /\ i < n + 1
          /\ \A i \in Messages' : i \in Messages \/ i = n + 1
          /\ n + 1 \in Messages' /\ n \in Nat
      BY <1>0, <2>2, LongerIndices DEF Messages
    <3> QED
      BY <2>2, <3>1 DEF Data, Reply, Answer
  <2>3. \/ /\ Longer(conn.toClient, conn'.toClient, 2) /\ conn.listening
           /\ conn'.toClient[n + 1] = [msg |-> "data", value |-> Removed]
           /\ conn'.toClient[n + 2] = [msg |-> "put", id |-> w, ok |-> TRUE]
           /\ server' = [server EXCEPT !.value = Removed]
           /\ erased' = [erased EXCEPT ![w] = server.last]
        \/ /\ Longer(conn.toClient, conn'.toClient, 1) /\ ~conn.listening
           /\ conn'.toClient[n + 1] = [msg |-> "put", id |-> w, ok |-> TRUE]
           /\ server' = [server EXCEPT !.value = Removed]
           /\ erased' = [erased EXCEPT ![w] = server.last]
        \/ /\ Longer(conn.toClient, conn'.toClient, 1)
           /\ conn'.toClient[n + 1] = [msg |-> "put", id |-> w, ok |-> FALSE]
           /\ server' = server /\ erased' = erased
    BY <1>0, TakesPutDoes
  <2> QED
    BY <2>1, <2>2, <2>3
<1>3. PICK k : /\ k \in Messages' /\ Reply(k)' /\ ~Data(k)' /\ ~Answer(k)' /\ conn'.toClient[k].id = w
               /\ \A i \in Messages : i \in Messages' /\ i < k /\ conn'.toClient[i] = conn.toClient[i]
               /\ \A i \in Messages' : \/ i \in Messages
                                       \/ i = k
                                       \/ /\ i = n + 1 /\ i < k /\ conn.listening
                                          /\ Data(i)' /\ ~Reply(i)' /\ ~Answer(i)'
                                          /\ conn'.toClient[i].value = Removed
               /\ \/ /\ conn.listening /\ n + 1 \in Messages' /\ n + 1 < k /\ k \in Int
                     /\ Data(n + 1)' /\ conn'.toClient[n + 1].value = Removed
                     /\ server' = [server EXCEPT !.value = Removed]
                     /\ erased' = [erased EXCEPT ![w] = server.last]
                  \/ /\ ~conn.listening
                     /\ server' = [server EXCEPT !.value = Removed]
                     /\ erased' = [erased EXCEPT ![w] = server.last]
                  \/ /\ \A i \in Messages' : i \in Messages \/ i = k
                     /\ server' = server /\ erased' = erased
  BY <1>2, Zenon
<1>4. /\ \A i \in Messages : /\ Data(i)' <=> Data(i)
                             /\ Reply(i)' <=> Reply(i)
                             /\ Answer(i)' <=> Answer(i)
      /\ k \notin Messages /\ Messages' \subseteq Int /\ Messages \subseteq Int
  <2>1. Messages' \subseteq Int /\ Messages \subseteq Int
    BY DEF Messages
  <2> QED
    BY <1>3, <2>1 DEF Data, Reply, Answer
<1>5. /\ \A i \in Requests' : i + 1 \in Requests /\ i + 1 # 1 /\ conn'.toServer[i] = conn.toServer[i + 1]
      /\ \A i \in Requests : i = 1 \/ (i - 1 \in Requests' /\ conn'.toServer[i - 1] = conn.toServer[i])
      /\ 1 \in Requests
  BY <1>1, PrimedTypes, ShrunkIndices DEF Requests
<1>6. /\ \A i \in Requests' : (Put(i)' <=> Put(i + 1)) /\ (Listen(i)' <=> Listen(i + 1))
      /\ \A i \in Requests : i # 1 => (Put(i - 1)' <=> Put(i)) /\ (Listen(i - 1)' <=> Listen(i))
      /\ Put(1) /\ ~Listen(1) /\ \A i, j \in Requests' : i + 1 = j + 1 => i = j
  <2>1. \A i, j \in Requests' : i + 1 = j + 1 => i = j
    BY DEF Requests
  <2> QED
    BY <1>1, <1>5, <2>1 DEF Put, Listen
<1>7. (Asking' <=> Asking) /\ (Answered' <=> Answered) /\ Held' = Held
  <2>1. Asking' <=> Asking
    BY <1>1, <1>5, <1>6 DEF Asking
  <2>2. Answered' <=> Answered
    BY <1>3, <1>4 DEF Answered
  <2> QED
    BY <1>1, <2>1, <2>2 DEF Held, AckedIds
<1>8. conn.up /\ w \in conn.puts /\ w \in writes /\ w \notin Held
  <2>1. conn.toServer # <<>>
    BY <1>1
  <2> QED
    BY <1>0, <1>5, <1>6, <2>1, ConnTypes DEF ConnInv, SessionInv, PutInv
<1>9. /\ \A j \in Messages : Reply(j) => conn.toClient[j].id # w
      /\ \A i \in Requests : Put(i) /\ i # 1 => conn.toServer[i].id # w
  BY <1>0, <1>5, <1>6 DEF ConnInv, PutInv
<1>10. PutInv'
  <2>1. ASSUME NEW v \in conn.puts
        PROVE  \/ \E i \in Requests' : Put(i)' /\ conn'.toServer[i].id = v
               \/ \E j \in Messages' : Reply(j)' /\ conn'.toClient[j].id = v
    <3>1. ASSUME NEW i \in Requests, Put(i), conn.toServer[i].id = v, i # 1
          PROVE  i - 1 \in Requests' /\ Put(i - 1)' /\ conn'.toServer[i - 1].id = v
      BY <1>5, <1>6, <3>1
    <3>2. ASSUME NEW j \in Messages, Reply(j), conn.toClient[j].id = v
          PROVE  j \in Messages' /\ Reply(j)' /\ conn'.toClient[j].id = v
      BY <1>3, <1>4, <3>2
    <3>3. \/ \E i \in Requests : Put(i) /\ conn.toServer[i].id = v
          \/ \E j \in Messages : Reply(j) /\ conn.toClient[j].id = v
      BY <1>8 DEF ConnInv, PutInv
    <3> QED
      BY <1>0, <1>3, <3>1, <3>2, <3>3
  <2>2. \A j \in Messages' : Reply(j)' => j = k \/ (j \in Messages /\ Reply(j) /\ conn'.toClient[j] = conn.toClient[j])
    BY <1>3, <1>4
  <2>3. \A j \in Messages' : Reply(j)' => conn'.toClient[j].id \in conn'.puts
    BY <1>1, <1>3, <1>8, <2>2 DEF ConnInv, PutInv
  <2>4. \A i, j \in Messages' : Reply(i)' /\ Reply(j)' /\ conn'.toClient[i].id = conn'.toClient[j].id => i = j
    BY <1>3, <1>9, <2>2 DEF ConnInv, PutInv
  <2>5. \A i \in Requests', j \in Messages' : Put(i)' /\ Reply(j)' => conn'.toServer[i].id # conn'.toClient[j].id
    BY <1>3, <1>5, <1>6, <1>9, <2>2 DEF ConnInv, PutInv
  <2>6. /\ \A i \in Requests' : Put(i)' => conn'.toServer[i].id \in conn'.puts
        /\ \A i, j \in Requests' : Put(i)' /\ Put(j)' /\ conn'.toServer[i].id = conn'.toServer[j].id => i = j
    BY <1>1, <1>5, <1>6 DEF ConnInv, PutInv
  <2>7. writes' = conn'.puts \union Held' /\ conn'.puts \intersect Held' = {}
    BY <1>1, <1>7 DEF ConnInv, PutInv
  <2> QED
    BY <1>1, <2>1, <2>3, <2>4, <2>5, <2>6, <2>7 DEF PutInv
<1>11. SessionInv'
  <2>1. ASSUME NEW j \in Messages', Answer(j)', j > 1 PROVE Data(j - 1)'
    <3>1. j \in Messages /\ Answer(j) /\ j - 1 \in Messages
      BY <1>3, <1>4, <2>1 DEF Messages
    <3> QED
      BY <1>4, <2>1, <3>1 DEF ConnInv, SessionInv
  <2>2. \A i, j \in Messages' : Answer(i)' /\ Answer(j)' => i = j
    BY <1>3, <1>4 DEF ConnInv, SessionInv
  <2>3. \A i, j \in Requests' : Listen(i)' /\ Listen(j)' => i = j
    BY <1>5, <1>6 DEF ConnInv, SessionInv
  <2>4. ~conn.listening => \A j \in Messages' : Reply(j)'
    BY <1>3, <1>4 DEF ConnInv, SessionInv
  <2>5. (\E i \in Requests' : Listen(i)') => conn'.owed = 0
    BY <1>1, <1>5, <1>6 DEF ConnInv, SessionInv
  <2> QED
    BY <1>1, <1>7, <1>8, <2>1, <2>2, <2>3, <2>4, <2>5 DEF ConnInv, SessionInv
<1>12. server.value \in Values /\ server.last \in Nat /\ server \in [value : Values, last : Values]
       /\ erased \in [Removals -> {Unknown} \union Values] /\ cache \in {Unknown} \union Values
  BY ConnTypes, Bounds DEF TypeInv
<1>13. /\ server'.last = server.last /\ server'.value \in {Removed, server.value}
       /\ erased' \in {erased, [erased EXCEPT ![w] = server.last]}
  BY <1>3, <1>12
<1>14. \A v \in Removals : v # w => erased'[v] = erased[v]
  BY <1>12, <1>13
<1>15. \A v : ~Stale(Removed, v) /\ ~Stale(Removed, v)'
  BY DEF Stale, Removed
<1>16. ServerInv'
  <2>1. server'.value \in {Removed, server'.last}
    BY <1>13 DEF ConnInv, ServerInv
  <2>2. ASSUME NEW v \in Removals PROVE erased'[v] <= server'.last
    <3>1. erased[v] <= server.last /\ server.last <= server.last
      BY <1>12 DEF ConnInv, ServerInv
    <3> QED
      BY <1>1, <1>12, <1>13, <3>1
  <2>3. ASSUME NEW v \in Removals PROVE ~Stale(server.value, v)'
    <3>1. CASE erased' = erased /\ server' = server
      BY <3>1 DEF ConnInv, ServerInv, Stale
    <3>2. CASE server'.value = Removed
      BY <3>2 DEF Stale, Removed
    <3> QED
      BY <1>3, <1>12, <3>1, <3>2
  <2> QED
    BY <2>1, <2>2, <2>3 DEF ServerInv
<1>17. LatestInv'
  <2>1. CASE ~conn.listening
    BY <1>1, <2>1 DEF LatestInv
  <2>2. CASE /\ n + 1 \in Messages' /\ Data(n + 1)' /\ conn'.toClient[n + 1].value = Removed
             /\ server' = [server EXCEPT !.value = Removed]
    <3>1. server'.value = Removed
      BY <1>12, <2>2
    <3>2. ASSUME NEW j \in Messages', j > n + 1 PROVE ~Data(j)'
      <4>1. j \notin Messages
        BY <1>0, <3>2 DEF Messages
      <4> QED
        BY <1>3, <1>4, <3>2, <4>1
    <3> QED
      BY <2>2, <3>1, <3>2 DEF LatestInv
  <2>3. CASE (\A i \in Messages' : i \in Messages \/ i = k) /\ server' = server
    BY <1>1, <1>3, <1>4, <2>3 DEF ConnInv, LatestInv
  <2> QED
    BY <1>3, <2>1, <2>2, <2>3
<1>18. FlowInv' /\ \A u \in Values : Reported(u) => Reported(u)'
  <2>1. \A j \in Messages' : Data(j)' => \/ conn'.toClient[j].value = Removed
                                         \/ j \in Messages /\ Data(j) /\ conn'.toClient[j] = conn.toClient[j]
    BY <1>3, <1>4
  <2>2. Removed <= server.last
    BY <1>12 DEF Removed
  <2>3. ASSUME NEW i \in Messages', NEW j \in Messages', i < j, Data(i)', Data(j)',
               conn'.toClient[j].value # Removed
        PROVE  i \in Messages
    <3>1. j \in Messages
      BY <2>1, <2>3
    <3> QED
      BY <1>3, <1>4, <2>3, <3>1 DEF Messages
  <2>4. FlowInv'
    BY <1>1, <1>3, <1>4, <1>13, <2>1, <2>2, <2>3 DEF ConnInv, FlowInv, Above
  <2> QED
    BY <1>1, <1>13, <2>1, <2>4 DEF Reported, Above
<1>19. ErasedInv'
  <2>1. ASSUME NEW v \in Removals, NEW m \in Int, NoneStale(m, v), v # w PROVE NoneStale(m, v)'
    BY <1>3, <1>4, <1>14, <1>15, <2>1 DEF NoneStale, StaleAt, Stale
  <2>2. ASSUME NEW v \in Removals, NEW m \in Messages, CuredBefore(m, v), v # w PROVE CuredBefore(m, v)'
    <3>1. Stale(cache, v)' <=> Stale(cache, v)
      BY <1>1, <1>14, <2>2 DEF Stale
    <3>2. \A j \in Messages : (StaleAt(j, v)' <=> StaleAt(j, v)) /\ (Cures(j, v)' <=> Cures(j, v))
      BY <1>3, <1>4, <1>14, <2>2 DEF StaleAt, Cures, Stale
    <3>3. \A j \in Messages' : j < m => j \in Messages
      BY <2>2 DEF Messages
    <3> QED
      BY <1>3, <2>2, <3>1, <3>2, <3>3 DEF CuredBefore
  <2>3. NoneStale(k, w)'
    <3>1. \A j \in Messages' : k <= j => j = k
      BY <1>3, <1>4
    <3> QED
      BY <1>3, <3>1 DEF NoneStale, StaleAt
  <2>4. Asking' \/ CuredBefore(k, w)'
    <3>1. CASE ~conn.listening /\ ~Asking
      <4>1. cache = Unknown /\ \A j \in Messages : Reply(j)
        BY <1>8, <3>1 DEF ConnInv, SessionInv
      <4>2. ~Stale(cache, w)'
        BY <1>1, <4>1 DEF Stale, Unknown
      <4>3. \A j \in Messages' : ~StaleAt(j, w)'
        BY <1>3, <1>4, <3>1, <4>1 DEF StaleAt, Data, Reply
      <4> QED
        BY <4>2, <4>3 DEF CuredBefore
    <3>2. CASE conn.listening /\ n + 1 \in Messages' /\ n + 1 < k /\ Data(n + 1)' /\ conn'.toClient[n + 1].value = Removed
      <4>1. Cures(n + 1, w)'
        BY <1>15, <3>2 DEF Cures, Stale
      <4>2. ASSUME NEW j \in Messages', StaleAt(j, w)' PROVE j < n + 1
        <5>1. j \in Messages
          BY <1>3, <1>15, <4>2 DEF StaleAt, Stale
        <5> QED
          BY <1>0, <5>1, ConnTypes DEF Messages
      <4> QED
        BY <3>2, <4>1, <4>2 DEF CuredBefore
    <3>3. CASE conn.listening /\ (\A i \in Messages' : i \in Messages \/ i = k) /\ server' = server /\ erased' = erased
      <4>1. ~Stale(server.value, w) /\ ~Stale(server.value, w)'
        BY <1>1, <1>16 DEF ConnInv, ServerInv
      <4>2. CASE cache = server.value /\ \A j \in Messages : ~Data(j)
        BY <1>1, <1>3, <1>4, <3>3, <4>1, <4>2 DEF CuredBefore, StaleAt, Stale
      <4>3. ASSUME NEW l \in Messages, Data(l), conn.toClient[l].value = server.value,
                   \A j \in Messages : j > l => ~Data(j)
            PROVE  CuredBefore(k, w)'
        <5>1. l \in Messages' /\ l < k /\ Cures(l, w)'
          BY <1>3, <1>4, <3>3, <4>1, <4>3 DEF Cures, Stale
        <5>2. ASSUME NEW j \in Messages', StaleAt(j, w)' PROVE j < l
          <6>1. j \in Messages /\ Data(j) /\ ~(j > l)
            BY <1>3, <1>4, <3>3, <4>3, <5>2 DEF StaleAt
          <6>2. j # l
            BY <5>1, <5>2 DEF StaleAt, Cures
          <6> QED
            BY <1>4, <6>1, <6>2
        <5> QED
          BY <5>1, <5>2 DEF CuredBefore
      <4> QED
        BY <3>3, <4>2, <4>3 DEF ConnInv, LatestInv
    <3> QED
      BY <1>3, <1>7, <3>1, <3>2, <3>3
  <2>5. ASSUME NEW v \in Removals
        PROVE  /\ v \notin writes' => ~Stale(cache, v)' /\ NoneStale(1, v)'
               /\ v \in Held' => NoneStale(1, v)' /\ (1 \in Messages' /\ Answer(1)' => ~Stale(cache, v)')
    <3>1. CASE v # w
      <4>1. Stale(cache, v)' <=> Stale(cache, v)
        BY <1>1, <1>14, <3>1 DEF Stale
      <4>2. 1 \in Messages' /\ Answer(1)' => 1 \in Messages /\ Answer(1)
        BY <1>3, <1>4
      <4>3. NoneStale(1, v) => NoneStale(1, v)'
        BY <2>1, <3>1
      <4> QED
        BY <1>1, <1>7, <4>1, <4>2, <4>3 DEF ConnInv, ErasedInv
    <3>2. CASE v = w
      BY <1>1, <1>7, <1>8, <3>2
    <3> QED
      BY <3>1, <3>2
  <2>6. ASSUME NEW v \in Removals, NEW m \in Messages', Reply(m)', conn'.toClient[m].id = v
        PROVE  /\ NoneStale(m, v)'
               /\ Asking' \/ (\E l \in Messages' : m < l /\ Answer(l)') \/ CuredBefore(m, v)'
    <3>1. CASE m = k
      <4>1. v = w
        BY <1>3, <2>6, <3>1
      <4> QED
        BY <2>3, <2>4, <3>1, <4>1
    <3>2. CASE m # k
      <4>1. m \in Messages /\ Reply(m) /\ conn.toClient[m].id = v /\ v # w /\ m \in Int
        BY <1>3, <1>4, <1>9, <2>6, <3>2
      <4>2. (\E l \in Messages : m < l /\ Answer(l)) => (\E l \in Messages' : m < l /\ Answer(l)')
        BY <1>3, <1>4
      <4> QED
        BY <1>7, <2>1, <2>2, <4>1, <4>2 DEF ConnInv, ErasedInv
    <3> QED
      BY <3>1, <3>2
  <2> QED
    BY <2>5, <2>6 DEF ErasedInv
<1> QED
  BY <1>10, <1>11, <1>16, <1>17, <1>18, <1>19 DEF ConnInv


-----------------------------------------------------------------------------
(* What is raised to the main queue. *)

(* A block that a client with the cache c and the reads rs may raise; ok   *)
(* says whether it has received that a removal was done.                   *)
Raisable(b, c, rs, ok) ==
  /\ b.block = "value" => b.value \in {Removed, c} /\ c # Unknown /\ b.reads \subseteq rs
  /\ b.block = "done" /\ b.ok => ok
Raises(e, c, rs, ok) == e \in Seq(Block) /\ \A i \in 1..Len(e) : Raisable(e[i], c, rs, ok)

(* What may be raised: nothing, one block, or one after another.           *)
LEMMA RaisesNone ==
  ASSUME NEW c, NEW rs, NEW ok
  PROVE  Raises(<<>>, c, rs, ok)
BY DEF Raises

LEMMA RaisesOne ==
  ASSUME NEW c, NEW rs, NEW ok, NEW b \in Block, Raisable(b, c, rs, ok)
  PROVE  Raises(<<b>>, c, rs, ok)
<1>1. <<b>> \in Seq(Block) /\ Len(<<b>>) = 1 /\ <<b>>[1] = b /\ 1..1 = {1}
  OBVIOUS
<1> QED
  BY <1>1 DEF Raises

LEMMA RaisesBoth ==
  ASSUME NEW c, NEW rs, NEW ok, NEW e, NEW f, Raises(e, c, rs, ok), Raises(f, c, rs, ok)
  PROVE  Raises(e \o f, c, rs, ok)
<1>1. e \in Seq(Block) /\ f \in Seq(Block) /\ Len(e) \in Nat /\ Len(f) \in Nat
  BY DEF Raises
<1>2. /\ e \o f \in Seq(Block) /\ Len(e \o f) = Len(e) + Len(f)
      /\ \A i \in 1..(Len(e) + Len(f)) : (e \o f)[i] = IF i <= Len(e) THEN e[i] ELSE f[i - Len(e)]
  BY <1>1, ConcatProperties
<1>3. ASSUME NEW i \in 1..(Len(e) + Len(f)) PROVE Raisable((e \o f)[i], c, rs, ok)
  <2>1. CASE i <= Len(e)
    <3>1. i \in 1..Len(e) /\ (e \o f)[i] = e[i]
      BY <1>1, <1>2, <2>1
    <3> QED
      BY <3>1 DEF Raises
  <2>2. CASE ~(i <= Len(e))
    <3>1. i - Len(e) \in 1..Len(f) /\ (e \o f)[i] = f[i - Len(e)]
      BY <1>1, <1>2, <2>2
    <3> QED
      BY <3>1 DEF Raises
  <2> QED
    BY <2>1, <2>2
<1> QED
  BY <1>2, <1>3 DEF Raises

LEMMA ToMainRaises ==
  ASSUME NEW c \in {Unknown} \union Values, NEW v \in {Unknown, Removed, c}, NEW os \in SUBSET Handles,
         NEW rs \in SUBSET Reads, NEW ok, v # Unknown => c # Unknown
  PROVE  Raises(ToMain(v, os, rs), c, rs, ok)
<1> DEFINE b == [block |-> "value", value |-> v, observers |-> os, reads |-> rs]
<1>1. CASE v = Unknown \/ os \union rs = {}
  BY <1>1, RaisesNone DEF ToMain
<1>2. CASE ~(v = Unknown \/ os \union rs = {})
  <2>1. v \in Values
    BY <1>2, Bounds
  <2>2. b \in Block /\ Raisable(b, c, rs, ok) /\ ToMain(v, os, rs) = <<b>>
    BY <1>2, <2>1 DEF Block, Raisable, ToMain
  <2> HIDE DEF b
  <2> QED
    BY <2>2, RaisesOne
<1> QED
  BY <1>1, <1>2

LEMMA ViewIs ==
  ASSUME NEW c, NEW ws
  PROVE  View(c, ws) \in {Unknown, Removed, c} /\ (View(c, ws) = Unknown <=> c = Unknown)
BY DEF View, Unknown, Removed

LEMMA ChangedRaises ==
  ASSUME NEW c \in {Unknown} \union Values, NEW ws, NEW old, NEW ok,
         observers \in SUBSET Handles, onces \in SUBSET Reads
  PROVE  Raises(Changed(old, View(c, ws)), c, onces, ok)
<1> DEFINE v == View(c, ws)
<1>1. v \in {Unknown, Removed, c} /\ (v # Unknown => c # Unknown)
  BY ViewIs
<1> HIDE DEF v
<1>2. Raises(ToMain(v, observers, onces), c, onces, ok)
  BY <1>1, ToMainRaises
<1>3. Raises(Changed(old, v), c, onces, ok)
  BY <1>2, RaisesNone DEF Changed
<1> QED
  BY <1>3 DEF v

-----------------------------------------------------------------------------
(* What the observers know once the main queue has run. *)

Tells(q, i, h) == q[i].block = "value" /\ h \in q[i].observers
WillKnow(q, h, v) ==
  \/ told[h] = v /\ \A i \in 1..Len(q) : ~Tells(q, i, h)
  \/ \E k \in 1..Len(q) : /\ Tells(q, k, h) /\ q[k].value = v
                          /\ \A i \in 1..Len(q) : k < i => ~Tells(q, i, h)
Informs(q, v) ==
  IF v = Unknown THEN /\ \A i \in 1..Len(q) : q[i].block # "value"
                      /\ \A h \in Handles : told[h] = Unknown
  ELSE \A h \in observers : WillKnow(q, h, v)

(* Every observer will have been told what the client shows by now. *)
ToldInv == Informs(mainQueue, View(cache, writes))

(* A queue with a block at its end.                                        *)
LEMMA OneMore ==
  ASSUME NEW q \in Seq(Block), NEW b \in Block
  PROVE  LET t == q \o <<b>>
         IN  /\ t \in Seq(Block) /\ Len(q) \in Nat /\ Len(t) = Len(q) + 1 /\ t[Len(q) + 1] = b
             /\ \A i \in 1..Len(q) : t[i] = q[i] /\ i \in 1..Len(t)
             /\ \A i \in 1..Len(t) : i \in 1..Len(q) \/ i = Len(q) + 1
             /\ Len(q) + 1 \in 1..Len(t)
<1>1. q \o <<b>> = Append(q, b)
  BY AppendIsConcat
<1> DEFINE t == Append(q, b)
<1>2. /\ t \in Seq(Block) /\ Len(q) \in Nat /\ Len(t) = Len(q) + 1 /\ t[Len(q) + 1] = b
      /\ \A i \in 1..Len(q) : t[i] = q[i]
  BY AppendProperties
<1> HIDE DEF t
<1>3. /\ \A i \in 1..Len(q) : i \in 1..Len(t)
      /\ \A i \in 1..Len(t) : i \in 1..Len(q) \/ i = Len(q) + 1
      /\ Len(q) + 1 \in 1..Len(t)
  BY <1>2
<1> QED
  BY <1>1, <1>2, <1>3 DEF t

(* A block that tells an observer is what it will know. *)
LEMMA WillKnowTold ==
  ASSUME NEW q \in Seq(Block), NEW b \in Block, NEW h, b.block = "value", h \in b.observers
  PROVE  WillKnow(q \o <<b>>, h, b.value)
<1> DEFINE t == q \o <<b>>
           n == Len(q) + 1
<1>1. /\ Len(q) \in Nat /\ t[n] = b /\ n \in 1..Len(t) /\ Len(t) = n
  BY OneMore
<1> HIDE DEF t, n
<1>2. Tells(t, n, h) /\ t[n].value = b.value
  BY <1>1 DEF Tells
<1>3. \A i \in 1..Len(t) : ~(n < i)
  BY <1>1 DEF n
<1> QED
  BY <1>1, <1>2, <1>3 DEF WillKnow, t

(* A block that does not tell an observer changes nothing for it. *)
LEMMA WillKnowStill ==
  ASSUME NEW q \in Seq(Block), NEW b \in Block, NEW h, NEW v, WillKnow(q, h, v),
         ~(b.block = "value" /\ h \in b.observers)
  PROVE  WillKnow(q \o <<b>>, h, v)
<1> DEFINE t == q \o <<b>>
           n == Len(q) + 1
<1>1. /\ Len(q) \in Nat /\ t[n] = b
      /\ \A i \in 1..Len(q) : t[i] = q[i] /\ i \in 1..Len(t)
      /\ \A i \in 1..Len(t) : i \in 1..Len(q) \/ i = n
  BY OneMore
<1> HIDE DEF t, n
<1>2. ~Tells(t, n, h) /\ \A i \in 1..Len(q) : Tells(t, i, h) <=> Tells(q, i, h)
  BY <1>1 DEF Tells
<1> QED
  BY <1>1, <1>2 DEF WillKnow, t

(* A block that tells nobody anything leaves what will be known.           *)
LEMMA InformsStill ==
  ASSUME NEW q \in Seq(Block), NEW b \in Block, NEW v, Informs(q, v), b.block # "value"
  PROVE  Informs(q \o <<b>>, v)
<1>1. CASE v = Unknown
  <2> DEFINE t == q \o <<b>>
             n == Len(q) + 1
  <2>1. /\ t[n] = b /\ \A i \in 1..Len(q) : t[i] = q[i]
        /\ \A i \in 1..Len(t) : i \in 1..Len(q) \/ i = n
    BY OneMore
  <2> HIDE DEF t, n
  <2> QED
    BY <1>1, <2>1 DEF Informs, t
<1>2. CASE v # Unknown
  BY <1>2, WillKnowStill DEF Informs
<1> QED
  BY <1>1, <1>2

(* A change of what the client shows is raised to all observers. *)
LEMMA ChangedInforms ==
  ASSUME NEW q \in Seq(Block), NEW old, NEW new \in {Unknown} \union Values, Informs(q, old),
         new = Unknown => old = Unknown, observers \in SUBSET Handles, onces \in SUBSET Reads
  PROVE  Informs(q \o Changed(old, new), new)
<1> DEFINE b == [block |-> "value", value |-> new, observers |-> observers, reads |-> onces]
<1>1. CASE old = new
  <2>1. Changed(old, new) = <<>>
    BY <1>1 DEF Changed
  <2> QED
    BY <1>1, <2>1, ConcatEmptySeq
<1>2. CASE old # new /\ observers \union onces = {}
  <2>1. Changed(old, new) = <<>> /\ observers = {} /\ new # Unknown
    BY <1>2 DEF Changed, ToMain
  <2>2. q \o Changed(old, new) = q
    BY <2>1, ConcatEmptySeq
  <2> QED
    BY <2>1, <2>2 DEF Informs
<1>3. CASE old # new /\ observers \union onces # {}
  <2>1. new # Unknown /\ new \in Values
    BY <1>3
  <2>2. Changed(old, new) = <<b>>
    BY <1>3, <2>1 DEF Changed, ToMain
  <2>3. b \in Block /\ b.block = "value" /\ b.observers = observers /\ b.value = new
    BY <2>1 DEF Block
  <2> HIDE DEF b
  <2>4. \A h \in observers : WillKnow(q \o <<b>>, h, new)
    BY <2>3, WillKnowTold
  <2> QED
    BY <2>1, <2>2, <2>4 DEF Informs
<1> QED
  BY <1>1, <1>2, <1>3


-----------------------------------------------------------------------------
(* The answers that are passed on together. *)

LEMMA LeastOf ==
  ASSUME NEW T \in SUBSET Nat, T # {}
  PROVE  \E n \in T : \A m \in T : n <= m
<1> DEFINE R == OpToRel(<, Nat)
<1>1. IsWellFoundedOn(R, Nat)
  BY NatLessThanWellFounded
<1>2. ASSUME NEW x \in Nat, NEW y \in Nat, x < y PROVE <<x, y>> \in R
  BY <1>2 DEF OpToRel
<1> HIDE DEF R
<1>3. PICK n \in T : \A m \in T : ~(<<m, n>> \in R)
  BY <1>1, WFMin
<1>4. ASSUME NEW m \in T PROVE n <= m
  <2>1. ~(m < n)
    BY <1>2, <1>3
  <2> QED
    BY <2>1
<1> QED
  BY <1>4

(* g is the loop over the first k answers. *)
Shown(ws, acks, n) == View(cache, ws \ AckedIds(acks, n))
DoneBlock(acks, n) == [block |-> "done", ok |-> acks[n].ok, id |-> acks[n].id]
AckLoop(g, ws, acks, k) ==
  g = [n \in 0..k |->
         IF n = 0 THEN <<>>
         ELSE g[n - 1] \o Changed(Shown(ws, acks, n - 1), Shown(ws, acks, n)) \o <<DoneBlock(acks, n)>>]

(* The function Acked is defined by exists, for any number of answers.     *)
LEMMA AckLoopExists ==
  ASSUME NEW ws, NEW acks, NEW k \in Nat
  PROVE  \E g : AckLoop(g, ws, acks, k)
<1> DEFINE More(s, n) == s \o Changed(Shown(ws, acks, n - 1), Shown(ws, acks, n)) \o <<DoneBlock(acks, n)>>
           Without == {n \in Nat : ~ \E g : AckLoop(g, ws, acks, n)}
<1>0. ASSUME NEW g, NEW n
      PROVE  AckLoop(g, ws, acks, n) <=> g = [i \in 0..n |-> IF i = 0 THEN <<>> ELSE More(g[i - 1], i)]
  BY DEF AckLoop
<1> HIDE DEF More
<1>1. SUFFICES ASSUME Without # {} PROVE FALSE
  OBVIOUS
<1>2. PICK n \in Without : \A m \in Without : n <= m
  BY <1>1, LeastOf
<1>3. n # 0
  <2> DEFINE z == [i \in 0..0 |-> <<>>]
  <2>1. z = [i \in 0..0 |-> IF i = 0 THEN <<>> ELSE More(z[i - 1], i)]
    OBVIOUS
  <2>2. AckLoop(z, ws, acks, 0)
    BY <1>0, <2>1
  <2> QED
    BY <1>2, <2>2
<1>4. n \in Nat /\ n - 1 \in Nat /\ n - 1 \notin Without
  BY <1>2, <1>3
<1>5. PICK g : AckLoop(g, ws, acks, n - 1)
  BY <1>4
<1>6. g = [i \in 0..(n - 1) |-> IF i = 0 THEN <<>> ELSE More(g[i - 1], i)]
  BY <1>0, <1>5
<1> DEFINE h == [i \in 0..n |-> IF i = n THEN More(g[n - 1], n) ELSE g[i]]
<1>7. ASSUME NEW i \in 0..n PROVE h[i] = IF i = 0 THEN <<>> ELSE More(h[i - 1], i)
  <2>1. CASE i = n
    <3>1. n - 1 \in 0..n /\ h[n - 1] = g[n - 1] /\ h[i] = More(g[n - 1], n)
      BY <1>3, <1>4, <2>1
    <3> QED
      BY <1>3, <2>1, <3>1
  <2>2. CASE i # n
    <3>1. i \in 0..(n - 1) /\ h[i] = g[i]
      BY <1>4, <2>2
    <3>2. i # 0 => i - 1 \in 0..n /\ h[i - 1] = g[i - 1]
      BY <1>4, <3>1
    <3>3. g[i] = IF i = 0 THEN <<>> ELSE More(g[i - 1], i)
      BY <1>6, <3>1
    <3> QED
      BY <3>1, <3>2, <3>3
  <2> QED
    BY <2>1, <2>2
<1>8. h = [i \in 0..n |-> h[i]]
  OBVIOUS
<1> HIDE DEF h
<1>9. h = [i \in 0..n |-> IF i = 0 THEN <<>> ELSE More(h[i - 1], i)]
  BY <1>7, <1>8
<1>10. AckLoop(h, ws, acks, n)
  BY <1>0, <1>9
<1> QED
  BY <1>2, <1>10

LEMMA NoneAcked ==
  ASSUME NEW ws, NEW acks
  PROVE  ws \ AckedIds(acks, 0) = ws
<1>1. 1..0 = {}
  OBVIOUS
<1> QED
  BY <1>1 DEF AckedIds

(* Whatever the answers, what they raise may be raised, and leaves the     *)
(* observers with what the client shows after the last of them.            *)
LEMMA AckedDoes ==
  ASSUME NEW ws, NEW acks \in Seq(Ack), NEW ok, \A i \in 1..Len(acks) : acks[i].ok => ok,
         NEW q \in Seq(Block), Informs(q, View(cache, ws)), cache \in {Unknown} \union Values,
         observers \in SUBSET Handles, onces \in SUBSET Reads
  PROVE  /\ Raises(Acked(ws, acks), cache, onces, ok)
         /\ Informs(q \o Acked(ws, acks), View(cache, ws \ AckedIds(acks, Len(acks))))
<1> DEFINE g == CHOOSE f : AckLoop(f, ws, acks, Len(acks))
           Right(n) == /\ Raises(g[n], cache, onces, ok)
                       /\ Informs(q \o g[n], Shown(ws, acks, n))
<1>0. Len(acks) \in Nat
  OBVIOUS
<1>1. AckLoop(g, ws, acks, Len(acks))
  BY <1>0, AckLoopExists
<1>2. Acked(ws, acks) = g[Len(acks)]
  BY DEF Acked, AckLoop, Shown, DoneBlock
<1> HIDE DEF g
<1> DEFINE Wrong == {n \in 0..Len(acks) : ~Right(n)}
<1>3. SUFFICES ASSUME Wrong # {} PROVE FALSE
  <2>1. Len(acks) \in 0..Len(acks)
    BY <1>0
  <2>2. Right(Len(acks))
    BY <1>3, <2>1
  <2> QED
    BY <1>2, <2>2 DEF Shown
<1>4. PICK n \in Wrong : \A m \in Wrong : n <= m
  <2>1. Wrong \in SUBSET Nat
    BY <1>0
  <2> HIDE DEF Wrong
  <2> QED
    BY <1>3, <2>1, LeastOf
<1>5. n \in 0..Len(acks) /\ ~Right(n) /\ n \in Nat
  BY <1>0, <1>4
<1> DEFINE c == Changed(Shown(ws, acks, n - 1), Shown(ws, acks, n))
           d == DoneBlock(acks, n)
<1>6. g[n] = IF n = 0 THEN <<>> ELSE g[n - 1] \o c \o <<d>>
  BY <1>1, <1>5 DEF AckLoop
<1>7. n # 0
  <2>1. ASSUME n = 0 PROVE Right(n)
    <3>1. g[n] = <<>> /\ q \o g[n] = q
      BY <1>6, <2>1, ConcatEmptySeq
    <3> QED
      <4>1. Raises(g[n], cache, onces, ok)
        BY <3>1, RaisesNone
      <4>2. Shown(ws, acks, n) = View(cache, ws)
        BY <2>1, NoneAcked DEF Shown
      <4>3. Informs(q \o g[n], Shown(ws, acks, n))
        BY <3>1, <4>2
      <4> QED
        BY <4>1, <4>3
  <2> QED
    BY <1>5, <2>1
<1>8. n - 1 \in 0..Len(acks) /\ n \in 1..Len(acks) /\ n - 1 \notin Wrong
  BY <1>0, <1>4, <1>5, <1>7
<1>9. Right(n - 1)
  BY <1>8
<1>10. d \in Block /\ d.block = "done" /\ Raisable(d, cache, onces, ok)
  <2>1. acks[n] \in Ack
    BY <1>8
  <2>2. acks[n].id \in Removals /\ acks[n].ok \in BOOLEAN
    BY <2>1 DEF Ack
  <2> QED
    BY <1>8, <2>2 DEF Block, DoneBlock, Raisable
<1>11. Raises(c, cache, onces, ok)
  BY ChangedRaises DEF Shown
<1>12. /\ Shown(ws, acks, n) \in {Unknown} \union Values
       /\ Shown(ws, acks, n) = Unknown => Shown(ws, acks, n - 1) = Unknown
  BY ViewIs, Bounds DEF Shown
<1>13. q \o g[n - 1] \in Seq(Block) /\ g[n - 1] \in Seq(Block) /\ c \in Seq(Block)
  BY <1>9, <1>11, ConcatProperties DEF Raises
<1>14. Informs((q \o g[n - 1]) \o c, Shown(ws, acks, n))
  <2> DEFINE r == q \o g[n - 1]
             old == Shown(ws, acks, n - 1)
             new == Shown(ws, acks, n)
  <2>1. r \in Seq(Block) /\ Informs(r, old) /\ new \in {Unknown} \union Values /\ (new = Unknown => old = Unknown)
    BY <1>9, <1>12, <1>13
  <2> HIDE DEF r, old, new
  <2>2. Informs(r \o Changed(old, new), new)
    BY <2>1, ChangedInforms
  <2> QED
    BY <2>2 DEF r, old, new
<1> HIDE DEF c, d
<1> DEFINE p == g[n - 1] \o c
<1>15. p \in Seq(Block) /\ (q \o g[n - 1]) \o c = q \o p /\ Raises(p, cache, onces, ok)
  <2> DEFINE r == g[n - 1]
  <2>1. r \in Seq(Block) /\ c \in Seq(Block) /\ Raises(r, cache, onces, ok)
    BY <1>9, <1>13
  <2> HIDE DEF r
  <2>2. r \o c \in Seq(Block)
    BY <2>1, ConcatProperties
  <2>3. (q \o r) \o c = q \o (r \o c)
    BY <2>1, ConcatAssociative
  <2>4. Raises(r \o c, cache, onces, ok)
    BY <1>11, <2>1, RaisesBoth
  <2> QED
    BY <2>2, <2>3, <2>4 DEF r
<1> HIDE DEF p
<1>16. Raises(p \o <<d>>, cache, onces, ok)
  BY <1>10, <1>15, RaisesOne, RaisesBoth
<1>17. q \o p \in Seq(Block) /\ <<d>> \in Seq(Block)
  BY <1>10, <1>15, ConcatProperties
<1>18. Informs((q \o p) \o <<d>>, Shown(ws, acks, n))
  BY <1>10, <1>14, <1>15, <1>17, InformsStill
<1>19. (q \o p) \o <<d>> = q \o (p \o <<d>>)
  BY <1>15, <1>17, ConcatAssociative
<1>20. g[n] = p \o <<d>>
  BY <1>6, <1>7 DEF p
<1> QED
  BY <1>5, <1>16, <1>18, <1>19, <1>20


-----------------------------------------------------------------------------
(* Each step of the client raises what it may, and tells the observers.    *)

SomeErased == \E w \in Removals : erased[w] # Unknown

AnswersTrue ==
  /\ \A i \in 1..Len(conn.toAck) : conn.toAck[i].ok => SomeErased
  /\ \A i \in Messages : Reply(i) /\ conn.toClient[i].ok => SomeErased

(* A removal that the alert, a completion or an answer under way calls     *)
(* done was done.                                                          *)
AlertInv ==
  /\ alert => SomeErased
  /\ \A i \in 1..Len(mainQueue) : mainQueue[i].block = "done" /\ mainQueue[i].ok => SomeErased
  /\ AnswersTrue

Raising == \E e : mainQueue' = mainQueue \o e /\ Raises(e, cache', onces', SomeErased')

(* Who was told what it will know, once the client has changed.            *)
LEMMA Informed ==
  ASSUME told' = told, observers' = observers, Informs(mainQueue', View(cache', writes'))
  PROVE  ToldInv'
BY DEF ToldInv, Informs, WillKnow, Tells, View

(* The types of what the client works on.                                  *)
LEMMA QueueTypes ==
  ASSUME TypeInv
  PROVE  /\ mainQueue \in Seq(Block) /\ observers \in SUBSET Handles /\ onces \in SUBSET Reads
         /\ cache \in {Unknown} \union Values /\ writes \in SUBSET Removals
         /\ <<>> \in Seq(Block) /\ mainQueue \o <<>> = mainQueue
         /\ View(cache, writes) \in {Unknown, Removed, cache}
         /\ View(cache, writes) \in {Unknown} \union Values
         /\ View(cache, writes) # Unknown => cache # Unknown
<1>1. /\ mainQueue \in Seq(Block) /\ observers \in SUBSET Handles /\ onces \in SUBSET Reads
      /\ cache \in {Unknown} \union Values /\ writes \in SUBSET Removals
  BY DEF TypeInv
<1>2. <<>> \in Seq(Block)
  OBVIOUS
<1>3. mainQueue \o <<>> = mainQueue
  BY <1>1, ConcatEmptySeq
<1> QED
  BY <1>1, <1>2, <1>3, ViewIs, Bounds

LEMMA AddObserverRaises ==
  ASSUME TypeInv, ToldInv, AddObserver
  PROVE  Raising /\ ToldInv'
<1> DEFINE v == View(cache, writes)
           id == dbQueue[1].id
           e == ToMain(v, {id}, {})
           b == [block |-> "value", value |-> v, observers |-> {id}, reads |-> {}]
<1>1. id \in Handles /\ Head(dbQueue) = dbQueue[1]
  BY AddObserverDoes, OpDoes DEF AddObserver
<1>2. /\ mainQueue' = mainQueue \o e /\ observers' = observers \union {id}
      /\ cache' = cache /\ writes' = writes /\ onces' = onces /\ told' = told
  BY <1>1 DEF AddObserver, heard
<1>3. {id} \in SUBSET Handles /\ {} \in SUBSET Reads
  BY <1>1
<1>4. Raises(e, cache, {}, SomeErased')
  <2> HIDE DEF id, v
  <2>1. v \in {Unknown, Removed, cache} /\ (v # Unknown => cache # Unknown)
    BY QueueTypes DEF v
  <2> QED
    BY <1>3, <2>1, QueueTypes, ToMainRaises
<1>5. Raises(e, cache, onces, SomeErased')
  BY <1>4 DEF Raises, Raisable
<1>6. Raising
  BY <1>2, <1>5 DEF Raising
<1>7. CASE v = Unknown
  <2>1. e = <<>> /\ mainQueue' = mainQueue /\ View(cache, writes)' = v
    BY <1>2, <1>7, QueueTypes DEF ToMain, View
  <2> QED
    BY <1>2, <1>6, <1>7, <2>1 DEF ToldInv, Informs
<1>8. CASE v # Unknown
  <2>1. e = <<b>> /\ View(cache, writes)' = v
    BY <1>2, <1>8 DEF ToMain, View
  <2>2. b \in Block /\ b.block = "value" /\ b.observers = {id} /\ b.value = v
    BY <1>3, <1>8, QueueTypes DEF Block
  <2> HIDE DEF b
  <2>3. WillKnow(mainQueue \o <<b>>, id, v)
    <3>1. id \in b.observers
      BY <2>2
    <3> HIDE DEF v, id
    <3> QED
      BY <2>2, <3>1, QueueTypes, WillKnowTold
  <2>4. ASSUME NEW h \in observers, h # id PROVE WillKnow(mainQueue \o <<b>>, h, v)
    <3>1. WillKnow(mainQueue, h, v)
      BY <1>8 DEF ToldInv, Informs
    <3>2. ~(b.block = "value" /\ h \in b.observers)
      BY <2>2, <2>4
    <3> QED
      BY <2>2, <3>1, <3>2, QueueTypes, WillKnowStill
  <2> HIDE DEF v, e, id
  <2>5. \A h \in observers' : WillKnow(mainQueue', h, v)
    BY <1>2, <2>1, <2>3, <2>4
  <2>6. \A h \in observers' : WillKnow(mainQueue, h, v)'
    <3>1. v' = v
      BY <1>2 DEF v, View
    <3> QED
      BY <1>2, <2>5, <3>1 DEF WillKnow, Tells
  <2>7. v' = v
    BY <1>2 DEF v, View
  <2> QED
    BY <1>6, <1>8, <2>1, <2>6, <2>7 DEF ToldInv, Informs
<1> QED
  BY <1>6, <1>7, <1>8

LEMMA AddOnceRaises ==
  ASSUME TypeInv, ToldInv, AddOnce
  PROVE  /\ Raising /\ ToldInv'
         /\ onces' = onces \union {dbQueue[1].id} /\ dbQueue[1].id \in Reads
<1> DEFINE v == View(cache, writes)
           id == dbQueue[1].id
           e == ToMain(v, {}, {id})
           b == [block |-> "value", value |-> v, observers |-> {}, reads |-> {id}]
<1>1. id \in Reads /\ Head(dbQueue) = dbQueue[1]
  BY OpDoes, CallKinds DEF AddOnce
<1>2. /\ mainQueue' = mainQueue \o e /\ onces' = onces \union {id}
      /\ cache' = cache /\ writes' = writes /\ observers' = observers /\ told' = told
  BY <1>1 DEF AddOnce, heard
<1>3. {id} \in SUBSET Reads /\ {} \in SUBSET Handles
  BY <1>1
<1>4. Raises(e, cache, {id}, SomeErased')
  <2> HIDE DEF id, v
  <2>1. v \in {Unknown, Removed, cache} /\ (v # Unknown => cache # Unknown)
    BY QueueTypes DEF v
  <2> QED
    BY <1>3, <2>1, QueueTypes, ToMainRaises
<1>5. Raises(e, cache, onces', SomeErased')
  BY <1>2, <1>4 DEF Raises, Raisable
<1>6. Raising
  BY <1>2, <1>5 DEF Raising
<1>7. Informs(mainQueue', v)
  <2>1. CASE v = Unknown
    <3>1. e = <<>> /\ mainQueue' = mainQueue
      BY <1>2, <2>1, QueueTypes DEF ToMain
    <3> QED
      BY <3>1 DEF ToldInv
  <2>2. CASE v # Unknown
    <3>1. e = <<b>>
      BY <2>2 DEF ToMain
    <3>2. b \in Block /\ b.observers = {}
      BY <1>3, <2>2, QueueTypes DEF Block
    <3> HIDE DEF b
    <3>3. \A h \in observers : WillKnow(mainQueue, h, v)
      BY <2>2 DEF ToldInv, Informs
    <3>4. \A h \in observers : WillKnow(mainQueue \o <<b>>, h, v)
      BY <3>2, <3>3, QueueTypes, WillKnowStill
    <3> QED
      BY <1>2, <2>2, <3>1, <3>4 DEF Informs
  <2> QED
    BY <2>1, <2>2
<1>8. ToldInv'
  BY <1>2, <1>7, Informed
<1> QED
  BY <1>1, <1>2, <1>6, <1>8

LEMMA RemoveValueRaises ==
  ASSUME TypeInv, ToldInv, RemoveValue
  PROVE  Raising /\ ToldInv'
<1> DEFINE old == View(cache, writes)
           new == View(cache, writes')
<1>1. /\ mainQueue' = mainQueue \o Changed(old, new)
      /\ cache' = cache /\ onces' = onces /\ observers' = observers /\ told' = told
  BY DEF RemoveValue, heard
<1>2. Raises(Changed(old, new), cache, onces, SomeErased')
  BY QueueTypes, ChangedRaises
<1>3. new \in {Unknown} \union Values /\ (new = Unknown => old = Unknown)
  BY QueueTypes, ViewIs, Bounds
<1>4. Informs(mainQueue, old)
  BY DEF ToldInv
<1> HIDE DEF old, new
<1>5. Informs(mainQueue', new)
  BY <1>1, <1>3, <1>4, QueueTypes, ChangedInforms
<1>6. View(cache', writes') = new
  BY <1>1 DEF new
<1> QED
  BY <1>1, <1>2, <1>5, <1>6, Informed DEF Raising

LEMMA OnDataUpdateRaises ==
  ASSUME TypeInv, ToldInv, OnDataUpdate
  PROVE  Raising /\ ToldInv'
<1> DEFINE old == View(cache, writes)
           new == View(cache', writes)
<1>1. /\ mainQueue' = mainQueue \o Changed(old, new)
      /\ writes' = writes /\ onces' = onces /\ observers' = observers /\ told' = told
  BY DEF OnDataUpdate, heard
<1>2. cache' \in Values /\ cache' # Unknown
  BY OnDataUpdateDoes, Bounds
<1>3. Raises(Changed(old, new), cache', onces, SomeErased')
  BY <1>2, QueueTypes, ChangedRaises
<1>4. new \in Values
  BY <1>2, ViewIs, Bounds
<1>5. new \in {Unknown} \union Values /\ new # Unknown
  BY <1>4, Bounds
<1>6. Informs(mainQueue, old)
  BY DEF ToldInv
<1> HIDE DEF old, new
<1>7. Informs(mainQueue', new)
  BY <1>1, <1>5, <1>6, QueueTypes, ChangedInforms
<1>8. View(cache', writes') = new
  BY <1>1 DEF new
<1> QED
  BY <1>1, <1>3, <1>7, <1>8, Informed DEF Raising

(* The answers that are passed on raise what they may.                     *)
LEMMA AckPutsRaises ==
  ASSUME TypeInv, ToldInv, NEW acks \in Seq(Ack), AckPuts(acks), SomeErased' = SomeErased,
         \A i \in 1..Len(acks) : acks[i].ok => SomeErased,
         cache' = cache, onces' = onces, observers' = observers, told' = told
  PROVE  Raising /\ ToldInv'
<1>1. mainQueue' = mainQueue \o Acked(writes, acks) /\ writes' = writes \ AckedIds(acks, Len(acks))
  BY DEF AckPuts
<1>2. Informs(mainQueue, View(cache, writes))
  BY DEF ToldInv
<1>3. /\ Raises(Acked(writes, acks), cache, onces, SomeErased)
      /\ Informs(mainQueue \o Acked(writes, acks), View(cache, writes \ AckedIds(acks, Len(acks))))
  BY <1>2, QueueTypes, AckedDoes
<1>4. Raising
  BY <1>1, <1>3 DEF Raising
<1>5. Informs(mainQueue', View(cache', writes'))
  BY <1>1, <1>3
<1> QED
  BY <1>4, <1>5, Informed

(* A step that raises nothing.                                             *)
LEMMA NothingRaised ==
  ASSUME TypeInv, ToldInv, mainQueue' = mainQueue, cache' = cache, writes' = writes, onces' = onces,
         observers' = observers, told' = told
  PROVE  Raising /\ ToldInv'
<1>1. Raises(<<>>, cache', onces', SomeErased')
  BY RaisesNone
<1>2. Raising
  BY <1>1, QueueTypes DEF Raising
<1>3. Informs(mainQueue', View(cache', writes'))
  BY DEF ToldInv
<1> QED
  BY <1>2, <1>3, Informed

LEMMA OnListenResponseRaises ==
  ASSUME TypeInv, ConnInv, ToldInv, AlertInv, OnListenResponse
  PROVE  Raising /\ ToldInv'
<1>1. /\ cache' = cache /\ onces' = onces /\ observers' = observers /\ told' = told /\ erased' = erased
  BY DEF OnListenResponse, heard
<1>2. AckPuts(conn.toAck)
  BY OnListenResponseDoes, OnListenResponseKeeps
<1>3. SomeErased' = SomeErased
  BY <1>1 DEF SomeErased
<1> QED
  BY <1>1, <1>2, <1>3, ConnTypes, AckPutsRaises DEF AlertInv, AnswersTrue

LEMMA OnPutResponseRaises ==
  ASSUME TypeInv, ConnInv, ToldInv, AlertInv, OnPutResponse
  PROVE  Raising /\ ToldInv'
<1> DEFINE m == conn.toClient[1]
           a == [id |-> m.id, ok |-> m.ok]
<1>1. /\ cache' = cache /\ onces' = onces /\ observers' = observers /\ told' = told /\ erased' = erased
  BY DEF OnPutResponse, heard
<1>2. /\ m.msg = "put" /\ a \in Ack /\ Len(conn.toClient) >= 1
      /\ AckPuts(<<a>>) \/ (writes' = writes /\ mainQueue' = mainQueue)
  BY OnPutResponseDoes
<1>3. SomeErased' = SomeErased
  BY <1>1 DEF SomeErased
<1>4. m.ok => SomeErased
  BY <1>2, ConnTypes DEF AlertInv, AnswersTrue, Messages, Reply
<1>5. CASE AckPuts(<<a>>)
  <2>1. a.ok => SomeErased
    BY <1>4
  <2> HIDE DEF a
  <2>2. <<a>> \in Seq(Ack) /\ \A i \in 1..Len(<<a>>) : <<a>>[i].ok => SomeErased
    BY <1>2, <2>1
  <2> QED
    BY <1>1, <1>3, <1>5, <2>2, AckPutsRaises
<1>6. CASE writes' = writes /\ mainQueue' = mainQueue
  BY <1>1, <1>6, NothingRaised
<1> QED
  BY <1>2, <1>5, <1>6


-----------------------------------------------------------------------------
(* What the answers under way say, and what the client may yet be told.    *)

(* The answers the client has and gets are those it had, shifted.          *)
LEMMA AnswersStay ==
  ASSUME TypeInv, AnswersTrue, SomeErased => SomeErased',
         \A i \in 1..Len(conn'.toAck) : conn'.toAck[i].ok =>
            \/ SomeErased'
            \/ \E j \in 1..Len(conn.toAck) : conn'.toAck[i] = conn.toAck[j]
            \/ \E j \in Messages : Reply(j) /\ conn.toClient[j].ok,
         \A i \in Messages' : Reply(i)' /\ conn'.toClient[i].ok =>
            SomeErased' \/ \E j \in Messages : conn'.toClient[i] = conn.toClient[j]
  PROVE  AnswersTrue'
BY DEF AnswersTrue, Reply

(* A step that executes no removal leaves what was removed.                *)
LEMMA ErasedSame ==
  ASSUME erased' = erased
  PROVE  SomeErased' <=> SomeErased
BY DEF SomeErased

LEMMA SameAnswersTrue ==
  ASSUME TypeInv, AnswersTrue, conn'.toAck = conn.toAck, conn'.toClient = conn.toClient, erased' = erased
  PROVE  AnswersTrue' /\ (SomeErased => SomeErased')
BY ErasedSame DEF AnswersTrue, Messages, Reply

LEMMA OnDisconnectTrue ==
  ASSUME TypeInv, AnswersTrue, OnDisconnect
  PROVE  AnswersTrue' /\ (SomeErased => SomeErased')
<1>1. conn'.toAck = conn.toAck /\ conn'.toClient = <<>> /\ erased' = erased
  BY OnDisconnectDoes
<1> QED
  BY <1>1, ErasedSame DEF AnswersTrue, Messages

LEMMA AnswersListenTrue ==
  ASSUME TypeInv, AnswersTrue, ServerAnswersListen
  PROVE  AnswersTrue' /\ (SomeErased => SomeErased')
<1>0. PICK n : n = Len(conn.toClient)
  OBVIOUS
<1>1. /\ conn'.toAck = conn.toAck /\ erased' = erased
      /\ Longer(conn.toClient, conn'.toClient, 2)
      /\ conn'.toClient[n + 1] = [msg |-> "data", value |-> server.value]
      /\ conn'.toClient[n + 2] = [msg |-> "listening"]
  BY <1>0, AnswersListenDoes DEF SameSession
<1>2. \A i \in Messages' : \/ i \in Messages /\ conn'.toClient[i] = conn.toClient[i]
                           \/ i = n + 1 \/ i = n + 2
  BY <1>0, <1>1, LongerIndices DEF Messages
<1>3. ~Reply(n + 1)' /\ ~Reply(n + 2)'
  BY <1>1 DEF Reply
<1> QED
  BY <1>1, <1>2, <1>3, ErasedSame, AnswersStay

LEMMA OthersWriteTrue ==
  ASSUME TypeInv, AnswersTrue, OthersWrite
  PROVE  AnswersTrue' /\ (SomeErased => SomeErased')
<1>0. PICK n : n = Len(conn.toClient)
  OBVIOUS
<1>1. /\ conn'.toAck = conn.toAck /\ erased' = erased
      /\ \/ /\ Longer(conn.toClient, conn'.toClient, 1)
            /\ conn'.toClient[n + 1] = [msg |-> "data", value |-> server.last + 1]
         \/ conn'.toClient = conn.toClient
  BY <1>0, OthersWriteDoes DEF SameSession
<1>2. CASE /\ Longer(conn.toClient, conn'.toClient, 1)
           /\ conn'.toClient[n + 1] = [msg |-> "data", value |-> server.last + 1]
  <2>1. \A i \in Messages' : (i \in Messages /\ conn'.toClient[i] = conn.toClient[i]) \/ i = n + 1
    BY <1>0, <1>2, LongerIndices DEF Messages
  <2>2. ~Reply(n + 1)'
    BY <1>2 DEF Reply
  <2> QED
    BY <1>1, <2>1, <2>2, ErasedSame, AnswersStay
<1>3. CASE conn'.toClient = conn.toClient
  BY <1>1, <1>3, SameAnswersTrue
<1> QED
  BY <1>1, <1>2, <1>3

LEMMA TakesPutTrue ==
  ASSUME TypeInv, AnswersTrue, ServerTakesPut
  PROVE  AnswersTrue' /\ (SomeErased => SomeErased')
<1>0. PICK w, n : w = conn.toServer[1].id /\ n = Len(conn.toClient)
  OBVIOUS
<1>1. /\ conn'.toAck = conn.toAck /\ w \in Removals
      /\ \/ /\ Longer(conn.toClient, conn'.toClient, 2)
            /\ conn'.toClient[n + 1] = [msg |-> "data", value |-> Removed]
            /\ erased' = [erased EXCEPT ![w] = server.last]
         \/ /\ Longer(conn.toClient, conn'.toClient, 1)
            /\ erased' = [erased EXCEPT ![w] = server.last]
         \/ /\ Longer(conn.toClient, conn'.toClient, 1)
            /\ conn'.toClient[n + 1] = [msg |-> "put", id |-> w, ok |-> FALSE]
            /\ erased' = erased
  BY <1>0, TakesPutDoes DEF SameSession
<1>2. CASE erased' = [erased EXCEPT ![w] = server.last]
  <2>1. erased'[w] # Unknown
    BY <1>1, <1>2, ConnTypes, Bounds DEF TypeInv
  <2>2. SomeErased'
    BY <1>1, <2>1 DEF SomeErased
  <2> QED
    BY <2>2 DEF AnswersTrue
<1>3. CASE /\ Longer(conn.toClient, conn'.toClient, 1)
           /\ conn'.toClient[n + 1] = [msg |-> "put", id |-> w, ok |-> FALSE]
           /\ erased' = erased
  <2>1. \A i \in Messages' : (i \in Messages /\ conn'.toClient[i] = conn.toClient[i]) \/ i = n + 1
    BY <1>0, <1>3, LongerIndices DEF Messages
  <2>2. conn'.toClient[n + 1].ok = FALSE
    BY <1>3
  <2> QED
    BY <1>1, <1>3, <2>1, <2>2, ErasedSame, AnswersStay
<1> QED
  BY <1>1, <1>2, <1>3

(* What remains to be received was to be received before.                  *)
LEMMA ShrunkAnswers ==
  ASSUME TypeInv, conn' \in Connection, Shrunk(conn.toClient, conn'.toClient)
  PROVE  \A i \in Messages' : \E j \in Messages : conn'.toClient[i] = conn.toClient[j]
BY PrimedTypes, ShrunkIndices DEF Messages

LEMMA OnDataUpdateTrue ==
  ASSUME TypeInv, AnswersTrue, OnDataUpdate
  PROVE  AnswersTrue' /\ (SomeErased => SomeErased')
<1>1. /\ conn' \in Connection /\ Shrunk(conn.toClient, conn'.toClient) /\ conn'.toAck = conn.toAck
      /\ erased' = erased
  BY OnDataUpdateDoes DEF SameRequests
<1> QED
  BY <1>1, ErasedSame, ShrunkAnswers, AnswersStay

LEMMA OnListenResponseTrue ==
  ASSUME TypeInv, AnswersTrue, OnListenResponse
  PROVE  AnswersTrue' /\ (SomeErased => SomeErased')
<1>1. /\ conn' \in Connection /\ Shrunk(conn.toClient, conn'.toClient)
      /\ erased' = erased /\ (conn'.toAck = <<>> \/ conn'.toAck = conn.toAck)
  BY OnListenResponseDoes DEF SameRequests
<1>2. \A i \in 1..Len(conn'.toAck) : \E j \in 1..Len(conn.toAck) : conn'.toAck[i] = conn.toAck[j]
  BY <1>1
<1> QED
  BY <1>1, <1>2, ErasedSame, ShrunkAnswers, AnswersStay

LEMMA OnPutResponseTrue ==
  ASSUME TypeInv, AnswersTrue, OnPutResponse
  PROVE  AnswersTrue' /\ (SomeErased => SomeErased')
<1> DEFINE m == conn.toClient[1]
           a == [id |-> m.id, ok |-> m.ok]
           n == Len(conn.toAck)
<1>1. /\ conn' \in Connection /\ Shrunk(conn.toClient, conn'.toClient) /\ erased' = erased
      /\ m.msg = "put" /\ Len(conn.toClient) >= 1 /\ a \in Ack
      /\ conn'.toAck = conn.toAck \/ conn'.toAck = Append(conn.toAck, a)
  BY OnPutResponseDoes DEF SameRequests
<1>2. 1 \in Messages /\ Reply(1)
  BY <1>1, ConnTypes DEF Messages, Reply
<1>3. ASSUME NEW i \in 1..Len(conn'.toAck), conn'.toAck[i].ok
      PROVE  \/ \E j \in 1..Len(conn.toAck) : conn'.toAck[i] = conn.toAck[j]
             \/ m.ok
  <2>1. CASE conn'.toAck = conn.toAck
    BY <1>3, <2>1
  <2>2. CASE conn'.toAck = Append(conn.toAck, a)
    <3>1. a.ok = m.ok
      OBVIOUS
    <3> HIDE DEF a
    <3>2. /\ Len(conn'.toAck) = n + 1 /\ conn'.toAck[n + 1] = a /\ n \in Nat
          /\ \A j \in 1..n : conn'.toAck[j] = conn.toAck[j]
      BY <1>1, <2>2, ConnTypes, AppendProperties
    <3>3. i \in 1..n \/ i = n + 1
      BY <3>2
    <3> QED
      BY <1>3, <3>1, <3>2, <3>3
  <2> QED
    BY <1>1, <2>1, <2>2
<1> QED
  BY <1>1, <1>2, <1>3, ErasedSame, ShrunkAnswers, AnswersStay

-----------------------------------------------------------------------------
(* The values raised to the main queue come in order.                      *)

Tell(j) == mainQueue[j].block = "value"
Blocks == 1..Len(mainQueue)
RisingInv ==
  /\ \A i, j \in Blocks : i < j /\ Tell(i) /\ Tell(j) => Above(mainQueue[j].value, mainQueue[i].value)
  /\ \A j \in Blocks : Tell(j) => /\ Reported(mainQueue[j].value)
                                  /\ \A h \in Handles : Above(mainQueue[j].value, newest[h])
  /\ \A h \in Handles : Reported(newest[h]) /\ told[h] <= newest[h]

(* A step that raises what it may keeps this.                              *)
LEMMA RaisingRises ==
  ASSUME TypeInv, RisingInv, Raising, FlowInv', \A u \in Values : Reported(u) => Reported(u)',
         told' = told, newest' = newest, conn' \in Connection,
         cache' \in {Unknown} \union Values, server'.last \in Values
  PROVE  RisingInv' /\ mainQueue' \in Seq(Block)
<1>1. PICK e : mainQueue' = mainQueue \o e /\ Raises(e, cache', onces', SomeErased')
  BY DEF Raising
<1> DEFINE n == Len(mainQueue)
<1>2. e \in Seq(Block) /\ mainQueue \in Seq(Block) /\ n \in Nat /\ Len(e) \in Nat
  BY <1>1 DEF Raises, TypeInv
<1>3. /\ mainQueue' \in Seq(Block) /\ Len(mainQueue') = n + Len(e)
      /\ \A i \in 1..(n + Len(e)) : mainQueue'[i] = IF i <= n THEN mainQueue[i] ELSE e[i - n]
  BY <1>1, <1>2, ConcatProperties
<1>4. /\ Values \subseteq Int /\ cache' \in Int /\ server'.last >= 0 /\ server'.last \in Int
      /\ \A v \in Values : 0 <= v
  BY Bounds DEF Unknown
<1>5. Reported(Removed)'
  <2>1. ASSUME NEW k \in Messages', Data(k)' PROVE conn'.toClient[k].value \in Values
    <3>1. conn'.toClient[k] \in ToClient
      BY PrimedTypes DEF Messages
    <3> QED
      BY <2>1, <3>1, MessageKinds DEF Data
  <2>2. cache' # Unknown => 0 <= cache'
    BY Bounds
  <2> QED
    BY <1>4, <2>1, <2>2 DEF Reported, Above, Removed
<1>6. cache' # Unknown => Reported(cache)'
  BY <1>4 DEF Reported, Above, FlowInv
<1>7. ASSUME NEW i \in Blocks'
      PROVE  \/ i \in Blocks /\ i <= n /\ mainQueue'[i] = mainQueue[i] /\ (Tell(i)' <=> Tell(i))
             \/ i \notin Blocks /\ i > n /\ (Tell(i)' => mainQueue'[i].value \in {Removed, cache'} /\ cache' # Unknown)
  <2>1. i \in Int /\ 1 <= i /\ i <= n + Len(e)
    BY <1>2, <1>3 DEF Blocks
  <2>2. CASE i <= n
    BY <1>2, <1>3, <2>1, <2>2 DEF Blocks, Tell
  <2>3. CASE ~(i <= n)
    <3>1. i - n \in 1..Len(e) /\ mainQueue'[i] = e[i - n] /\ i \notin Blocks /\ i > n
      BY <1>2, <1>3, <2>1, <2>3 DEF Blocks
    <3>2. Raisable(e[i - n], cache', onces', SomeErased')
      BY <1>1, <3>1 DEF Raises
    <3> QED
      BY <3>1, <3>2 DEF Raisable, Tell
  <2> QED
    BY <2>2, <2>3
<1>8. \A i \in Blocks : Tell(i) => mainQueue[i].value \in Values
  BY <1>2, BlockKinds DEF Blocks, Tell
<1>9. \A h \in Handles : newest[h] \in Values
  BY DEF TypeInv
<1>10. \A h \in Handles : Reported(newest[h])' /\ told'[h] <= newest'[h]
  <2>1. ASSUME NEW h \in Handles PROVE Reported(newest[h])' /\ told'[h] <= newest'[h]
    <3> DEFINE u == newest[h]
    <3>1. u \in Values /\ Reported(u) /\ told[h] <= u
      BY <1>9 DEF RisingInv
    <3>2. PICK x \in Values : x = u
      BY <3>1
    <3>3. Reported(x)'
      BY <3>1, <3>2
    <3>4. newest'[h] = x
      BY <3>2
    <3> QED
      BY <3>1, <3>2, <3>3, <3>4 DEF Reported
  <2> QED
    BY <2>1
<1>11. ASSUME NEW i \in Blocks, Tell(i) PROVE Reported(mainQueue[i].value)' \/ mainQueue'[i] # mainQueue[i]
  <2>1. PICK x \in Values : x = mainQueue[i].value
    BY <1>8, <1>11
  <2>2. Reported(x)'
    BY <1>11, <2>1 DEF RisingInv
  <2> QED
    BY <2>1, <2>2 DEF Reported
<1>12. ASSUME NEW j \in Blocks', Tell(j)' PROVE Reported(mainQueue[j].value)'
  <2>1. CASE j \in Blocks /\ mainQueue'[j] = mainQueue[j] /\ Tell(j)
    BY <1>11, <2>1
  <2>2. CASE mainQueue'[j].value \in {Removed, cache'} /\ cache' # Unknown
    BY <1>5, <1>6, <2>2 DEF Reported, Removed
  <2> QED
    BY <1>7, <1>12, <2>1, <2>2
<1>13. ASSUME NEW j \in Blocks', Tell(j)', j \notin Blocks, NEW u \in Values, cache' # Unknown => Above(cache', u)
       PROVE  Above(mainQueue'[j].value, u)
  BY <1>7, <1>13 DEF Above
<1>14. ASSUME NEW j \in Blocks', Tell(j)', NEW h \in Handles PROVE Above(mainQueue'[j].value, newest'[h])
  <2>1. CASE j \in Blocks
    BY <1>7, <1>14, <2>1 DEF RisingInv
  <2>2. CASE j \notin Blocks
    <3>1. cache' # Unknown => Above(cache', newest'[h])
      BY <1>10 DEF Reported, Above
    <3> QED
      BY <1>9, <1>13, <1>14, <2>2, <3>1
  <2> QED
    BY <2>1, <2>2
<1>15. ASSUME NEW i \in Blocks', NEW j \in Blocks', i < j, Tell(i)', Tell(j)'
       PROVE  Above(mainQueue'[j].value, mainQueue'[i].value)
  <2>1. CASE j \in Blocks
    <3>1. i \in Blocks
      BY <1>2, <1>3, <1>15, <2>1 DEF Blocks
    <3> QED
      BY <1>7, <1>15, <2>1, <3>1 DEF RisingInv
  <2>2. CASE j \notin Blocks
    <3>1. mainQueue'[i] \in Block
      BY <1>3 DEF Blocks
    <3>2. mainQueue'[i].value \in Values
      BY <1>15, <3>1, BlockKinds DEF Tell
    <3>3. cache' # Unknown => Above(cache', mainQueue'[i].value)
      BY <1>12, <1>15 DEF Reported, Above
    <3> QED
      BY <1>13, <1>15, <2>2, <3>2, <3>3
  <2> QED
    BY <2>1, <2>2
<1> QED
  BY <1>3, <1>10, <1>12, <1>14, <1>15 DEF RisingInv, Above


-----------------------------------------------------------------------------
(* What is dispatched to the client.                                       *)

Calls == 1..Len(dbQueue)

(* Every appearance so far has an observer, or its call is on the way.     *)
RegInv ==
  \A h \in Handles :
    h <= refHandle <=> h \in observers \/ \E i \in Calls : dbQueue[i].op = "observe" /\ dbQueue[i].id = h

(* Only reads that were asked for are on their way, or answered.           *)
ReadInv ==
  /\ \A i \in Calls : dbQueue[i].op = "once" => dbQueue[i].id <= reads
  /\ \A r \in onces : r <= reads
  /\ \A i \in Blocks : Tell(i) => \A r \in mainQueue[i].reads : r <= reads
  /\ \A r \in Reads : r > reads => answered[r] = 0

IInv == TypeInv /\ ConnInv /\ RegInv /\ ReadInv /\ FreshInv /\ ToldInv /\ RisingInv /\ AlertInv

(* A step that leaves the dispatched calls where they are.                 *)
LEMMA CallsStay ==
  ASSUME TypeInv, RegInv, ReadInv, FreshInv, dbQueue' = dbQueue, observers' = observers, onces' = onces,
         refHandle' = refHandle, reads' = reads, removals' = removals,
         writes' \subseteq writes,
         \A w \in Removals : erased'[w] = erased[w] \/ w \in writes
  PROVE  /\ RegInv' /\ FreshInv' /\ dbQueue' \in Seq(Call)
         /\ \A i \in Calls' : dbQueue'[i].op = "once" => dbQueue'[i].id <= reads
         /\ \A r \in onces' : r <= reads
<1>1. Calls' = Calls
  BY DEF Calls
<1>2. RegInv'
  BY <1>1 DEF RegInv
<1>3. \A i \in 1..Len(dbQueue) : Removes(i) => dbQueue[i].id \in Removals
  <2>1. \A i \in 1..Len(dbQueue) : dbQueue[i] \in Call
    BY DEF TypeInv
  <2> QED
    BY <2>1, CallKinds DEF Removes
<1>4. FreshInv'
  BY <1>3 DEF FreshInv, Removes
<1> QED
  BY <1>1, <1>2, <1>4 DEF ReadInv, TypeInv

(* A step that takes a call from the front of the queue. *)
LEMMA CallTaken ==
  ASSUME TypeInv, NEW op, Op(op)
  PROVE  /\ \A i \in Calls' : i + 1 \in Calls /\ i + 1 # 1 /\ dbQueue'[i] = dbQueue[i + 1]
         /\ \A i \in Calls : i = 1 \/ (i - 1 \in Calls' /\ dbQueue'[i - 1] = dbQueue[i])
         /\ 1 \in Calls /\ dbQueue[1].op = op /\ Head(dbQueue) = dbQueue[1]
         /\ dbQueue' \in Seq(Call) /\ \A i, j \in Calls' : i + 1 = j + 1 => i = j
<1>1. /\ dbQueue' \in Seq(Call) /\ Shrunk(dbQueue, dbQueue') /\ dbQueue[1].op = op /\ Len(dbQueue') \in Nat
      /\ Head(dbQueue) = dbQueue[1]
  BY OpDoes
<1>2. \A i, j \in Calls' : i + 1 = j + 1 => i = j
  BY DEF Calls
<1> QED
  BY <1>1, <1>2, ShrunkIndices DEF Calls

(* What such a step leaves dispatched is still new to the client.          *)
LEMMA FreshAfter ==
  ASSUME TypeInv, FreshInv, NEW op, Op(op), removals' = removals, erased' = erased,
         writes' = writes \/ (op = "remove" /\ writes' = writes \union {dbQueue[1].id})
  PROVE  FreshInv'
<1>0. PICK w : w = dbQueue[1].id
  OBVIOUS
<1>1. /\ \A i \in Calls' : i + 1 \in Calls /\ i + 1 # 1 /\ dbQueue'[i] = dbQueue[i + 1]
      /\ 1 \in Calls /\ dbQueue[1].op = op /\ \A i, j \in Calls' : i + 1 = j + 1 => i = j
  BY CallTaken
<1>2. /\ \A i \in Calls : Removes(i) =>
            dbQueue[i].id <= removals /\ dbQueue[i].id \notin writes /\ erased[dbQueue[i].id] = Unknown
      /\ \A i, j \in Calls : Removes(i) /\ Removes(j) /\ dbQueue[i].id = dbQueue[j].id => i = j
      /\ \A v \in Removals : v > removals => v \notin writes /\ erased[v] = Unknown
  BY DEF FreshInv, Calls
<1>3. op = "remove" => Removes(1) /\ w <= removals /\ w \in Int /\ removals \in Int
  <2>1. op = "remove" => Removes(1)
    BY <1>1 DEF Removes
  <2>2. op = "remove" => w \in Removals
    BY <1>0, <1>1, OpDoes, CallKinds
  <2>3. removals \in Int
    BY Bounds DEF TypeInv
  <2> QED
    BY <1>0, <1>1, <1>2, <2>1, <2>2, <2>3, Bounds
<1>4. ASSUME NEW i \in Calls', Removes(i)'
      PROVE  /\ i + 1 \in Calls /\ Removes(i + 1) /\ dbQueue'[i].id = dbQueue[i + 1].id
             /\ op = "remove" => dbQueue[i + 1].id # w
  <2>1. i + 1 \in Calls /\ Removes(i + 1) /\ dbQueue'[i] = dbQueue[i + 1] /\ i + 1 # 1
    BY <1>1, <1>4 DEF Removes
  <2> QED
    BY <1>0, <1>1, <1>2, <1>3, <2>1
<1>5. \A i \in Calls' : Removes(i)' => /\ dbQueue'[i].id <= removals' /\ dbQueue'[i].id \notin writes'
                                       /\ erased'[dbQueue'[i].id] = Unknown
  BY <1>0, <1>2, <1>4
<1>6. ASSUME NEW i \in Calls', NEW j \in Calls', Removes(i)', Removes(j)', dbQueue'[i].id = dbQueue'[j].id
      PROVE  i = j
  <2>1. i + 1 = j + 1
    BY <1>2, <1>4, <1>6
  <2> QED
    BY <1>1, <2>1
<1>7. ASSUME NEW v \in Removals, v > removals' PROVE v \notin writes' /\ erased'[v] = Unknown
  <2>1. op = "remove" => v # w
    BY <1>3, <1>7, Bounds
  <2> QED
    BY <1>0, <1>2, <1>7, <2>1
<1> QED
  BY <1>5, <1>6, <1>7 DEF FreshInv, Calls

(* A step that leaves the data and the connection alone. *)
LEMMA ConnStays ==
  ASSUME ConnInv, observers' = observers, cache' = cache, writes' = writes, conn' = conn, server' = server,
         erased' = erased
  PROVE  /\ ConnInv' /\ (AnswersTrue => AnswersTrue') /\ (SomeErased => SomeErased')
         /\ \A u \in Values : Reported(u) => Reported(u)'
<1>2. Requests' = Requests /\ Messages' = Messages /\ Held' = Held /\ Asking' = Asking /\ Answered' = Answered
  BY DEF Requests, Messages, Held, AckedIds, Asking, Answered, Listen, Answer
<1>3. PutInv'
  BY <1>2 DEF ConnInv, PutInv, Put, Reply
<1>4. SessionInv'
  BY <1>2 DEF ConnInv, SessionInv, Listen, Answer, Reply, Data
<1>5. LatestInv' /\ ServerInv' /\ FlowInv' /\ \A u \in Values : Reported(u) => Reported(u)'
  BY <1>2 DEF ConnInv, LatestInv, ServerInv, Stale, FlowInv, Reported, Above, Data
<1>6. ErasedInv'
  BY <1>2 DEF ConnInv, ErasedInv, NoneStale, StaleAt, CuredBefore, Cures, Stale, Data, Answer, Reply
<1>7. (AnswersTrue => AnswersTrue') /\ (SomeErased => SomeErased')
  BY <1>2 DEF AnswersTrue, SomeErased, Reply
<1> QED
  BY <1>3, <1>4, <1>5, <1>6, <1>7 DEF ConnInv

(* A step that leaves the client and the connection alone. *)
LEMMA ClientStays ==
  ASSUME ConnInv, UNCHANGED <<client, conn, server, erased>>
  PROVE  /\ ConnInv' /\ (AnswersTrue => AnswersTrue') /\ (SomeErased => SomeErased')
         /\ \A u \in Values : Reported(u) => Reported(u)'
         /\ observers' = observers /\ onces' = onces /\ cache' = cache /\ writes' = writes
         /\ conn' = conn /\ server' = server /\ erased' = erased
<1>1. /\ observers' = observers /\ onces' = onces /\ cache' = cache /\ writes' = writes
      /\ conn' = conn /\ server' = server /\ erased' = erased
  BY DEF client
<1> QED
  BY <1>1, ConnStays

(* A step of the client, the connection or the service: what is raised may *)
(* be raised, and the rest keeps its invariants.                           *)
LEMMA ClientStep ==
  ASSUME IInv, ConnInv', \A u \in Values : Reported(u) => Reported(u)',
         AnswersTrue', SomeErased => SomeErased', Raising, ToldInv', UNCHANGED <<app, heard>>,
         conn' \in Connection, cache' \in {Unknown} \union Values,
         server' \in [value : Values, last : Values], erased' \in [Removals -> {Unknown} \union Values],
         observers' \in SUBSET Handles, onces' \in SUBSET Reads, writes' \in SUBSET Removals,
         dbQueue' \in Seq(Call), RegInv', FreshInv',
         \A i \in Calls' : dbQueue'[i].op = "once" => dbQueue'[i].id <= reads,
         \A r \in onces' : r <= reads
  PROVE  IInv'
<1>1. /\ screen' = screen /\ refHandle' = refHandle /\ reads' = reads /\ removals' = removals /\ alert' = alert
      /\ told' = told /\ newest' = newest /\ answered' = answered /\ completed' = completed
  BY DEF app, heard
<1>2. server'.last \in Values
  OBVIOUS
<1>3. RisingInv' /\ mainQueue' \in Seq(Block)
  BY <1>1, <1>2, RaisingRises DEF IInv, ConnInv
<1>4. TypeInv'
  BY <1>1, <1>3 DEF IInv, TypeInv
<1>5. PICK e : mainQueue' = mainQueue \o e /\ Raises(e, cache', onces', SomeErased')
  BY DEF Raising
<1> DEFINE n == Len(mainQueue)
<1>6. e \in Seq(Block) /\ mainQueue \in Seq(Block) /\ n \in Nat /\ Len(e) \in Nat
  BY <1>5 DEF Raises, IInv, TypeInv
<1>7. /\ Len(mainQueue') = n + Len(e)
      /\ \A i \in 1..(n + Len(e)) : mainQueue'[i] = IF i <= n THEN mainQueue[i] ELSE e[i - n]
  BY <1>5, <1>6, ConcatProperties
<1>8. ASSUME NEW i \in Blocks'
      PROVE  \/ i \in Blocks /\ mainQueue'[i] = mainQueue[i]
             \/ Raisable(mainQueue'[i], cache', onces', SomeErased')
  <2>1. i \in Int /\ 1 <= i /\ i <= n + Len(e)
    BY <1>6, <1>7 DEF Blocks
  <2>2. CASE i <= n
    BY <1>6, <1>7, <2>1, <2>2 DEF Blocks
  <2>3. CASE ~(i <= n)
    <3>1. i - n \in 1..Len(e) /\ mainQueue'[i] = e[i - n]
      BY <1>6, <1>7, <2>1, <2>3
    <3> QED
      BY <1>5, <3>1 DEF Raises
  <2> QED
    BY <2>2, <2>3
<1>9. ReadInv'
  <2>1. ASSUME NEW i \in Blocks', Tell(i)', NEW r \in mainQueue'[i].reads PROVE r <= reads
    <3>1. CASE i \in Blocks /\ mainQueue'[i] = mainQueue[i]
      BY <2>1, <3>1 DEF IInv, ReadInv, Tell
    <3>2. CASE Raisable(mainQueue'[i], cache', onces', SomeErased')
      BY <2>1, <3>2 DEF Raisable, Tell
    <3> QED
      BY <1>8, <3>1, <3>2
  <2> QED
    BY <1>1, <2>1 DEF IInv, ReadInv
<1>10. AlertInv'
  <2>1. ASSUME NEW i \in Blocks', mainQueue'[i].block = "done", mainQueue'[i].ok PROVE SomeErased'
    <3>1. CASE i \in Blocks /\ mainQueue'[i] = mainQueue[i]
      BY <2>1, <3>1 DEF IInv, AlertInv, Blocks
    <3>2. CASE Raisable(mainQueue'[i], cache', onces', SomeErased')
      BY <2>1, <3>2 DEF Raisable
    <3> QED
      BY <1>8, <3>1, <3>2
  <2> QED
    BY <1>1, <2>1 DEF IInv, AlertInv, Blocks
<1> QED
  BY <1>3, <1>4, <1>9, <1>10 DEF IInv


-----------------------------------------------------------------------------
(* Each step keeps the invariant.                                          *)

LEMMA IInvTypes ==
  ASSUME IInv
  PROVE  /\ TypeInv /\ ConnInv /\ RegInv /\ ReadInv /\ FreshInv /\ ToldInv /\ RisingInv /\ AlertInv /\ AnswersTrue
         /\ observers \in SUBSET Handles /\ onces \in SUBSET Reads /\ writes \in SUBSET Removals
         /\ cache \in {Unknown} \union Values /\ server \in [value : Values, last : Values]
         /\ erased \in [Removals -> {Unknown} \union Values] /\ conn \in Connection
         /\ dbQueue \in Seq(Call) /\ mainQueue \in Seq(Block) /\ \A r \in onces : r <= reads
         /\ \A i \in Calls : dbQueue[i] \in Call
BY DEF IInv, TypeInv, AlertInv, ReadInv, Calls

LEMMA AddObserverStep ==
  ASSUME IInv, AddObserver
  PROVE  IInv'
<1>1. /\ onces' = onces /\ cache' = cache /\ writes' = writes /\ server' = server /\ erased' = erased
      /\ UNCHANGED <<app, heard>> /\ refHandle' = refHandle /\ removals' = removals
  BY DEF AddObserver, app
<1>2. /\ conn' \in Connection /\ conn'.toAck = conn.toAck /\ conn'.toClient = conn.toClient
      /\ observers' = observers \union {dbQueue[1].id} /\ dbQueue[1].id \in Handles
  BY IInvTypes, AddObserverDoes DEF SameAnswers
<1>3. ConnInv' /\ \A u \in Values : Reported(u) => Reported(u)'
  BY IInvTypes, AddObserverKeeps
<1>4. Raising /\ ToldInv'
  BY IInvTypes, AddObserverRaises
<1>5. AnswersTrue' /\ (SomeErased => SomeErased')
  BY <1>1, <1>2, IInvTypes, SameAnswersTrue
<1>6. /\ \A i \in Calls' : i + 1 \in Calls /\ i + 1 # 1 /\ dbQueue'[i] = dbQueue[i + 1]
      /\ \A i \in Calls : i = 1 \/ (i - 1 \in Calls' /\ dbQueue'[i - 1] = dbQueue[i])
      /\ 1 \in Calls /\ dbQueue[1].op = "observe"
      /\ dbQueue' \in Seq(Call) /\ \A i, j \in Calls' : i + 1 = j + 1 => i = j
  BY IInvTypes, CallTaken DEF AddObserver
<1>7. RegInv'
  <2>1. ASSUME NEW h \in Handles
        PROVE  (h \in observers \/ \E i \in Calls : dbQueue[i].op = "observe" /\ dbQueue[i].id = h)
               <=> (h \in observers' \/ \E i \in Calls' : dbQueue'[i].op = "observe" /\ dbQueue'[i].id = h)
    BY <1>2, <1>6
  <2> QED
    BY <1>1, <2>1, IInvTypes DEF RegInv
<1>8. FreshInv'
  BY <1>1, IInvTypes, FreshAfter DEF AddObserver
<1>9. \A i \in Calls' : dbQueue'[i].op = "once" => dbQueue'[i].id <= reads
  BY <1>6, IInvTypes DEF ReadInv
<1>10. observers' \in SUBSET Handles
  BY <1>2, IInvTypes
<1> QED
  BY <1>1, <1>2, <1>3, <1>4, <1>5, <1>6, <1>7, <1>8, <1>9, <1>10, IInvTypes, ClientStep

LEMMA AddOnceStep ==
  ASSUME IInv, AddOnce
  PROVE  IInv'
<1>1. /\ cache' = cache /\ writes' = writes /\ server' = server /\ erased' = erased /\ conn' = conn
      /\ observers' = observers
      /\ UNCHANGED <<app, heard>> /\ refHandle' = refHandle /\ removals' = removals
  BY DEF AddOnce, app
<1>2. /\ Raising /\ ToldInv' /\ onces' = onces \union {dbQueue[1].id} /\ dbQueue[1].id \in Reads
  BY IInvTypes, AddOnceRaises
<1>3. ConnInv' /\ (\A u \in Values : Reported(u) => Reported(u)') /\ AnswersTrue' /\ (SomeErased => SomeErased')
  BY <1>1, IInvTypes, ConnStays
<1>4. /\ \A i \in Calls' : i + 1 \in Calls /\ i + 1 # 1 /\ dbQueue'[i] = dbQueue[i + 1]
      /\ \A i \in Calls : i = 1 \/ (i - 1 \in Calls' /\ dbQueue'[i - 1] = dbQueue[i])
      /\ 1 \in Calls /\ dbQueue[1].op = "once"
      /\ dbQueue' \in Seq(Call) /\ \A i, j \in Calls' : i + 1 = j + 1 => i = j
  BY IInvTypes, CallTaken DEF AddOnce
<1>5. RegInv'
  <2>1. ASSUME NEW h \in Handles
        PROVE  (h \in observers \/ \E i \in Calls : dbQueue[i].op = "observe" /\ dbQueue[i].id = h)
               <=> (h \in observers' \/ \E i \in Calls' : dbQueue'[i].op = "observe" /\ dbQueue'[i].id = h)
    BY <1>1, <1>4
  <2> QED
    BY <1>1, <2>1, IInvTypes DEF RegInv
<1>6. FreshInv'
  BY <1>1, IInvTypes, FreshAfter DEF AddOnce
<1>7. /\ \A i \in Calls' : dbQueue'[i].op = "once" => dbQueue'[i].id <= reads
      /\ \A r \in onces' : r <= reads
  BY <1>2, <1>4, IInvTypes DEF ReadInv
<1>8. onces' \in SUBSET Reads
  BY <1>2, IInvTypes
<1> QED
  BY <1>1, <1>2, <1>3, <1>4, <1>5, <1>6, <1>7, <1>8, IInvTypes, ClientStep

LEMMA RemoveOnceStep ==
  ASSUME IInv, RemoveOnce
  PROVE  IInv'
<1>1. /\ cache' = cache /\ writes' = writes /\ server' = server /\ erased' = erased /\ conn' = conn
      /\ observers' = observers /\ mainQueue' = mainQueue /\ onces' \subseteq onces /\ told' = told
      /\ UNCHANGED <<app, heard>> /\ refHandle' = refHandle /\ removals' = removals
  BY DEF RemoveOnce, app, heard
<1>2. Raising /\ ToldInv'
  <2>1. Raises(<<>>, cache', onces', SomeErased')
    BY RaisesNone
  <2>2. Raising
    BY <1>1, <2>1, IInvTypes, QueueTypes DEF Raising
  <2>3. Informs(mainQueue', View(cache', writes'))
    BY <1>1, IInvTypes DEF ToldInv
  <2> QED
    BY <1>1, <2>2, <2>3, Informed
<1>3. ConnInv' /\ (\A u \in Values : Reported(u) => Reported(u)') /\ AnswersTrue' /\ (SomeErased => SomeErased')
  BY <1>1, IInvTypes, ConnStays
<1>4. /\ \A i \in Calls' : i + 1 \in Calls /\ i + 1 # 1 /\ dbQueue'[i] = dbQueue[i + 1]
      /\ \A i \in Calls : i = 1 \/ (i - 1 \in Calls' /\ dbQueue'[i - 1] = dbQueue[i])
      /\ 1 \in Calls /\ dbQueue[1].op = "removeOnce"
      /\ dbQueue' \in Seq(Call) /\ \A i, j \in Calls' : i + 1 = j + 1 => i = j
  BY IInvTypes, CallTaken DEF RemoveOnce
<1>5. RegInv'
  <2>1. ASSUME NEW h \in Handles
        PROVE  (h \in observers \/ \E i \in Calls : dbQueue[i].op = "observe" /\ dbQueue[i].id = h)
               <=> (h \in observers' \/ \E i \in Calls' : dbQueue'[i].op = "observe" /\ dbQueue'[i].id = h)
    BY <1>1, <1>4
  <2> QED
    BY <1>1, <2>1, IInvTypes DEF RegInv
<1>6. FreshInv'
  BY <1>1, IInvTypes, FreshAfter DEF RemoveOnce
<1>7. /\ \A i \in Calls' : dbQueue'[i].op = "once" => dbQueue'[i].id <= reads
      /\ \A r \in onces' : r <= reads
  BY <1>1, <1>4, IInvTypes DEF ReadInv
<1>8. onces' \in SUBSET Reads
  BY <1>1, IInvTypes
<1> QED
  BY <1>1, <1>2, <1>3, <1>4, <1>5, <1>6, <1>7, <1>8, IInvTypes, ClientStep

LEMMA RemoveValueStep ==
  ASSUME IInv, RemoveValue
  PROVE  IInv'
<1>0. PICK w : w = dbQueue[1].id
  OBVIOUS
<1>1. /\ cache' = cache /\ onces' = onces /\ server' = server /\ erased' = erased /\ observers' = observers
      /\ UNCHANGED <<app, heard>> /\ refHandle' = refHandle /\ removals' = removals
  BY DEF RemoveValue, app
<1>2. /\ conn' \in Connection /\ conn'.toAck = conn.toAck /\ conn'.toClient = conn.toClient
      /\ writes' = writes \union {w} /\ w \in Removals
  BY <1>0, IInvTypes, RemoveValueDoes DEF SameAnswers
<1>3. ConnInv' /\ \A u \in Values : Reported(u) => Reported(u)'
  BY IInvTypes, RemoveValueKeeps
<1>4. Raising /\ ToldInv'
  BY IInvTypes, RemoveValueRaises
<1>5. AnswersTrue' /\ (SomeErased => SomeErased')
  BY <1>1, <1>2, IInvTypes, SameAnswersTrue
<1>6. /\ \A i \in Calls' : i + 1 \in Calls /\ i + 1 # 1 /\ dbQueue'[i] = dbQueue[i + 1]
      /\ \A i \in Calls : i = 1 \/ (i - 1 \in Calls' /\ dbQueue'[i - 1] = dbQueue[i])
      /\ 1 \in Calls /\ dbQueue[1].op = "remove"
      /\ dbQueue' \in Seq(Call) /\ \A i, j \in Calls' : i + 1 = j + 1 => i = j
  BY IInvTypes, CallTaken DEF RemoveValue
<1>7. RegInv'
  <2>1. ASSUME NEW h \in Handles
        PROVE  (h \in observers \/ \E i \in Calls : dbQueue[i].op = "observe" /\ dbQueue[i].id = h)
               <=> (h \in observers' \/ \E i \in Calls' : dbQueue'[i].op = "observe" /\ dbQueue'[i].id = h)
    BY <1>1, <1>6
  <2> QED
    BY <1>1, <2>1, IInvTypes DEF RegInv
<1>8. FreshInv'
  BY <1>0, <1>1, <1>2, IInvTypes, FreshAfter DEF RemoveValue
<1>9. \A i \in Calls' : dbQueue'[i].op = "once" => dbQueue'[i].id <= reads
  BY <1>6, IInvTypes DEF ReadInv
<1>10. writes' \in SUBSET Removals
  BY <1>2, IInvTypes
<1> QED
  BY <1>1, <1>2, <1>3, <1>4, <1>5, <1>6, <1>7, <1>8, <1>9, <1>10, IInvTypes, ClientStep


(* A step of the connection or the service: nothing is raised, and what    *)
(* the app dispatched stays where it is.                                   *)
LEMMA ServiceStep ==
  ASSUME IInv, ConnInv', \A u \in Values : Reported(u) => Reported(u)',
         AnswersTrue', SomeErased => SomeErased', UNCHANGED <<app, mainQueue, dbQueue, client, heard>>,
         conn' \in Connection, server' \in [value : Values, last : Values],
         erased' \in [Removals -> {Unknown} \union Values],
         \A w \in Removals : erased'[w] = erased[w] \/ w \in writes
  PROVE  IInv'
<1>1. /\ mainQueue' = mainQueue /\ dbQueue' = dbQueue /\ observers' = observers /\ onces' = onces
      /\ cache' = cache /\ writes' = writes /\ told' = told /\ UNCHANGED <<app, heard>>
      /\ refHandle' = refHandle /\ reads' = reads /\ removals' = removals
  BY DEF client, heard, app
<1>2. Raising /\ ToldInv'
  BY <1>1, IInvTypes, NothingRaised
<1>3. /\ RegInv' /\ FreshInv' /\ dbQueue' \in Seq(Call)
      /\ \A i \in Calls' : dbQueue'[i].op = "once" => dbQueue'[i].id <= reads
      /\ \A r \in onces' : r <= reads
  BY <1>1, IInvTypes, CallsStay
<1> QED
  BY <1>1, <1>2, <1>3, IInvTypes, ClientStep

LEMMA OnReadyStep ==
  ASSUME IInv, OnReady
  PROVE  IInv'
<1>1. /\ conn' \in Connection /\ conn'.toAck = conn.toAck /\ conn'.toClient = conn.toClient
      /\ server' = server /\ erased' = erased
  BY IInvTypes, OnReadyDoes, Zenon DEF ConnInv
<1>2. AnswersTrue' /\ (SomeErased => SomeErased')
  BY <1>1, IInvTypes, SameAnswersTrue
<1>3. UNCHANGED <<app, mainQueue, dbQueue, client, heard>>
  BY DEF OnReady, app, client, heard
<1> QED
  BY <1>1, <1>2, <1>3, IInvTypes, OnReadyKeeps, ServiceStep

LEMMA OnDisconnectStep ==
  ASSUME IInv, OnDisconnect
  PROVE  IInv'
<1>1. conn' \in Connection /\ server' = server /\ erased' = erased
  BY IInvTypes, OnDisconnectDoes
<1>2. UNCHANGED <<app, mainQueue, dbQueue, client, heard>>
  BY DEF OnDisconnect, app, client, heard
<1> QED
  BY <1>1, <1>2, IInvTypes, OnDisconnectTrue, OnDisconnectKeeps, ServiceStep

LEMMA ServerTakesListenStep ==
  ASSUME IInv, ServerTakesListen
  PROVE  IInv'
<1>1. /\ conn' \in Connection /\ conn'.toAck = conn.toAck /\ conn'.toClient = conn.toClient
      /\ server' = server /\ erased' = erased
  BY IInvTypes, TakesListenDoes
<1>2. AnswersTrue' /\ (SomeErased => SomeErased')
  BY <1>1, IInvTypes, SameAnswersTrue
<1>3. UNCHANGED <<app, mainQueue, dbQueue, client, heard>>
  BY DEF ServerTakesListen, app, client, heard
<1> QED
  BY <1>1, <1>2, <1>3, IInvTypes, TakesListenKeeps, ServiceStep

LEMMA ServerAnswersListenStep ==
  ASSUME IInv, ServerAnswersListen
  PROVE  IInv'
<1>1. conn' \in Connection /\ server' = server /\ erased' = erased
  BY IInvTypes, AnswersListenDoes
<1>2. UNCHANGED <<app, mainQueue, dbQueue, client, heard>>
  BY DEF ServerAnswersListen, app, client, heard
<1> QED
  BY <1>1, <1>2, IInvTypes, AnswersListenTrue, AnswersListenKeeps, ServiceStep

LEMMA ServerTakesPutStep ==
  ASSUME IInv, ServerTakesPut
  PROVE  IInv'
<1>0. PICK w : w = conn.toServer[1].id
  OBVIOUS
<1>1. /\ conn' \in Connection /\ w \in Removals /\ conn.toServer[1].req = "put" /\ Len(conn.toServer) >= 1
      /\ server' = server \/ server' = [server EXCEPT !.value = Removed]
      /\ erased' = erased \/ erased' = [erased EXCEPT ![w] = server.last]
  BY <1>0, IInvTypes, TakesPutDoes
<1>2. server.last \in Values /\ Removed \in Values
  BY IInvTypes, ConnTypes, Bounds
<1>3. server' \in [value : Values, last : Values]
  BY <1>1, <1>2, IInvTypes
<1>4. erased' \in [Removals -> {Unknown} \union Values]
  BY <1>1, <1>2, IInvTypes
<1>5. w \in writes
  <2>1. 1 \in Requests /\ Put(1)
    BY <1>1, IInvTypes, ConnTypes DEF Requests, Put
  <2> QED
    BY <1>0, <2>1, IInvTypes DEF ConnInv, PutInv
<1>6. \A v \in Removals : erased'[v] = erased[v] \/ v \in writes
  BY <1>1, <1>5, IInvTypes
<1>7. UNCHANGED <<app, mainQueue, dbQueue, client, heard>>
  BY DEF ServerTakesPut, app, client, heard
<1> QED
  BY <1>1, <1>3, <1>4, <1>6, <1>7, IInvTypes, TakesPutTrue, TakesPutKeeps, ServiceStep

LEMMA OthersWriteStep ==
  ASSUME IInv, OthersWrite
  PROVE  IInv'
<1>1. /\ conn' \in Connection /\ erased' = erased
      /\ server' = [value |-> server.last + 1, last |-> server.last + 1] /\ server.last < MaxOthers
  BY IInvTypes, OthersWriteDoes
<1>2. server.last + 1 \in Values
  BY <1>1, IInvTypes, ConnTypes, Bounds
<1>3. server' \in [value : Values, last : Values]
  BY <1>1, <1>2
<1>4. UNCHANGED <<app, mainQueue, dbQueue, client, heard>>
  BY DEF OthersWrite, app, client, heard
<1> QED
  BY <1>1, <1>3, <1>4, IInvTypes, OthersWriteTrue, OthersWriteKeeps, ServiceStep

-----------------------------------------------------------------------------
(* What the client receives. *)

LEMMA OnDataUpdateStep ==
  ASSUME IInv, OnDataUpdate
  PROVE  IInv'
<1>1. /\ dbQueue' = dbQueue /\ observers' = observers /\ onces' = onces /\ writes' = writes
      /\ UNCHANGED <<app, heard>> /\ server' = server /\ erased' = erased
      /\ refHandle' = refHandle /\ reads' = reads /\ removals' = removals
  BY DEF OnDataUpdate, app
<1>2. conn' \in Connection /\ cache' \in {Unknown} \union Values
  BY IInvTypes, OnDataUpdateDoes
<1>3. /\ RegInv' /\ FreshInv' /\ dbQueue' \in Seq(Call)
      /\ \A i \in Calls' : dbQueue'[i].op = "once" => dbQueue'[i].id <= reads
      /\ \A r \in onces' : r <= reads
  BY <1>1, IInvTypes, CallsStay
<1>4. Raising /\ ToldInv'
  BY IInvTypes, OnDataUpdateRaises
<1> QED
  BY <1>1, <1>2, <1>3, <1>4, IInvTypes, OnDataUpdateTrue, OnDataUpdateKeeps, ClientStep

LEMMA OnListenResponseStep ==
  ASSUME IInv, OnListenResponse
  PROVE  IInv'
<1>1. /\ dbQueue' = dbQueue /\ observers' = observers /\ onces' = onces /\ cache' = cache
      /\ UNCHANGED <<app, heard>> /\ server' = server /\ erased' = erased
      /\ refHandle' = refHandle /\ reads' = reads /\ removals' = removals
  BY DEF OnListenResponse, app
<1>2. conn' \in Connection /\ writes' \subseteq writes
  BY IInvTypes, OnListenResponseDoes DEF AckPuts
<1>3. /\ RegInv' /\ FreshInv' /\ dbQueue' \in Seq(Call)
      /\ \A i \in Calls' : dbQueue'[i].op = "once" => dbQueue'[i].id <= reads
      /\ \A r \in onces' : r <= reads
  BY <1>1, <1>2, IInvTypes, CallsStay
<1>4. Raising /\ ToldInv' /\ writes' \in SUBSET Removals
  BY <1>2, IInvTypes, OnListenResponseRaises
<1> QED
  BY <1>1, <1>2, <1>3, <1>4, IInvTypes, OnListenResponseTrue, OnListenResponseKeeps, ClientStep

LEMMA OnPutResponseStep ==
  ASSUME IInv, OnPutResponse
  PROVE  IInv'
<1>1. /\ dbQueue' = dbQueue /\ observers' = observers /\ onces' = onces /\ cache' = cache
      /\ UNCHANGED <<app, heard>> /\ server' = server /\ erased' = erased
      /\ refHandle' = refHandle /\ reads' = reads /\ removals' = removals
  BY DEF OnPutResponse, app
<1>2. conn' \in Connection /\ writes' \subseteq writes
  BY IInvTypes, OnPutResponseDoes DEF AckPuts
<1>3. /\ RegInv' /\ FreshInv' /\ dbQueue' \in Seq(Call)
      /\ \A i \in Calls' : dbQueue'[i].op = "once" => dbQueue'[i].id <= reads
      /\ \A r \in onces' : r <= reads
  BY <1>1, <1>2, IInvTypes, CallsStay
<1>4. Raising /\ ToldInv' /\ writes' \in SUBSET Removals
  BY <1>2, IInvTypes, OnPutResponseRaises
<1> QED
  BY <1>1, <1>2, <1>3, <1>4, IInvTypes, OnPutResponseTrue, OnPutResponseKeeps, ClientStep


-----------------------------------------------------------------------------
(* What the screen does. *)

LEMMA CallAdded ==
  ASSUME TypeInv, NEW c \in Call, dbQueue' = Append(dbQueue, c)
  PROVE  /\ dbQueue' \in Seq(Call)
         /\ \E k : /\ k \notin Calls /\ Calls' = Calls \union {k} /\ dbQueue'[k] = c
                   /\ \A i \in Calls : dbQueue'[i] = dbQueue[i]
<1> DEFINE t == Append(dbQueue, c)
           n == Len(dbQueue)
<1>1. /\ t \in Seq(Call) /\ Len(t) = n + 1 /\ n \in Nat /\ t[n + 1] = c
      /\ \A i \in 1..n : t[i] = dbQueue[i]
  BY AppendProperties DEF TypeInv
<1>2. n + 1 \notin 1..n /\ 1..(n + 1) = 1..n \union {n + 1}
  BY <1>1
<1> QED
  BY <1>1, <1>2 DEF Calls

(* A call that is neither an observation nor a removal, or that the client *)
(* has not seen yet, leaves what is dispatched in order.                   *)
LEMMA RegFreshAdded ==
  ASSUME IInv, NEW c \in Call, dbQueue' = Append(dbQueue, c), writes' = writes, erased' = erased,
         observers' = observers,
         IF c.op = "observe" THEN refHandle' = refHandle + 1 /\ c.id = refHandle'
         ELSE refHandle' = refHandle,
         IF c.op = "remove" THEN removals' = removals + 1 /\ c.id = removals'
         ELSE removals' = removals
  PROVE  RegInv' /\ FreshInv' /\ dbQueue' \in Seq(Call)
<1>1. PICK k : /\ k \notin Calls /\ Calls' = Calls \union {k} /\ dbQueue'[k] = c
               /\ \A i \in Calls : dbQueue'[i] = dbQueue[i]
  BY IInvTypes, CallAdded
<1>2. refHandle \in Int /\ removals \in Int
  BY IInvTypes, Bounds DEF TypeInv
<1>3. RegInv'
  <2>1. ASSUME NEW h \in Handles
        PROVE  (\E i \in Calls' : dbQueue'[i].op = "observe" /\ dbQueue'[i].id = h)
               <=> \/ \E i \in Calls : dbQueue[i].op = "observe" /\ dbQueue[i].id = h
                   \/ c.op = "observe" /\ c.id = h
    BY <1>1
  <2>2. ASSUME NEW h \in Handles
        PROVE  h <= refHandle' <=> h <= refHandle \/ (c.op = "observe" /\ c.id = h)
    BY <1>2, Bounds
  <2> QED
    BY <2>1, <2>2, IInvTypes DEF RegInv
<1>4. /\ \A i \in Calls : Removes(i) => /\ dbQueue[i].id <= removals /\ dbQueue[i].id \in Int
                                        /\ dbQueue[i].id \notin writes /\ erased[dbQueue[i].id] = Unknown
      /\ \A i, j \in Calls : Removes(i) /\ Removes(j) /\ dbQueue[i].id = dbQueue[j].id => i = j
      /\ \A v \in Removals : v > removals => v \notin writes /\ erased[v] = Unknown
  <2>1. \A i \in Calls : Removes(i) => dbQueue[i].id \in Int
    BY IInvTypes, CallKinds, Bounds DEF Removes
  <2> QED
    BY <2>1, IInvTypes DEF FreshInv, Calls
<1>5. \A i \in Calls' : Removes(i)' => \/ i \in Calls /\ Removes(i) /\ dbQueue'[i] = dbQueue[i]
                                       \/ i = k /\ c.op = "remove" /\ dbQueue'[i] = c
  BY <1>1 DEF Removes
<1>6. c.op = "remove" => c.id \in Removals /\ c.id > removals
  BY <1>2, CallKinds
<1>7. ASSUME NEW i \in Calls', Removes(i)'
      PROVE  dbQueue'[i].id <= removals' /\ dbQueue'[i].id \notin writes' /\ erased'[dbQueue'[i].id] = Unknown
  <2>1. CASE i \in Calls /\ Removes(i) /\ dbQueue'[i] = dbQueue[i]
    BY <1>2, <1>4, <2>1
  <2>2. CASE i = k /\ c.op = "remove" /\ dbQueue'[i] = c
    BY <1>2, <1>4, <1>6, <2>2
  <2> QED
    BY <1>5, <1>7, <2>1, <2>2
<1>8. ASSUME NEW i \in Calls', NEW j \in Calls', Removes(i)', Removes(j)', dbQueue'[i].id = dbQueue'[j].id
      PROVE  i = j
  <2>1. ASSUME NEW a \in Calls, Removes(a), c.op = "remove" PROVE dbQueue[a].id # c.id
    BY <1>2, <1>4, <1>6, <2>1
  <2> QED
    BY <1>4, <1>5, <1>8, <2>1
<1>9. \A v \in Removals : v > removals' => v \notin writes' /\ erased'[v] = Unknown
  BY <1>2, <1>4, Bounds
<1> QED
  BY <1>3, <1>7, <1>8, <1>9, IInvTypes, CallAdded DEF FreshInv, Calls

(* What the screen leaves alone. *)
LEMMA ScreenStays ==
  ASSUME IInv, UNCHANGED <<mainQueue, client, conn, server, heard, erased>>, alert' => alert
  PROVE  /\ ConnInv' /\ ToldInv' /\ RisingInv' /\ AlertInv'
         /\ mainQueue' = mainQueue /\ observers' = observers /\ onces' = onces /\ cache' = cache
         /\ writes' = writes /\ conn' = conn /\ server' = server /\ erased' = erased
         /\ told' = told /\ newest' = newest /\ answered' = answered /\ completed' = completed
<1>1. /\ mainQueue' = mainQueue /\ observers' = observers /\ onces' = onces /\ cache' = cache
      /\ writes' = writes /\ conn' = conn /\ server' = server /\ erased' = erased
      /\ told' = told /\ newest' = newest /\ answered' = answered /\ completed' = completed
  BY DEF client, heard
<1>2. ConnInv' /\ AnswersTrue' /\ (SomeErased => SomeErased')
  BY <1>1, IInvTypes, ConnStays
<1>3. ToldInv'
  BY <1>1, IInvTypes, NothingRaised
<1>4. Messages' = Messages
  BY <1>1 DEF Messages
<1>5. RisingInv'
  BY <1>1, <1>4, IInvTypes DEF RisingInv, Blocks, Tell, Above, Reported, Data
<1>6. AlertInv'
  BY <1>1, <1>2, IInvTypes DEF AlertInv
<1> QED
  BY <1>1, <1>2, <1>3, <1>5, <1>6

(* A step of the screen: it may dispatch one call.                         *)
LEMMA ScreenStep ==
  ASSUME IInv, UNCHANGED <<mainQueue, client, conn, server, heard, erased>>, alert' => alert,
         screen' \in {"hidden", "appearing", "shown", "leaving"}, alert' \in BOOLEAN,
         refHandle' \in 0..MaxAppearances, reads' \in 0..MaxReads, removals' \in 0..MaxRemovals,
         reads <= reads', RegInv', FreshInv', dbQueue' \in Seq(Call),
         \A i \in Calls' : dbQueue'[i].op = "once" =>
            dbQueue'[i].id <= reads' \/ (i \in Calls /\ dbQueue'[i] = dbQueue[i])
  PROVE  IInv'
<1>1. /\ ConnInv' /\ ToldInv' /\ RisingInv' /\ AlertInv'
      /\ mainQueue' = mainQueue /\ observers' = observers /\ onces' = onces /\ cache' = cache
      /\ writes' = writes /\ conn' = conn /\ server' = server /\ erased' = erased
      /\ told' = told /\ newest' = newest /\ answered' = answered /\ completed' = completed
  BY ScreenStays
<1>2. TypeInv'
  BY <1>1, IInvTypes DEF TypeInv
<1>3. reads \in Int /\ reads' \in Int /\ Reads \subseteq Int
  BY IInvTypes, Bounds DEF TypeInv
<1>4. \A r \in Int : (r <= reads => r <= reads') /\ (r > reads' => r > reads)
  BY <1>3
<1>5. \A i \in Calls' : dbQueue'[i].op = "once" => dbQueue'[i].id <= reads'
  <2>1. ASSUME NEW i \in Calls, dbQueue[i].op = "once" PROVE dbQueue[i].id <= reads'
    BY <1>3, <1>4, <2>1, IInvTypes, CallKinds DEF ReadInv
  <2> QED
    BY <2>1
<1>6. \A r \in onces : r <= reads'
  BY <1>3, <1>4, IInvTypes
<1>7. \A i \in Blocks : Tell(i) => \A r \in mainQueue[i].reads : r <= reads'
  <2>1. ASSUME NEW i \in Blocks, Tell(i), NEW r \in mainQueue[i].reads PROVE r <= reads'
    <3>1. mainQueue[i] \in Block
      BY IInvTypes DEF Blocks
    <3>2. r \in Reads
      BY <2>1, <3>1, BlockKinds DEF Tell
    <3> QED
      BY <1>3, <1>4, <2>1, <3>2, IInvTypes DEF ReadInv
  <2> QED
    BY <2>1
<1>8. \A r \in Reads : r > reads' => answered[r] = 0
  BY <1>3, <1>4, IInvTypes DEF ReadInv
<1>9. ReadInv'
  BY <1>1, <1>5, <1>6, <1>7, <1>8 DEF ReadInv, Blocks, Tell
<1> QED
  BY <1>1, <1>2, <1>9 DEF IInv

(* The taps and appearances.                                               *)
LEMMA viewWillAppearStep ==
  ASSUME IInv, viewWillAppear
  PROVE  IInv'
<1> DEFINE c == [op |-> "observe", id |-> refHandle + 1]
<1>1. /\ UNCHANGED <<mainQueue, client, conn, server, heard, erased>> /\ alert' = alert
      /\ reads' = reads /\ removals' = removals /\ refHandle' = refHandle + 1
      /\ screen' = "appearing" /\ refHandle < MaxAppearances /\ dbQueue' = Append(dbQueue, c)
      /\ writes' = writes /\ observers' = observers /\ erased' = erased
  BY DEF viewWillAppear, client
<1>2. refHandle \in 0..MaxAppearances /\ reads \in 0..MaxReads /\ removals \in 0..MaxRemovals /\ alert \in BOOLEAN
  BY IInvTypes DEF TypeInv
<1>3. refHandle' \in 0..MaxAppearances /\ refHandle + 1 \in Handles
  BY <1>1, <1>2, Bounds DEF Handles
<1>4. c \in Call /\ c.op = "observe" /\ c.id = refHandle + 1
  BY <1>3 DEF Call
<1> HIDE DEF c
<1>5. RegInv' /\ FreshInv' /\ dbQueue' \in Seq(Call)
  BY <1>1, <1>4, RegFreshAdded
<1>6. \A i \in Calls' : dbQueue'[i].op = "once" => i \in Calls /\ dbQueue'[i] = dbQueue[i]
  <2>1. PICK k : Calls' = Calls \union {k} /\ dbQueue'[k] = c /\ \A i \in Calls : dbQueue'[i] = dbQueue[i]
    BY <1>1, <1>4, IInvTypes, CallAdded
  <2> QED
    BY <1>4, <2>1
<1>7. reads <= reads' /\ (alert' => alert) /\ alert' \in BOOLEAN /\ reads' \in 0..MaxReads
      /\ screen' \in {"hidden", "appearing", "shown", "leaving"}
  BY <1>1, <1>2
<1> QED
  BY <1>1, <1>2, <1>3, <1>5, <1>6, <1>7, ScreenStep

LEMMA pressBtnStep ==
  ASSUME IInv, pressBtn
  PROVE  IInv'
<1> DEFINE c == [op |-> "once", id |-> reads + 1]
<1>1. /\ UNCHANGED <<mainQueue, client, conn, server, heard, erased>> /\ alert' = alert
      /\ reads' = reads + 1 /\ removals' = removals /\ refHandle' = refHandle
      /\ screen' = screen /\ reads < MaxReads /\ dbQueue' = Append(dbQueue, c)
      /\ writes' = writes /\ observers' = observers /\ erased' = erased
  BY DEF pressBtn, client
<1>2. /\ refHandle \in 0..MaxAppearances /\ reads \in 0..MaxReads /\ removals \in 0..MaxRemovals /\ alert \in BOOLEAN
      /\ screen \in {"hidden", "appearing", "shown", "leaving"}
  BY IInvTypes DEF TypeInv
<1>3. reads' \in 0..MaxReads /\ reads + 1 \in Reads
  BY <1>1, <1>2, Bounds DEF Reads
<1>4. c \in Call /\ c.op = "once" /\ c.id = reads + 1
  BY <1>3 DEF Call
<1> HIDE DEF c
<1>5. RegInv' /\ FreshInv' /\ dbQueue' \in Seq(Call)
  BY <1>1, <1>4, RegFreshAdded
<1>6. \A i \in Calls' : (i \in Calls /\ dbQueue'[i] = dbQueue[i]) \/ dbQueue'[i].id = reads + 1
  <2>1. PICK k : Calls' = Calls \union {k} /\ dbQueue'[k] = c /\ \A i \in Calls : dbQueue'[i] = dbQueue[i]
    BY <1>1, <1>4, IInvTypes, CallAdded
  <2> QED
    BY <1>4, <2>1
<1>7. /\ reads <= reads' /\ reads + 1 <= reads' /\ (alert' => alert) /\ alert' \in BOOLEAN
      /\ screen' \in {"hidden", "appearing", "shown", "leaving"}
  BY <1>1, <1>2
<1> QED
  BY <1>1, <1>2, <1>3, <1>5, <1>6, <1>7, ScreenStep

LEMMA removeDataStep ==
  ASSUME IInv, removeData
  PROVE  IInv'
<1> DEFINE c == [op |-> "remove", id |-> removals + 1]
<1>1. /\ UNCHANGED <<mainQueue, client, conn, server, heard, erased>> /\ alert' = alert
      /\ reads' = reads /\ removals' = removals + 1 /\ refHandle' = refHandle
      /\ screen' = screen /\ removals < MaxRemovals /\ dbQueue' = Append(dbQueue, c)
      /\ writes' = writes /\ observers' = observers /\ erased' = erased
  BY DEF removeData, client
<1>2. /\ refHandle \in 0..MaxAppearances /\ reads \in 0..MaxReads /\ removals \in 0..MaxRemovals /\ alert \in BOOLEAN
      /\ screen \in {"hidden", "appearing", "shown", "leaving"}
  BY IInvTypes DEF TypeInv
<1>3. removals' \in 0..MaxRemovals /\ removals + 1 \in Removals
  BY <1>1, <1>2, Bounds DEF Removals
<1>4. c \in Call /\ c.op = "remove" /\ c.id = removals + 1
  BY <1>3 DEF Call
<1> HIDE DEF c
<1>5. RegInv' /\ FreshInv' /\ dbQueue' \in Seq(Call)
  BY <1>1, <1>4, RegFreshAdded
<1>6. \A i \in Calls' : dbQueue'[i].op = "once" => i \in Calls /\ dbQueue'[i] = dbQueue[i]
  <2>1. PICK k : Calls' = Calls \union {k} /\ dbQueue'[k] = c /\ \A i \in Calls : dbQueue'[i] = dbQueue[i]
    BY <1>1, <1>4, IInvTypes, CallAdded
  <2> QED
    BY <1>4, <2>1
<1>7. reads <= reads' /\ (alert' => alert) /\ alert' \in BOOLEAN /\ reads' \in 0..MaxReads
      /\ screen' \in {"hidden", "appearing", "shown", "leaving"}
  BY <1>1, <1>2
<1> QED
  BY <1>1, <1>2, <1>3, <1>5, <1>6, <1>7, ScreenStep

(* The rest of the screen dispatches nothing. *)
LEMMA LifecycleStep ==
  ASSUME IInv, DidAppear \/ WillDisappear \/ viewDidDisappear \/ DismissAlert
  PROVE  IInv'
<1>1. /\ UNCHANGED <<mainQueue, client, conn, server, heard, erased>> /\ (alert' = alert \/ alert' = FALSE)
      /\ reads' = reads /\ removals' = removals /\ refHandle' = refHandle /\ dbQueue' = dbQueue
      /\ screen' \in {"appearing", "shown", "leaving", "hidden", screen}
      /\ writes' = writes /\ observers' = observers /\ onces' = onces /\ erased' = erased
  BY DEF DidAppear, WillDisappear, viewDidDisappear, DismissAlert, Lifecycle, client
<1>2. /\ refHandle \in 0..MaxAppearances /\ reads \in 0..MaxReads /\ removals \in 0..MaxRemovals /\ alert \in BOOLEAN
      /\ screen \in {"hidden", "appearing", "shown", "leaving"}
  BY IInvTypes DEF TypeInv
<1>3. /\ RegInv' /\ FreshInv' /\ dbQueue' \in Seq(Call)
      /\ \A i \in Calls' : dbQueue'[i].op = "once" => dbQueue'[i].id <= reads
  BY <1>1, IInvTypes, CallsStay
<1>4. reads <= reads' /\ screen' \in {"hidden", "appearing", "shown", "leaving"}
  BY <1>1, <1>2
<1>5. (alert' => alert) /\ alert' \in BOOLEAN
  <2>1. CASE alert' = alert
    BY <1>2, <2>1, Zenon
  <2>2. CASE alert' = FALSE
    BY <2>2, Zenon
  <2> QED
    BY <1>1, <2>1, <2>2, Zenon
<1> QED
  BY <1>1, <1>2, <1>3, <1>4, <1>5, ScreenStep

(* And when nothing happens.                                               *)
LEMMA StutterStep ==
  ASSUME IInv, UNCHANGED vars
  PROVE  IInv'
<1>1. /\ UNCHANGED <<mainQueue, client, conn, server, heard, erased>> /\ alert' = alert
      /\ reads' = reads /\ removals' = removals /\ refHandle' = refHandle /\ dbQueue' = dbQueue
      /\ screen' = screen
      /\ writes' = writes /\ observers' = observers /\ onces' = onces /\ erased' = erased
  BY DEF vars, app, client
<1>2. /\ refHandle \in 0..MaxAppearances /\ reads \in 0..MaxReads /\ removals \in 0..MaxRemovals /\ alert \in BOOLEAN
      /\ screen \in {"hidden", "appearing", "shown", "leaving"}
  BY IInvTypes DEF TypeInv
<1>3. /\ RegInv' /\ FreshInv' /\ dbQueue' \in Seq(Call)
      /\ \A i \in Calls' : dbQueue'[i].op = "once" => dbQueue'[i].id <= reads
  BY <1>1, IInvTypes, CallsStay
<1>4. reads <= reads'
  BY <1>1, <1>2
<1> QED
  BY <1>1, <1>2, <1>3, <1>4, ScreenStep


-----------------------------------------------------------------------------
(* What the main thread runs. *)

LEMMA BlockTaken ==
  ASSUME TypeInv, mainQueue # <<>>, mainQueue' = Tail(mainQueue)
  PROVE  /\ \A i \in Blocks' : /\ i + 1 \in Blocks /\ 1 < i + 1 /\ mainQueue'[i] = mainQueue[i + 1]
                               /\ Tell(i)' <=> Tell(i + 1)
         /\ \A i \in Blocks : i = 1 \/ (i - 1 \in Blocks' /\ mainQueue'[i - 1] = mainQueue[i])
         /\ 1 \in Blocks /\ Head(mainQueue) = mainQueue[1] /\ mainQueue[1] \in Block
         /\ mainQueue' \in Seq(Block) /\ Blocks \subseteq Int /\ Blocks' \subseteq Int
         /\ \A i, j \in Blocks' : i < j => i + 1 < j + 1
         /\ \A i, j \in Blocks : i < j => i - 1 < j - 1
         /\ \A i \in Blocks', k \in Blocks : k - 1 < i => k < i + 1
<1>1. /\ mainQueue' \in Seq(Block) /\ Shrunk(mainQueue, mainQueue') /\ Head(mainQueue) = mainQueue[1]
      /\ mainQueue[1] \in Block /\ Len(mainQueue') \in Nat
  BY TailShrunk DEF TypeInv
<1>2. /\ \A i \in Blocks' : i + 1 \in Blocks /\ mainQueue'[i] = mainQueue[i + 1]
      /\ \A i \in Blocks : i = 1 \/ (i - 1 \in Blocks' /\ mainQueue'[i - 1] = mainQueue[i])
      /\ 1 \in Blocks
  BY <1>1, ShrunkIndices DEF Blocks
<1>3. /\ Blocks \subseteq Int /\ Blocks' \subseteq Int /\ \A i \in Blocks' : 1 < i + 1
  BY DEF Blocks
<1>4. /\ \A i, j \in Blocks' : i < j => i + 1 < j + 1
      /\ \A i, j \in Blocks : i < j => i - 1 < j - 1
      /\ \A i \in Blocks', k \in Blocks : k - 1 < i => k < i + 1
  BY <1>3
<1> QED
  BY <1>1, <1>2, <1>3, <1>4 DEF Tell

(* What the observers hear when the first block runs. *)
Hears ==
  /\ told' = [h \in Handles |-> IF Tells(mainQueue, 1, h) THEN mainQueue[1].value ELSE told[h]]
  /\ newest' = [h \in Handles |-> IF told'[h] > newest[h] THEN told'[h] ELSE newest[h]]

LEMMA HearsTypes ==
  ASSUME TypeInv, Hears, mainQueue # <<>>, mainQueue' = Tail(mainQueue)
  PROVE  /\ told' \in [Handles -> {Unknown} \union Values] /\ newest' \in [Handles -> Values]
         /\ \A h \in Handles : /\ Tells(mainQueue, 1, h) => told'[h] = mainQueue[1].value /\ told'[h] \in Values
                               /\ ~Tells(mainQueue, 1, h) => told'[h] = told[h]
                               /\ newest'[h] = IF told'[h] > newest[h] THEN told'[h] ELSE newest[h]
<1>1. /\ told \in [Handles -> {Unknown} \union Values] /\ newest \in [Handles -> Values]
  BY DEF TypeInv
<1>2. \A h \in Handles : Tells(mainQueue, 1, h) => mainQueue[1].value \in Values
  BY BlockTaken, BlockKinds DEF Tells
<1>3. told' \in [Handles -> {Unknown} \union Values]
  BY <1>1, <1>2 DEF Hears
<1>4. ASSUME NEW h \in Handles
      PROVE  /\ Tells(mainQueue, 1, h) => told'[h] = mainQueue[1].value /\ told'[h] \in Values
             /\ ~Tells(mainQueue, 1, h) => told'[h] = told[h]
             /\ newest'[h] = IF told'[h] > newest[h] THEN told'[h] ELSE newest[h]
  BY <1>2 DEF Hears
<1>5. ASSUME NEW h \in Handles PROVE newest'[h] \in Values
  <2>1. newest[h] \in Values /\ newest[h] \in Int /\ newest[h] >= 0 /\ told'[h] \in {Unknown} \union Values
    BY <1>1, <1>3, Bounds
  <2>2. told'[h] > newest[h] => told'[h] \in Values
    BY <2>1 DEF Unknown
  <2> QED
    BY <1>4, <2>1, <2>2
<1>6. newest' \in [Handles -> Values]
  BY <1>5 DEF Hears
<1> QED
  BY <1>3, <1>4, <1>6

LEMMA HearsTold ==
  ASSUME IInv, Hears, mainQueue # <<>>, mainQueue' = Tail(mainQueue),
         observers' = observers, cache' = cache, writes' = writes
  PROVE  ToldInv'
<1>0. PICK v : v = View(cache, writes)
  OBVIOUS
<1>1. View(cache, writes)' = v
  BY <1>0 DEF View
<1>2. \A h \in Handles, i \in Blocks' : Tells(mainQueue', i, h) <=> Tells(mainQueue, i + 1, h)
  BY IInvTypes, BlockTaken DEF Tells
<1>3. CASE v = Unknown
  <2>1. \A i \in Blocks : mainQueue[i].block # "value"
    BY <1>0, <1>3, IInvTypes DEF ToldInv, Informs, Blocks
  <2>2. \A h \in Handles : told[h] = Unknown
    BY <1>0, <1>3, IInvTypes DEF ToldInv, Informs
  <2>3. \A i \in Blocks' : mainQueue'[i].block # "value"
    BY <2>1, IInvTypes, BlockTaken
  <2>4. \A h \in Handles : told'[h] = Unknown
    <3>1. \A h \in Handles : ~Tells(mainQueue, 1, h)
      BY <2>1, IInvTypes, BlockTaken DEF Tells
    <3> QED
      BY <2>2, <3>1, IInvTypes, HearsTypes
  <2> QED
    BY <1>1, <1>3, <2>3, <2>4 DEF ToldInv, Informs, Blocks
<1>4. CASE v # Unknown
  <2>1. ASSUME NEW h \in observers'
        PROVE  WillKnow(mainQueue, h, v)'
    <3>1. h \in Handles /\ h \in observers /\ WillKnow(mainQueue, h, v)
      BY <1>0, <1>4, <2>1, IInvTypes DEF ToldInv, Informs
    <3>2. CASE told[h] = v /\ \A i \in Blocks : ~Tells(mainQueue, i, h)
      <4>1. told'[h] = v
        BY <3>1, <3>2, IInvTypes, HearsTypes, BlockTaken
      <4>2. \A i \in Blocks' : ~Tells(mainQueue', i, h)
        BY <1>2, <3>1, <3>2, IInvTypes, BlockTaken
      <4> QED
        BY <4>1, <4>2 DEF WillKnow, Blocks, Tells
    <3>3. ASSUME NEW k \in Blocks, Tells(mainQueue, k, h), mainQueue[k].value = v,
                 \A i \in Blocks : k < i => ~Tells(mainQueue, i, h)
          PROVE  WillKnow(mainQueue, h, v)'
      <4>1. CASE k = 1
        <5>1. told'[h] = v
          BY <3>1, <3>3, <4>1, IInvTypes, HearsTypes
        <5>2. \A i \in Blocks' : ~Tells(mainQueue', i, h)
          BY <1>2, <3>1, <3>3, <4>1, IInvTypes, BlockTaken
        <5> QED
          BY <5>1, <5>2 DEF WillKnow, Blocks, Tells
      <4>2. CASE k # 1
        <5>1. k - 1 \in Blocks' /\ mainQueue'[k - 1] = mainQueue[k]
          BY <4>2, IInvTypes, BlockTaken
        <5>2. Tells(mainQueue', k - 1, h) /\ mainQueue'[k - 1].value = v
          BY <3>3, <5>1 DEF Tells
        <5>3. \A i \in Blocks' : k - 1 < i => ~Tells(mainQueue', i, h)
          BY <1>2, <3>1, <3>3, IInvTypes, BlockTaken
        <5> QED
          BY <5>1, <5>2, <5>3 DEF WillKnow, Blocks, Tells
      <4> QED
        BY <4>1, <4>2
    <3> QED
      BY <3>1, <3>2, <3>3 DEF WillKnow, Blocks
  <2> QED
    BY <1>1, <1>4, <2>1 DEF ToldInv, Informs, WillKnow, Tells
<1> QED
  BY <1>3, <1>4

LEMMA HearsRising ==
  ASSUME IInv, Hears, mainQueue # <<>>, mainQueue' = Tail(mainQueue), UNCHANGED <<client, conn, server, erased>>
  PROVE  RisingInv'
<1>1. \A i \in Blocks : Tell(i) => mainQueue[i].value \in Values
  BY IInvTypes, BlockKinds DEF Blocks, Tell
<1>2. \A h \in Handles : newest[h] \in Values /\ newest'[h] \in Values /\ told'[h] \in {Unknown} \union Values
  BY IInvTypes, HearsTypes DEF TypeInv
<1>3. \A u \in Values : Reported(u) => Reported(u)'
  BY IInvTypes, ClientStays
<1>4. ASSUME NEW h \in Handles
      PROVE  /\ newest'[h] = newest[h] \/ (Tells(mainQueue, 1, h) /\ newest'[h] = mainQueue[1].value)
             /\ told'[h] <= newest'[h]
  <2>1. newest[h] \in Int /\ told'[h] \in Int /\ told[h] <= newest[h] /\ told[h] \in Int
    BY <1>2, IInvTypes, Bounds DEF RisingInv, TypeInv, Unknown
  <2> QED
    BY <2>1, IInvTypes, HearsTypes
<1>5. ASSUME NEW h \in Handles PROVE Reported(newest[h])' /\ told'[h] <= newest'[h]
  <2>1. PICK x \in Values : x = newest'[h]
    BY <1>2
  <2>2. Reported(x)
    <3>1. Tells(mainQueue, 1, h) => Reported(mainQueue[1].value)
      BY IInvTypes, BlockTaken DEF RisingInv, Tells, Tell
    <3>2. Reported(newest[h])
      BY IInvTypes DEF RisingInv
    <3> QED
      BY <1>4, <2>1, <3>1, <3>2
  <2>3. Reported(x)'
    BY <1>3, <2>2
  <2> QED
    BY <1>4, <2>1, <2>3 DEF Reported
<1>6. ASSUME NEW j \in Blocks', Tell(j)' PROVE Reported(mainQueue[j].value)'
  <2>1. j + 1 \in Blocks /\ Tell(j + 1) /\ mainQueue'[j] = mainQueue[j + 1]
    BY <1>6, IInvTypes, BlockTaken
  <2>2. PICK x \in Values : x = mainQueue[j + 1].value
    BY <1>1, <2>1
  <2>3. Reported(x)'
    BY <1>3, <2>1, <2>2, IInvTypes DEF RisingInv
  <2> QED
    BY <2>1, <2>2, <2>3 DEF Reported
<1>7. ASSUME NEW j \in Blocks', Tell(j)', NEW h \in Handles PROVE Above(mainQueue'[j].value, newest'[h])
  <2>1. j + 1 \in Blocks /\ Tell(j + 1) /\ mainQueue'[j] = mainQueue[j + 1] /\ 1 \in Blocks /\ 1 < j + 1
    BY <1>7, IInvTypes, BlockTaken
  <2>2. Above(mainQueue[j + 1].value, newest[h])
    BY <2>1, IInvTypes DEF RisingInv
  <2>3. Tells(mainQueue, 1, h) => Above(mainQueue[j + 1].value, mainQueue[1].value)
    BY <2>1, IInvTypes DEF RisingInv, Tells, Tell
  <2> QED
    BY <1>4, <2>1, <2>2, <2>3
<1>8. ASSUME NEW i \in Blocks', NEW j \in Blocks', i < j, Tell(i)', Tell(j)'
      PROVE  Above(mainQueue'[j].value, mainQueue'[i].value)
  <2>1. /\ i + 1 \in Blocks /\ Tell(i + 1) /\ mainQueue'[i] = mainQueue[i + 1]
        /\ j + 1 \in Blocks /\ Tell(j + 1) /\ mainQueue'[j] = mainQueue[j + 1] /\ i + 1 < j + 1
    BY <1>8, IInvTypes, BlockTaken
  <2> QED
    BY <2>1, IInvTypes DEF RisingInv
<1> QED
  BY <1>5, <1>6, <1>7, <1>8 DEF RisingInv, Above


(* What a step of the main thread keeps, whatever block it runs.           *)
LEMMA MainKeeps ==
  ASSUME IInv, Hears, mainQueue # <<>>, mainQueue' = Tail(mainQueue), UNCHANGED <<client, conn, server, erased>>,
         alert' => SomeErased
  PROVE  /\ ConnInv' /\ ToldInv' /\ RisingInv' /\ AlertInv'
         /\ \A i \in Blocks' : Tell(i)' => \A r \in mainQueue'[i].reads : r <= reads
<1>1. /\ ConnInv' /\ AnswersTrue' /\ (SomeErased => SomeErased')
      /\ observers' = observers /\ cache' = cache /\ writes' = writes
  BY IInvTypes, ClientStays
<1>2. ToldInv' /\ RisingInv'
  BY <1>1, HearsTold, HearsRising
<1>3. \A i \in Blocks' : mainQueue'[i].block = "done" /\ mainQueue'[i].ok => SomeErased'
  BY <1>1, IInvTypes, BlockTaken DEF AlertInv, Blocks
<1>4. AlertInv'
  BY <1>1, <1>3 DEF AlertInv, Blocks
<1>5. \A i \in Blocks' : Tell(i)' => \A r \in mainQueue'[i].reads : r <= reads
  BY IInvTypes, BlockTaken DEF ReadInv
<1> QED
  BY <1>1, <1>2, <1>4, <1>5

LEMMA RaisedCompletionStep ==
  ASSUME IInv, RaisedCompletion
  PROVE  IInv'
<1>1. /\ mainQueue # <<>> /\ mainQueue' = Tail(mainQueue) /\ UNCHANGED <<client, conn, server, erased>>
      /\ screen' = screen /\ refHandle' = refHandle /\ reads' = reads /\ removals' = removals
      /\ dbQueue' = dbQueue /\ told' = told /\ newest' = newest /\ answered' = answered
      /\ observers' = observers /\ onces' = onces /\ writes' = writes /\ erased' = erased
      /\ cache' = cache /\ conn' = conn /\ server' = server
  BY DEF RaisedCompletion, client
<1>2. /\ Head(mainQueue) = mainQueue[1] /\ mainQueue[1] \in Block /\ 1 \in Blocks /\ mainQueue' \in Seq(Block)
  BY <1>1, IInvTypes, BlockTaken
<1>3. /\ mainQueue[1].block = "done" /\ alert' = (alert \/ (mainQueue[1].ok /\ screen # "hidden"))
      /\ completed' = completed \union {mainQueue[1].id}
  BY <1>2 DEF RaisedCompletion
<1>4. Hears
  <2>1. told \in [Handles -> {Unknown} \union Values] /\ newest \in [Handles -> Values]
    BY IInvTypes DEF TypeInv
  <2>2. \A h \in Handles : ~Tells(mainQueue, 1, h)
    BY <1>3 DEF Tells
  <2>3. ASSUME NEW h \in Handles PROVE ~(told[h] > newest[h])
    <3>1. told[h] <= newest[h]
      BY IInvTypes DEF RisingInv
    <3>2. told[h] \in Int /\ newest[h] \in Int
      BY <2>1, Bounds DEF Unknown
    <3> QED
      BY <3>1, <3>2
  <2>4. told' = [h \in Handles |-> IF Tells(mainQueue, 1, h) THEN mainQueue[1].value ELSE told[h]]
    BY <1>1, <2>1, <2>2
  <2>5. newest' = [h \in Handles |-> IF told'[h] > newest[h] THEN told'[h] ELSE newest[h]]
    BY <1>1, <2>1, <2>3
  <2> QED
    BY <2>4, <2>5 DEF Hears
<1>5. alert' => SomeErased
  BY <1>2, <1>3, IInvTypes DEF AlertInv, Blocks
<1>6. alert' \in BOOLEAN
  BY <1>3, Zenon
<1>7. /\ ConnInv' /\ ToldInv' /\ RisingInv' /\ AlertInv'
      /\ \A i \in Blocks' : Tell(i)' => \A r \in mainQueue'[i].reads : r <= reads
  BY <1>1, <1>4, <1>5, MainKeeps
<1>8. /\ RegInv' /\ FreshInv' /\ dbQueue' \in Seq(Call)
      /\ \A i \in Calls' : dbQueue'[i].op = "once" => dbQueue'[i].id <= reads
      /\ \A r \in onces' : r <= reads
  BY <1>1, IInvTypes, CallsStay
<1>9. completed' \in SUBSET Removals
  <2>1. mainQueue[1].id \in Removals /\ completed \in SUBSET Removals
    BY <1>2, <1>3, IInvTypes, BlockKinds DEF TypeInv
  <2> QED
    BY <1>3, <2>1
<1>10. TypeInv'
  BY <1>1, <1>2, <1>6, <1>9, IInvTypes DEF TypeInv
<1>11. ReadInv'
  BY <1>1, <1>7, <1>8, IInvTypes DEF ReadInv
<1> QED
  BY <1>7, <1>8, <1>10, <1>11 DEF IInv

LEMMA RaisedValueStep ==
  ASSUME IInv, RaisedValue
  PROVE  IInv'
<1> DEFINE b == mainQueue[1]
           first == FirstAnswers(b.reads)
           c == [op |-> "removeOnce", ids |-> first]
<1>1. /\ mainQueue # <<>> /\ mainQueue' = Tail(mainQueue) /\ UNCHANGED <<client, conn, server, erased>>
      /\ screen' = screen /\ refHandle' = refHandle /\ reads' = reads /\ removals' = removals /\ alert' = alert
      /\ completed' = completed
      /\ observers' = observers /\ onces' = onces /\ writes' = writes /\ erased' = erased
      /\ cache' = cache /\ conn' = conn /\ server' = server
  BY DEF RaisedValue, client, app
<1>2. Head(mainQueue) = b /\ b \in Block /\ 1 \in Blocks /\ mainQueue' \in Seq(Block)
  BY <1>1, IInvTypes, BlockTaken
<1>3. /\ b.block = "value"
      /\ told' = [h \in Handles |-> IF h \in b.observers THEN b.value ELSE told[h]]
      /\ newest' = [h \in Handles |-> IF told'[h] > newest[h] THEN told'[h] ELSE newest[h]]
      /\ answered' = [r \in Reads |-> IF r \in first THEN answered[r] + 1 ELSE answered[r]]
      /\ dbQueue' = IF first = {} THEN dbQueue ELSE Append(dbQueue, c)
  BY <1>2 DEF RaisedValue
<1>4. Hears
  BY <1>3 DEF Hears, Tells
<1>5. alert' => SomeErased
  BY <1>1, IInvTypes DEF AlertInv
<1>6. /\ ConnInv' /\ ToldInv' /\ RisingInv' /\ AlertInv'
      /\ \A i \in Blocks' : Tell(i)' => \A r \in mainQueue'[i].reads : r <= reads
  BY <1>1, <1>4, <1>5, MainKeeps
<1>7. b.reads \in SUBSET Reads /\ \A r \in b.reads : r <= reads
  BY <1>2, <1>3, IInvTypes, BlockKinds DEF ReadInv, Tell
<1>8. first \in SUBSET Reads /\ \A r \in first : r <= reads /\ answered[r] = 0
  BY <1>7 DEF FirstAnswers
<1>9. c \in Call /\ c.op = "removeOnce"
  BY <1>8 DEF Call
<1> HIDE DEF first, b, c
<1>10. /\ RegInv' /\ FreshInv' /\ dbQueue' \in Seq(Call)
       /\ \A i \in Calls' : dbQueue'[i].op = "once" => dbQueue'[i].id <= reads
  <2>1. CASE first = {}
    BY <1>1, <1>3, <2>1, IInvTypes, CallsStay
  <2>2. CASE first # {}
    <3>1. dbQueue' = Append(dbQueue, c)
      BY <1>3, <2>2
    <3>2. RegInv' /\ FreshInv' /\ dbQueue' \in Seq(Call)
      BY <1>1, <1>9, <3>1, RegFreshAdded
    <3>3. \A i \in Calls' : dbQueue'[i].op = "once" => i \in Calls /\ dbQueue'[i] = dbQueue[i]
      BY <1>9, <3>1, IInvTypes, CallAdded
    <3> QED
      BY <3>2, <3>3, IInvTypes DEF ReadInv
  <2> QED
    BY <2>1, <2>2
<1>11. /\ answered' \in [Reads -> 0..1]
       /\ \A r \in Reads : r > reads => answered'[r] = 0
  <2>1. answered \in [Reads -> 0..1] /\ reads \in Int /\ Reads \subseteq Int
    BY IInvTypes, Bounds DEF TypeInv
  <2>2. ASSUME NEW r \in Reads PROVE answered'[r] \in 0..1 /\ (r > reads => answered'[r] = 0)
    <3>1. answered'[r] = IF r \in first THEN answered[r] + 1 ELSE answered[r]
      BY <1>3
    <3>2. CASE r \in first
      BY <1>8, <2>1, <3>1, <3>2
    <3>3. CASE r \notin first
      BY <2>1, <3>1, <3>3, IInvTypes DEF ReadInv
    <3> QED
      BY <3>2, <3>3
  <2>3. answered' = [r \in Reads |-> answered'[r]]
    BY <1>3
  <2> QED
    BY <2>2, <2>3
<1>12. TypeInv'
  <2>1. told' \in [Handles -> {Unknown} \union Values] /\ newest' \in [Handles -> Values]
    BY <1>1, <1>4, IInvTypes, HearsTypes
  <2> QED
    BY <1>1, <1>2, <1>10, <1>11, <2>1, IInvTypes DEF TypeInv
<1>13. ReadInv'
  BY <1>1, <1>6, <1>10, <1>11, IInvTypes DEF ReadInv
<1> QED
  BY <1>6, <1>10, <1>12, <1>13 DEF IInv


-----------------------------------------------------------------------------
(* The theorems. *)

(* Nothing is under way at first.                                         *)
LEMMA InitConn ==
  ASSUME Init
  PROVE  ConnInv /\ \A u \in Values : u = 0 => Reported(u)
<1>1. /\ conn = Offline /\ observers = {} /\ cache = Unknown /\ writes = {}
      /\ server = [value |-> Removed, last |-> 0] /\ \A w \in Removals : erased[w] = Unknown
  BY DEF Init
<1>2. /\ conn.up = FALSE /\ conn.listens = FALSE /\ conn.puts = {} /\ conn.toAck = <<>> /\ conn.unacked = 0
      /\ conn.toServer = <<>> /\ conn.toClient = <<>> /\ conn.owed = 0 /\ conn.listening = FALSE
  BY <1>1 DEF Offline
<1>3. Requests = {} /\ Messages = {} /\ Held = {} /\ ~Asking /\ ~Answered
  BY <1>2 DEF Requests, Messages, Held, AckedIds, Asking, Answered
<1>4. PutInv /\ SessionInv
  BY <1>1, <1>2, <1>3 DEF PutInv, SessionInv
<1>5. LatestInv /\ ServerInv /\ FlowInv
  BY <1>1, <1>2, <1>3 DEF LatestInv, ServerInv, Stale, FlowInv, Unknown, Removed
<1>6. ErasedInv
  BY <1>1, <1>3 DEF ErasedInv, NoneStale, Stale, Unknown
<1>7. \A u \in Values : u = 0 => Reported(u)
  BY <1>1, <1>3 DEF Reported
<1> QED
  BY <1>4, <1>5, <1>6, <1>7 DEF ConnInv

LEMMA InitIInv ==
  ASSUME Init
  PROVE  IInv
<1>1. /\ mainQueue = <<>> /\ dbQueue = <<>> /\ Len(mainQueue) = 0 /\ Len(dbQueue) = 0 /\ 1..0 = {}
      /\ observers = {} /\ onces = {} /\ cache = Unknown /\ writes = {} /\ conn = Offline
      /\ refHandle = 0 /\ reads = 0 /\ removals = 0 /\ alert = FALSE
      /\ \A w \in Removals : erased[w] = Unknown
      /\ \A h \in Handles : told[h] = Unknown /\ newest[h] = 0
      /\ \A r \in Reads : answered[r] = 0
  BY DEF Init
<1>2. Blocks = {} /\ Calls = {}
  BY <1>1 DEF Blocks, Calls
<1>3. TypeInv
  <2>1. conn \in Connection
    BY <1>1 DEF Offline, Connection
  <2>2. /\ told \in [Handles -> {Unknown} \union Values] /\ newest \in [Handles -> Values]
        /\ answered \in [Reads -> 0..1] /\ erased \in [Removals -> {Unknown} \union Values]
    BY Bounds DEF Init, Removed
  <2>3. 0 \in 0..MaxAppearances /\ 0 \in 0..MaxReads /\ 0 \in 0..MaxRemovals
    BY Bounds
  <2>4. server \in [value : Values, last : Values] /\ completed \in SUBSET Removals /\ alert \in BOOLEAN
        /\ screen \in {"hidden", "appearing", "shown", "leaving"}
    BY Bounds DEF Init, Removed
  <2>5. mainQueue \in Seq(Block) /\ dbQueue \in Seq(Call)
    BY <1>1
  <2> QED
    BY <1>1, <2>1, <2>2, <2>3, <2>4, <2>5 DEF TypeInv
<1>4. ConnInv /\ \A h \in Handles : Reported(newest[h])
  <2>1. ConnInv /\ Reported(0)
    BY InitConn, Bounds DEF Removed
  <2> QED
    BY <1>1, <2>1
<1>5. RegInv
  <2>1. \A h \in Handles : ~(h <= 0)
    BY Bounds DEF Handles
  <2> QED
    BY <1>1, <1>2, <2>1 DEF RegInv
<1>6. ReadInv /\ FreshInv
  BY <1>1, <1>2 DEF ReadInv, FreshInv, Calls
<1>7. ToldInv
  BY <1>1 DEF ToldInv, Informs, View
<1>8. RisingInv
  BY <1>1, <1>2, <1>4 DEF RisingInv, Unknown
<1>9. AlertInv
  <2>1. conn.toAck = <<>> /\ conn.toClient = <<>>
    BY <1>1 DEF Offline
  <2> QED
    BY <1>1, <2>1 DEF AlertInv, AnswersTrue, Messages
<1> QED
  BY <1>3, <1>4, <1>5, <1>6, <1>7, <1>8, <1>9 DEF IInv

LEMMA StepIInv ==
  ASSUME IInv, [Next]_vars
  PROVE  IInv'
<1>1. CASE viewWillAppear \/ pressBtn \/ removeData
  BY <1>1, viewWillAppearStep, pressBtnStep, removeDataStep
<1>2. CASE DidAppear \/ WillDisappear \/ viewDidDisappear \/ DismissAlert
  BY <1>2, LifecycleStep
<1>3. CASE MainThread
  BY <1>3, RaisedValueStep, RaisedCompletionStep DEF MainThread
<1>4. CASE Dispatched
  BY <1>4, AddObserverStep, AddOnceStep, RemoveOnceStep, RemoveValueStep DEF Dispatched
<1>5. CASE Received
  BY <1>5, OnDataUpdateStep, OnListenResponseStep, OnPutResponseStep DEF Received
<1>6. CASE OnReady \/ OnDisconnect \/ OthersWrite
  BY <1>6, OnReadyStep, OnDisconnectStep, OthersWriteStep
<1>7. CASE Service
  BY <1>7, ServerTakesListenStep, ServerAnswersListenStep, ServerTakesPutStep DEF Service
<1>8. CASE UNCHANGED vars
  BY <1>8, StutterStep
<1> QED
  BY <1>1, <1>2, <1>3, <1>4, <1>5, <1>6, <1>7, <1>8 DEF Next

(* What the queues, the connection and the history say of each other holds *)
(* whatever the app does, other clients write and connections break.       *)
THEOREM Invariant == Spec => []IInv
<1>1. Init => IInv
  BY InitIInv
<1>2. IInv /\ [Next]_vars => IInv'
  BY StepIInv
<1> QED
  BY <1>1, <1>2, PTL DEF Spec

LEMMA TypesHold ==
  ASSUME IInv
  PROVE  TypeOK
<1>1. TypeInv /\ PutInv /\ SessionInv
  BY DEF IInv, ConnInv
<1>2. /\ screen \in {"hidden", "appearing", "shown", "leaving"}
      /\ refHandle \in 0..MaxAppearances /\ alert \in BOOLEAN
      /\ observers \subseteq Handles /\ onces \subseteq Reads /\ writes \subseteq Removals
  BY <1>1 DEF TypeInv
<1>3. conn.puts \subseteq writes /\ conn.unacked \in 0..1 /\ conn.owed \in 0..1
  BY <1>1 DEF PutInv, SessionInv
<1>4. {Unknown} \union Values = {Unknown} \union 0..MaxOthers
  BY Bounds DEF Values, Removed
<1>5. /\ cache \in {Unknown} \union 0..MaxOthers
      /\ \A h \in Handles : told[h] \in {Unknown} \union 0..MaxOthers
      /\ \A r \in Reads : answered[r] \in 0..1
  BY <1>1, <1>4 DEF TypeInv
<1> QED
  BY <1>2, <1>3, <1>5 DEF TypeOK

(* When nothing is under way no removal is pending, since an outstanding   *)
(* put is on the way while the connection is up and an answer held back    *)
(* needs a listen that is not answered; so the client shows the value.     *)
LEMMA QuietTells ==
  ASSUME IInv
  PROVE  ToldTheTruth
<1>1. ASSUME Quiet, NEW h \in observers PROVE told[h] = server.value
  <2>1. /\ conn.up /\ conn.unacked = 0 /\ conn.toServer = <<>> /\ conn.toClient = <<>> /\ mainQueue = <<>>
    BY <1>1 DEF Quiet
  <2>2. Requests = {} /\ Messages = {} /\ Len(mainQueue) = 0 /\ 1..0 = {}
    BY <2>1 DEF Requests, Messages
  <2>3. PutInv /\ SessionInv /\ LatestInv /\ ToldInv
    BY DEF IInv, ConnInv
  <2>4. conn.toAck = <<>> /\ conn.puts = {}
    BY <2>1, <2>2, <2>3 DEF PutInv, SessionInv
  <2>5. writes = {}
    <3>1. Held = {}
      BY <2>4 DEF Held, AckedIds
    <3> QED
      BY <2>3, <2>4, <3>1 DEF PutInv
  <2>6. conn.listening
    BY <1>1, <2>1, <2>2, <2>3 DEF SessionInv, Answered
  <2>7. cache = server.value
    BY <2>2, <2>3, <2>6 DEF LatestInv
  <2>8. cache # Unknown
    BY <2>7, IInvTypes, ConnTypes, Bounds
  <2>9. View(cache, writes) = cache
    BY <2>5 DEF View
  <2>10. WillKnow(mainQueue, h, cache)
    BY <1>1, <2>3, <2>8, <2>9 DEF ToldInv, Informs
  <2> QED
    BY <2>2, <2>7, <2>10 DEF WillKnow
<1> QED
  BY <1>1 DEF ToldTheTruth

LEMMA NothingComesBack ==
  ASSUME IInv
  PROVE  RemovedStaysRemoved
<1>1. ASSUME NEW w \in Removals, w \notin writes, erased[w] # Unknown, cache # Unknown
      PROVE  cache = Removed \/ cache > erased[w]
  <2>1. ~Stale(cache, w)
    BY <1>1, IInvTypes DEF ConnInv, ErasedInv
  <2>2. cache \in Values /\ erased[w] \in Values
    BY <1>1, IInvTypes
  <2> QED
    BY <2>1, <2>2, Bounds DEF Stale, Removed
<1> QED
  BY <1>1 DEF RemovedStaysRemoved

LEMMA AlertHolds ==
  ASSUME IInv
  PROVE  AlertIsTrue
BY DEF IInv, AlertInv, AlertIsTrue, SomeErased

(* A tap on Get Data is answered at most once, and only if there was one.  *)
LEMMA AnsweredOnce ==
  ASSUME IInv
  PROVE  ReadOnce
BY Bounds DEF IInv, TypeInv, ReadInv, ReadOnce

(* What the screen shows of the database is true: as many observers as     *)
(* appearances, each told the value in the end, no read answered twice, no *)
(* removed value back on the screen, no "Data removed!" without a removal. *)
THEOREM ShownTrue == Spec => []ShownIsTrue
<1>1. IInv => ShownIsTrue
  BY TypesHold, AnsweredOnce, QuietTells, NothingComesBack, AlertHolds DEF ShownIsTrue
<1> QED
  BY <1>1, Invariant, PTL

(* Only the main thread tells an observer anything, and what it tells is   *)
(* above all it has told before.                                           *)
LEMMA ToldInOrder ==
  ASSUME IInv, [Next]_vars
  PROVE  \A h \in Handles : told'[h] # told[h] => told'[h] = Removed \/ told'[h] >= newest[h]
<1>1. CASE RaisedValue
  <2>1. ASSUME NEW h \in Handles, told'[h] # told[h] PROVE told'[h] = Removed \/ told'[h] >= newest[h]
    <3>1. /\ mainQueue # <<>> /\ mainQueue' = Tail(mainQueue)
      BY <1>1 DEF RaisedValue
    <3>2. Head(mainQueue) = mainQueue[1] /\ mainQueue[1] \in Block /\ 1 \in Blocks
      BY <3>1, IInvTypes, BlockTaken
    <3>3. mainQueue[1].block = "value" /\ told'[h] = mainQueue[1].value
      BY <1>1, <2>1, <3>2 DEF RaisedValue
    <3>4. Above(mainQueue[1].value, newest[h])
      BY <3>2, <3>3, IInvTypes DEF RisingInv, Tell
    <3>5. newest[h] \in Int /\ mainQueue[1].value \in Int
      BY <3>2, <3>3, IInvTypes, BlockKinds, Bounds DEF TypeInv
    <3> QED
      BY <3>3, <3>4, <3>5 DEF Above
  <2> QED
    BY <2>1
<1>2. CASE ~RaisedValue
  <2>1. told' = told
    <3>1. CASE UNCHANGED vars
      BY <3>1 DEF vars, heard
    <3>2. CASE viewWillAppear \/ pressBtn \/ removeData \/ DismissAlert
      BY <3>2 DEF viewWillAppear, pressBtn, removeData, DismissAlert, heard
    <3>3. CASE DidAppear \/ WillDisappear \/ viewDidDisappear
      BY <3>3 DEF DidAppear, WillDisappear, viewDidDisappear, Lifecycle, heard
    <3>4. CASE RaisedCompletion
      BY <3>4 DEF RaisedCompletion
    <3>5. CASE Dispatched
      BY <3>5 DEF Dispatched, AddObserver, AddOnce, RemoveOnce, RemoveValue, heard
    <3>6. CASE Received
      BY <3>6 DEF Received, OnDataUpdate, OnListenResponse, OnPutResponse, heard
    <3>7. CASE OnReady \/ OnDisconnect \/ OthersWrite
      BY <3>7 DEF OnReady, OnDisconnect, OthersWrite, heard
    <3>8. CASE Service
      BY <3>8 DEF Service, ServerTakesListen, ServerAnswersListen, ServerTakesPut, heard
    <3> QED
      BY <1>2, <3>1, <3>2, <3>3, <3>4, <3>5, <3>6, <3>7, <3>8 DEF Next, MainThread
  <2> QED
    BY <2>1
<1> QED
  BY <1>1, <1>2

(* No observer is told an older value after a newer one, across broken     *)
(* connections and answers that come late.                                 *)
THEOREM ToldNeverOlder == Spec => NeverOlder
<1>1. IInv /\ [Next]_vars =>
        [\A h \in Handles : told'[h] # told[h] => told'[h] = Removed \/ told'[h] >= newest[h]]_vars
  BY ToldInOrder
<1> QED
  BY <1>1, Invariant, PTL DEF Spec, NeverOlder

=============================================================================
