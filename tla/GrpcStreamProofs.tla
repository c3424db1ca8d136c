--------------------------- MODULE GrpcStreamProofs ---------------------------
(***************************************************************************)
(* The rules of gRPC's tags, for any number of writes and messages.  A tag *)
(* is in gRPC, or its completion is posted, never both and never twice: so *)
(* a handler that runs one completion may issue its tag again.             *)
(***************************************************************************)
EXTENDS GrpcStream, TLAPS

(* The elements of a queue.                                                *)
Elements(s) == {s[i] : i \in 1..Len(s)}

(* The empty sequence has none.                                            *)
LEMMA ElementsEmpty == Elements(<<>>) = {}
BY DEF Elements

(* One more element at the end.                                            *)
LEMMA ElementsAppend ==
    ASSUME NEW S, NEW s \in Seq(S), NEW x \in S
    PROVE  /\ Append(s, x) \in Seq(S)
           /\ Elements(Append(s, x)) = Elements(s) \cup {x}
BY DEF Elements

(* The first, and those behind it.                                         *)
LEMMA ElementsTail ==
    ASSUME NEW S, NEW s \in Seq(S), s # <<>>
    PROVE  /\ Head(s) \in S
           /\ Tail(s) \in Seq(S)
           /\ Elements(s) = {Head(s)} \cup Elements(Tail(s))
<1>1. Len(s) \in Nat \ {0} /\ Len(Tail(s)) = Len(s) - 1 /\ Head(s) = s[1]
  OBVIOUS
<1>2. \A i \in 1..Len(Tail(s)) : Tail(s)[i] = s[i + 1] /\ i + 1 \in 1..Len(s)
  BY <1>1
<1>3. ASSUME NEW x \in Elements(s) PROVE x = Head(s) \/ x \in Elements(Tail(s))
  <2>1. PICK i \in 1..Len(s) : x = s[i]
    BY <1>3 DEF Elements
  <2>2. CASE i = 1
    BY <2>1, <2>2, <1>1
  <2>3. CASE i # 1
    <3>1. i - 1 \in 1..Len(Tail(s)) /\ Tail(s)[i - 1] = x
      BY <2>1, <2>3, <1>1, <1>2
    <3> QED
      BY <3>1 DEF Elements
  <2> QED
    BY <2>2, <2>3
<1>4. Elements(Tail(s)) \subseteq Elements(s)
  BY <1>2 DEF Elements
<1>5. Head(s) \in Elements(s)
  BY <1>1 DEF Elements
<1> QED
  BY <1>1, <1>3, <1>4, <1>5

Completion == [type : Types, ok : BOOLEAN, message : Nat]
Has(s, type) == \E c \in Elements(s) : c.type = type
Alone(s) == \A i, j \in 1..Len(s) : s[i].type = s[j].type => i = j

(* A tag is out once.                                                      *)
SingleInv ==
    /\ grpc \in [Types -> {0, 1}] /\ posted \in Seq(Completion)
    /\ \A type \in Types : grpc[type] = 1 => ~Has(posted, type)
    /\ Alone(posted)

(* A write that is out is the active one, and Finish is out only when the  *)
(* call is finished.                                                       *)
WriterInv ==
    /\ {active, finished, observer, sound} \subseteq BOOLEAN
    /\ buffered \in Nat /\ call.written \in Nat
    /\ buffered <= call.written /\ call.written <= MaxWrites
    /\ grpc["Write"] = 1 \/ Has(posted, "Write") => active
    /\ grpc["Finish"] = 1 \/ Has(posted, "Finish") => finished

(* While the worker waits for gRPC nothing is posted.                      *)
WaitInv ==
    /\ worker \in {"free", "lastWrite", "failing", "closing", "last"}
    /\ phase \in {"new", "live", "gone"}
    /\ phase # "live" => NoCompletions /\ worker = "free"
    /\ worker \in {"failing", "closing", "last"} => posted = <<>>
    /\ worker \in {"failing", "closing"} => finished
    /\ worker = "last" /\ ~finished => NoCompletions

IsMessage(c) == c.type = "Read" /\ c.ok

(* Until the call is finished the message that is posted is the next one,  *)
(* and when none is, the observer has all that were read.                  *)
MessageInv ==
    /\ {call.sent, call.read, handed.messages} \subseteq Nat
    /\ handed.messages <= call.read /\ call.read <= call.sent /\ call.sent <= MaxMessages
    /\ phase = "new" => call.read = 0
    /\ \A c \in Elements(posted) : IsMessage(c) =>
          ~finished /\ c.message = handed.messages + 1 /\ call.read = handed.messages + 1
    /\ ~finished /\ phase = "live" /\ worker \in {"free", "lastWrite"}
         /\ (\A c \in Elements(posted) : ~IsMessage(c)) => handed.messages = call.read

Ends == {"no", "cancelled", "status", "broken"}
RecordsInv ==
    /\ call \in [end : Ends, sent : Nat, read : Nat, written : Nat]
    /\ handed \in [messages : Nat, status : Ends \cup {"none"}, closed : BOOLEAN]

IInv == SingleInv /\ WriterInv /\ WaitInv /\ MessageInv /\ RecordsInv /\ sound

-------------------------------------------------------------------------------
(* The queue of completions. *)

(* A completion that runs is the only one of its type, and its tag is back.*)
LEMMA TakeHead ==
    ASSUME SingleInv, posted # <<>>
    PROVE  /\ Head(posted) \in Completion /\ grpc[Head(posted).type] = 0
           /\ Tail(posted) \in Seq(Completion) /\ Alone(Tail(posted))
           /\ ~Has(Tail(posted), Head(posted).type)
           /\ Elements(posted) = {Head(posted)} \cup Elements(Tail(posted))
<1> DEFINE s == posted
           r == Tail(posted)
<1>1. s \in Seq(Completion) /\ Alone(s) /\ grpc \in [Types -> {0, 1}]
      /\ \A type \in Types : grpc[type] = 1 => ~Has(s, type)
  BY DEF SingleInv
<1>2. /\ Head(s) \in Completion /\ r \in Seq(Completion)
      /\ Elements(s) = {Head(s)} \cup Elements(r)
  BY <1>1, ElementsTail, Zenon
<1>3. Len(s) \in Nat \ {0} /\ Len(r) = Len(s) - 1 /\ Head(s) = s[1]
      /\ \A i \in 1..Len(r) : r[i] = s[i + 1] /\ i + 1 \in 1..Len(s) /\ i + 1 # 1
  <2>1. Len(s) \in Nat \ {0} /\ Len(r) = Len(s) - 1 /\ Head(s) = s[1]
    BY <1>1
  <2> QED
    BY <1>1, <2>1
<1>4. grpc[Head(s).type] = 0
  <2>1. Head(s).type \in Types /\ Has(s, Head(s).type)
    BY <1>2 DEF Completion, Has
  <2> QED
    BY <1>1, <2>1
<1> HIDE DEF s, r
<1>5. Alone(r)
  <2>1. SUFFICES ASSUME NEW i \in 1..Len(r), NEW j \in 1..Len(r), r[i].type = r[j].type
                 PROVE  i = j
    BY DEF Alone
  <2>2. i + 1 = j + 1
    BY <1>1, <1>3, <2>1 DEF Alone
  <2> QED
    BY <2>2
<1>6. ~Has(r, Head(s).type)
  <2>1. SUFFICES ASSUME NEW c \in Elements(r), c.type = Head(s).type PROVE FALSE
    BY DEF Has
  <2>2. PICK i \in 1..Len(r) : c = r[i]
    BY DEF Elements
  <2>3. 1 \in 1..Len(s) /\ s[1].type = s[i + 1].type
    BY <1>3, <2>1, <2>2
  <2> QED
    BY <1>1, <1>3, <2>2, <2>3 DEF Alone
<1> QED
  BY <1>2, <1>4, <1>5, <1>6 DEF s, r

(* A completion of a new type joins the queue alone.                       *)
LEMMA AppendAlone ==
    ASSUME NEW s \in Seq(Completion), Alone(s), NEW c \in Completion, ~Has(s, c.type)
    PROVE  Append(s, c) \in Seq(Completion) /\ Alone(Append(s, c))
<1>1. Len(Append(s, c)) = Len(s) + 1 /\ Len(s) \in Nat
      /\ Append(s, c)[Len(s) + 1] = c /\ \A i \in 1..Len(s) : Append(s, c)[i] = s[i]
  OBVIOUS
<1>2. \A i \in 1..Len(s) : s[i].type # c.type
  BY DEF Has, Elements
<1>3. SUFFICES ASSUME NEW i \in 1..(Len(s) + 1), NEW j \in 1..(Len(s) + 1),
                      Append(s, c)[i].type = Append(s, c)[j].type
               PROVE  i = j
  BY <1>1 DEF Alone
<1>4. CASE i \in 1..Len(s) /\ j \in 1..Len(s)
  BY <1>1, <1>3, <1>4 DEF Alone
<1>5. CASE i = Len(s) + 1 /\ j \in 1..Len(s)
  BY <1>1, <1>2, <1>3, <1>5
<1>6. CASE j = Len(s) + 1 /\ i \in 1..Len(s)
  BY <1>1, <1>2, <1>3, <1>6
<1>7. CASE i = Len(s) + 1 /\ j = Len(s) + 1
  BY <1>7
<1> QED
  BY <1>1, <1>4, <1>5, <1>6, <1>7

(* An empty queue has no completion of any type.                           *)
LEMMA NothingPosted ==
    /\ <<>> \in Seq(Completion) /\ Alone(<<>>) /\ Elements(<<>>) = {}
    /\ \A type : ~Has(<<>>, type)
BY ElementsEmpty DEF Alone, Has

(* A tag that is not out may be handed to gRPC.                            *)
LEMMA IssueSingle ==
    ASSUME SingleInv, NEW type \in Types, grpc[type] = 0, Issue(type),
           posted' \in Seq(Completion), Alone(posted'), ~Has(posted', type),
           Elements(posted') \subseteq Elements(posted)
    PROVE  SingleInv' /\ grpc'[type] = 1 /\ \A other \in Types \ {type} : grpc'[other] = grpc[other]
<1>1. grpc' = [grpc EXCEPT ![type] = 1] /\ grpc \in [Types -> {0, 1}]
  BY DEF Issue, SingleInv
<1>2. \A other \in Types \ {type} : grpc'[other] = 1 => ~Has(posted', other)
  BY <1>1 DEF SingleInv, Has
<1> QED
  BY <1>1, <1>2 DEF SingleInv

(* What has been posted may be cancelled.                                  *)
LEMMA FewerSingle ==
    ASSUME SingleInv, UNCHANGED grpc, posted' \in Seq(Completion), Alone(posted'),
           Elements(posted') \subseteq Elements(posted)
    PROVE  SingleInv'
BY DEF SingleInv, Has

(* gRPC gives a tag back, and it is posted unless the worker waits.        *)
LEMMA BackSingle ==
    ASSUME SingleInv, NEW type \in Types, NEW ok \in BOOLEAN, NEW message \in Nat,
           Back(type, ok, message)
    PROVE  /\ SingleInv' /\ grpc[type] = 1 /\ ~Has(posted, type)
           /\ grpc'[type] = 0 /\ \A other \in Types \ {type} : grpc'[other] = grpc[other]
           /\ IF worker \in {"free", "lastWrite"}
              THEN Elements(posted') = Elements(posted) \cup
                                         {[type |-> type, ok |-> ok, message |-> message]}
              ELSE posted' = posted
<1> DEFINE c == [type |-> type, ok |-> ok, message |-> message]
<1>1. grpc \in [Types -> {0, 1}] /\ grpc[type] = 1 /\ ~Has(posted, type)
      /\ posted \in Seq(Completion) /\ Alone(posted)
  BY DEF Back, SingleInv
<1>2. grpc' = [grpc EXCEPT ![type] = 0]
  BY <1>1 DEF Back
<1>3. c \in Completion /\ c.type = type
  BY DEF Completion
<1>4. posted' = IF worker \in {"free", "lastWrite"} THEN Append(posted, c) ELSE posted
  BY DEF Back
<1> HIDE DEF c
<1>5. posted' \in Seq(Completion) /\ Alone(posted')
  BY <1>1, <1>3, <1>4, AppendAlone
<1>6. IF worker \in {"free", "lastWrite"} THEN Elements(posted') = Elements(posted) \cup {c}
                                          ELSE posted' = posted
  BY <1>1, <1>3, <1>4, ElementsAppend
<1>7. \A other \in Types : grpc'[other] = 1 => ~Has(posted', other)
  <2> SUFFICES ASSUME NEW other \in Types, grpc'[other] = 1 PROVE ~Has(posted', other)
    OBVIOUS
  <2>1. other # type /\ grpc[other] = 1
    BY <1>1, <1>2
  <2>2. ~Has(posted, other)
    BY <2>1 DEF SingleInv
  <2> QED
    BY <1>3, <1>6, <2>1, <2>2 DEF Has
<1> QED
  BY <1>1, <1>2, <1>5, <1>6, <1>7 DEF SingleInv, c

-------------------------------------------------------------------------------
(* Each part of the invariant is kept by each action. *)

(* When every tag is back and nothing is posted, each may be issued.       *)
LEMMA SingleStep == IInv /\ [Next]_vars => SingleInv'
<1> SUFFICES ASSUME IInv, [Next]_vars PROVE SingleInv'
  OBVIOUS
<1>0. SingleInv /\ WriterInv /\ WaitInv
  BY DEF IInv
<1>a. posted \in Seq(Completion) /\ Alone(posted) /\ Types = {"Read", "Write", "Finish"}
      /\ grpc \in [Types -> {0, 1}]
  BY <1>0 DEF SingleInv, Types
<1>1. CASE Start
  <2>1. grpc["Read"] = 0 /\ posted = <<>> /\ posted' = posted /\ Issue("Read")
    BY <1>0, <1>1 DEF Start, WaitInv, NoCompletions, Types
  <2> QED
    BY <1>0, <1>a, <2>1, NothingPosted, IssueSingle
<1>2. CASE Write \/ WriteAndFinish
  <2>1. CASE UNCHANGED <<grpc, posted>>
    BY <1>0, <1>a, <2>1, FewerSingle
  <2>2. CASE Issue("Write") /\ ~active /\ UNCHANGED posted
    <3>1. grpc["Write"] = 0 /\ ~Has(posted, "Write")
      BY <1>0, <1>a, <2>2 DEF WriterInv
    <3> QED
      BY <1>0, <1>a, <2>2, <3>1, IssueSingle
  <2> QED
    BY <1>2, <2>1, <2>2 DEF Write, WriteAndFinish
<1>3. CASE FinishImmediately \/ LastWriteWaited \/ OnFinish
  <2>1. posted' = <<>> /\ UNCHANGED grpc
    BY <1>3 DEF FinishImmediately, LastWriteWaited, OnFinish, Shutdown
  <2> QED
    BY <1>0, <2>1, NothingPosted, FewerSingle
<1>4. CASE FinishUnstarted \/ Release \/ ServerSends \/ CallEnds
  <2>1. UNCHANGED <<grpc, posted>>
    BY <1>4 DEF FinishUnstarted, Release, ServerSends, CallEnds
  <2> QED
    BY <1>0, <1>a, <2>1, FewerSingle
<1>5. CASE IssueFinish
  <2>1. grpc["Finish"] = 0 /\ posted = <<>> /\ posted' = posted /\ Issue("Finish")
    BY <1>0, <1>5 DEF IssueFinish, Drained, WaitInv, Types
  <2> QED
    BY <1>0, <1>a, <2>1, NothingPosted, IssueSingle
<1>6. CASE OnRead
  <2>1. posted # <<>> /\ Head(posted).type = "Read" /\ posted' = Tail(posted) /\ Issue("Read")
    BY <1>6 DEF OnRead, Next1
  <2> QED
    BY <1>0, <1>a, <2>1, TakeHead, IssueSingle
<1>7. CASE OnWrite
  <2>1. posted # <<>> /\ Head(posted).type = "Write" /\ posted' = Tail(posted)
        /\ (Issue("Write") \/ UNCHANGED grpc)
    BY <1>7 DEF OnWrite, Next1
  <2>2. CASE Issue("Write")
    BY <1>0, <1>a, <2>1, <2>2, TakeHead, IssueSingle
  <2>3. CASE UNCHANGED grpc
    BY <1>0, <2>1, <2>3, TakeHead, FewerSingle
  <2> QED
    BY <2>1, <2>2, <2>3
<1>8. CASE OnOperationFailed
  <2>1. UNCHANGED grpc /\ posted # <<>> /\ (posted' = Tail(posted) \/ posted' = <<>>)
    BY <1>8 DEF OnOperationFailed
  <2> QED
    BY <1>0, <2>1, TakeHead, NothingPosted, FewerSingle
<1>9. ASSUME NEW type \in Types, NEW ok \in BOOLEAN, NEW message \in Nat, Back(type, ok, message)
      PROVE  SingleInv'
  BY <1>0, <1>9, BackSingle
<1>10. CASE ReadBack
  <2>1. call.read + 1 \in Nat
    BY DEF IInv, RecordsInv
  <2> QED
    BY <1>a, <1>9, <1>10, <2>1 DEF ReadBack
<1>11. CASE WriteBack \/ FinishBack \/ FailedBack
  BY <1>a, <1>9, <1>11 DEF WriteBack, FinishBack, FailedBack
<1>12. CASE UNCHANGED vars
  BY <1>0, <1>a, <1>12, FewerSingle DEF vars
<1> QED
  BY <1>1, <1>2, <1>3, <1>4, <1>5, <1>6, <1>7, <1>8, <1>10, <1>11, <1>12 DEF Next

(* The records of the call and of what was handed over keep their fields.  *)
LEMMA RecordsStep == IInv /\ [Next]_vars => RecordsInv'
<1> SUFFICES ASSUME IInv, [Next]_vars PROVE RecordsInv'
  OBVIOUS
<1>0. /\ call \in [end : Ends, sent : Nat, read : Nat, written : Nat]
      /\ handed \in [messages : Nat, status : Ends \cup {"none"}, closed : BOOLEAN]
      /\ call.end \in Ends
  BY DEF IInv, RecordsInv
<1>1. CASE FinishImmediately \/ LastWriteWaited
  BY <1>0, <1>1 DEF FinishImmediately, LastWriteWaited, Shutdown, RecordsInv, Ends
<1>2. CASE ReadBack \/ WriteBack \/ FinishBack \/ FailedBack
  BY <1>0, <1>2 DEF ReadBack, WriteBack, FinishBack, FailedBack, Back, RecordsInv
<1>3. CASE Start \/ Write \/ FinishUnstarted \/ WriteAndFinish
  <2>1. /\ call' = call \/ call' = [call EXCEPT !.written = call.written + 1]
        /\ handed' = handed \/ handed' = [handed EXCEPT !.closed = TRUE]
    BY <1>3 DEF Start, Write, FinishUnstarted, WriteAndFinish
  <2>2. call.written + 1 \in Nat
    BY <1>0
  <2> HIDE DEF Ends
  <2> QED
    BY <1>0, <2>1, <2>2 DEF RecordsInv
<1>4. CASE IssueFinish \/ Release \/ OnWrite \/ OnOperationFailed
  BY <1>0, <1>4 DEF IssueFinish, Release, OnWrite, OnOperationFailed, RecordsInv
<1>5. CASE OnRead
  <2>1. handed' = [handed EXCEPT !.messages = handed.messages + 1] /\ call' = call
    BY <1>5 DEF OnRead
  <2> QED
    BY <1>0, <2>1 DEF RecordsInv
<1>6. CASE OnFinish
  <2>1. handed' = [handed EXCEPT !.status = call.end] /\ call' = call
    BY <1>6 DEF OnFinish
  <2>2. call.end \in Ends \cup {"none"}
    BY <1>0
  <2> HIDE DEF Ends
  <2> QED
    BY <1>0, <2>1, <2>2 DEF RecordsInv
<1>7. CASE ServerSends
  BY <1>0, <1>7 DEF ServerSends, RecordsInv
<1>8. CASE CallEnds
  BY <1>0, <1>8 DEF CallEnds, RecordsInv, Ends
<1>9. CASE UNCHANGED vars
  BY <1>0, <1>9 DEF vars, RecordsInv
<1> QED
  BY <1>1, <1>2, <1>3, <1>4, <1>5, <1>6, <1>7, <1>8, <1>9 DEF Next

(* A worker that waits has cancelled what was posted, and a wait that ends *)
(* the stream has nothing left to wait for or a finished call.             *)
LEMMA WaitStep == IInv /\ [Next]_vars => WaitInv'
<1> SUFFICES ASSUME IInv, [Next]_vars PROVE WaitInv'
  OBVIOUS
<1>0. SingleInv /\ WaitInv
  BY DEF IInv
<1>1. CASE Start
  BY <1>0, <1>1 DEF Start, WaitInv
<1>2. CASE Write \/ WriteAndFinish
  BY <1>0, <1>2 DEF Write, WriteAndFinish, Running, WaitInv
<1>3. CASE FinishImmediately \/ LastWriteWaited
  <2>1. phase = "live" /\ phase' = phase /\ UNCHANGED grpc /\ Shutdown
    BY <1>0, <1>3 DEF FinishImmediately, LastWriteWaited, Running, WaitInv
  <2>2. CASE finished \/ NoCompletions
    <3>1. worker' = "last" /\ posted' = <<>> /\ UNCHANGED finished
      BY <1>3, <2>1, <2>2 DEF Shutdown, FinishImmediately, LastWriteWaited, stream
    <3>2. NoCompletions => NoCompletions'
      BY <2>1, <3>1 DEF NoCompletions
    <3> QED
      BY <2>1, <2>2, <3>1, <3>2 DEF WaitInv
  <2>3. CASE ~(finished \/ NoCompletions)
    BY <2>1, <2>3 DEF Shutdown, WaitInv
  <2> QED
    BY <2>2, <2>3
<1>4. CASE FinishUnstarted
  BY <1>0, <1>4 DEF FinishUnstarted, WaitInv, NoCompletions
<1>5. CASE IssueFinish
  BY <1>0, <1>5 DEF IssueFinish, WaitInv, stream
<1>6. CASE Release
  BY <1>0, <1>6 DEF Release, Drained, WaitInv, NoCompletions, stream
<1>7. CASE OnRead \/ OnWrite
  BY <1>0, <1>7 DEF OnRead, OnWrite, Next1, Running, WaitInv
<1>8. CASE OnOperationFailed
  BY <1>0, <1>8 DEF OnOperationFailed, Running, WaitInv
<1>9. CASE OnFinish
  <2>1. posted # <<>> /\ Head(posted).type = "Finish" /\ phase = "live"
    BY <1>9 DEF OnFinish, Next1, Running
  <2>2. finished
    <3>1. Head(posted) \in Elements(posted)
      BY <1>0, <2>1, TakeHead
    <3> QED
      BY <2>1, <3>1 DEF IInv, WriterInv, Has
  <2> QED
    BY <1>0, <1>9, <2>1, <2>2 DEF OnFinish, WaitInv
<1>10. ASSUME NEW type \in Types, NEW ok \in BOOLEAN, NEW message \in Nat, Back(type, ok, message)
      PROVE  WaitInv'
  <2>1. grpc[type] = 1 /\ UNCHANGED <<stream, worker, phase>>
    BY <1>0, <1>10, BackSingle DEF Back
  <2>2. ~NoCompletions
    BY <2>1 DEF NoCompletions
  <2>3. worker \in {"failing", "closing", "last"} => posted' = posted
    BY <1>0, <1>10, BackSingle
  <2> QED
    BY <1>0, <2>1, <2>2, <2>3 DEF WaitInv, stream
<1>11. CASE ReadBack
  <2>1. call.read + 1 \in Nat
    BY DEF IInv, RecordsInv
  <2> QED
    BY <1>10, <1>11, <2>1 DEF ReadBack, Types
<1>12. CASE WriteBack \/ FinishBack \/ FailedBack
  BY <1>10, <1>12 DEF WriteBack, FinishBack, FailedBack, Types
<1>13. CASE ServerSends \/ CallEnds
  BY <1>0, <1>13 DEF ServerSends, CallEnds, WaitInv, NoCompletions, stream
<1>14. CASE UNCHANGED vars
  BY <1>0, <1>14 DEF vars, WaitInv, NoCompletions, stream
<1> QED
  BY <1>1, <1>2, <1>3, <1>4, <1>5, <1>6, <1>7, <1>8, <1>9, <1>11, <1>12, <1>13, <1>14 DEF Next

(* A write, or a Finish, that is out is recorded in the flags of the       *)
(* stream.                                                                 *)
LEMMA WriterStep == IInv /\ [Next]_vars => WriterInv'
<1> SUFFICES ASSUME IInv, [Next]_vars PROVE WriterInv'
  OBVIOUS
<1>0. SingleInv /\ WriterInv /\ WaitInv
  BY DEF IInv
<1>a. /\ {active, finished, observer, sound} \subseteq BOOLEAN
      /\ buffered \in Nat /\ call.written \in Nat /\ MaxWrites \in Nat
      /\ buffered <= call.written /\ call.written <= MaxWrites
      /\ grpc["Write"] = 1 \/ Has(posted, "Write") => active
      /\ grpc["Finish"] = 1 \/ Has(posted, "Finish") => finished
      /\ grpc \in [Types -> {0, 1}] /\ {"Read", "Write", "Finish"} = Types
  BY <1>0, StreamAssumption DEF WriterInv, SingleInv, Types
<1>b. RecordsInv /\ RecordsInv'
  BY RecordsStep DEF IInv
<1>1. CASE Start
  <2>1. grpc' = [grpc EXCEPT !["Read"] = grpc["Read"] + 1]
    BY <1>1 DEF Start, Issue
  <2> QED
    BY <1>a, <1>1, <2>1 DEF Start, stream, WriterInv
<1>2. CASE Write
  <2>1. call' = [call EXCEPT !.written = call.written + 1] /\ call.written < MaxWrites
        /\ UNCHANGED <<posted, finished, observer, sound>>
    BY <1>2 DEF Write
  <2>2. call'.written = call.written + 1
    BY <1>b, <2>1 DEF RecordsInv
  <2>3. CASE active' = TRUE /\ Issue("Write") /\ UNCHANGED buffered
    <3>1. grpc'["Finish"] = grpc["Finish"]
      BY <1>a, <2>3 DEF Issue
    <3> QED
      BY <1>a, <2>1, <2>2, <2>3, <3>1 DEF WriterInv
  <2>4. CASE buffered' = buffered + 1 /\ UNCHANGED <<active, grpc>>
    BY <1>a, <2>1, <2>2, <2>4 DEF WriterInv
  <2> QED
    BY <1>2, <2>3, <2>4 DEF Write
<1>3. CASE FinishImmediately \/ LastWriteWaited
  <2>1. posted' = <<>> /\ UNCHANGED <<grpc, buffered, active, sound>>
        /\ observer' \in {observer, FALSE} /\ finished' \in {finished, TRUE}
        /\ (call' = call \/ \E end : call' = [call EXCEPT !.end = end])
    BY <1>3 DEF FinishImmediately, LastWriteWaited, Shutdown
  <2>2. call'.written = call.written
    BY <1>b, <2>1 DEF RecordsInv
  <2>3. ~Has(posted', "Write") /\ ~Has(posted', "Finish")
    BY <2>1, NothingPosted
  <2>4. {active, finished, observer, sound}' \subseteq BOOLEAN
    BY <1>a, <2>1
  <2>5. grpc'["Finish"] = 1 \/ Has(posted', "Finish") => finished'
    <3>1. finished => finished'
      BY <1>a, <2>1
    <3> QED
      BY <1>a, <2>1, <2>3, <3>1, Zenon
  <2>6. grpc'["Write"] = 1 \/ Has(posted', "Write") => active'
    BY <1>a, <2>1, <2>3, Zenon
  <2> QED
    BY <1>a, <2>1, <2>2, <2>4, <2>5, <2>6 DEF WriterInv
<1>4. CASE FinishUnstarted \/ Release
  <2>1. sound' \in BOOLEAN /\ observer' \in {observer, FALSE}
        /\ UNCHANGED <<grpc, posted, buffered, active, finished, call>>
    BY <1>a, <1>4 DEF FinishUnstarted, Release, stream, NoCompletions
  <2>2. {active, finished, observer, sound}' \subseteq BOOLEAN
    BY <1>a, <2>1
  <2> QED
    BY <1>a, <2>1, <2>2 DEF WriterInv
<1>5. CASE WriteAndFinish
  <2>1. active' = TRUE /\ grpc'["Finish"] = grpc["Finish"] /\ observer' = FALSE
        /\ UNCHANGED <<posted, buffered, finished, call, sound>>
    BY <1>a, <1>5 DEF WriteAndFinish, Issue
  <2> QED
    BY <1>a, <2>1 DEF WriterInv
<1>6. CASE IssueFinish
  <2>1. finished /\ grpc'["Write"] = grpc["Write"] /\ UNCHANGED <<posted, stream, call, sound>>
    BY <1>0, <1>a, <1>6 DEF IssueFinish, Issue, WaitInv
  <2> QED
    BY <1>a, <2>1 DEF WriterInv, stream
<1>7. CASE OnRead
  <2>1. posted # <<>> /\ posted' = Tail(posted) /\ UNCHANGED <<stream, call>>
        /\ sound' \in BOOLEAN
    BY <1>a, <1>7 DEF OnRead, Next1
  <2>2. Elements(posted') \subseteq Elements(posted)
    BY <1>0, <2>1, TakeHead
  <2>3. grpc'["Write"] = grpc["Write"] /\ grpc'["Finish"] = grpc["Finish"]
    BY <1>a, <1>7 DEF OnRead, Issue
  <2> QED
    BY <1>a, <2>1, <2>2, <2>3 DEF WriterInv, stream, Has
<1>8. CASE OnWrite
  <2>1. posted # <<>> /\ Head(posted).type = "Write" /\ posted' = Tail(posted)
        /\ UNCHANGED <<finished, observer, call, sound>>
    BY <1>8 DEF OnWrite, Next1
  <2>2. /\ Elements(posted') \subseteq Elements(posted) /\ ~Has(posted', "Write")
        /\ grpc["Write"] = 0 /\ Has(posted, "Write")
    <3>1. Head(posted) \in Elements(posted)
      BY <1>0, <2>1, TakeHead
    <3> QED
      BY <1>0, <2>1, <3>1, TakeHead DEF Has
  <2>3. Has(posted', "Finish") => Has(posted, "Finish")
    BY <2>2 DEF Has
  <2>4. CASE buffered > 0 /\ buffered' = buffered - 1 /\ Issue("Write") /\ UNCHANGED active
    <3>1. grpc'["Finish"] = grpc["Finish"]
      BY <1>a, <2>4 DEF Issue
    <3>2. buffered' \in Nat /\ buffered' <= call.written
      BY <1>a, <2>4
    <3> QED
      BY <1>a, <2>1, <2>2, <2>3, <2>4, <3>1, <3>2 DEF WriterInv
  <2>5. CASE active' = FALSE /\ UNCHANGED <<buffered, grpc>>
    <3>1. grpc'["Write"] # 1 /\ {FALSE, finished, observer, sound} \subseteq BOOLEAN
      BY <1>a, <2>2, <2>5
    <3> QED
      BY <1>a, <2>1, <2>2, <2>3, <2>5, <3>1 DEF WriterInv
  <2> QED
    BY <1>8, <2>4, <2>5 DEF OnWrite
<1>9. CASE OnOperationFailed
  <2>1. posted # <<>> /\ (posted' = Tail(posted) \/ posted' = <<>>) /\ finished' \in {finished, TRUE}
        /\ UNCHANGED <<grpc, buffered, active, observer, call, sound>>
    BY <1>9 DEF OnOperationFailed
  <2>2. Elements(posted') \subseteq Elements(posted)
    BY <1>0, <2>1, TakeHead, NothingPosted
  <2>3. (Has(posted', "Write") => Has(posted, "Write"))
        /\ (Has(posted', "Finish") => Has(posted, "Finish"))
    BY <2>2 DEF Has
  <2>4. {active, finished, observer, sound}' \subseteq BOOLEAN
    BY <1>a, <2>1
  <2>5. grpc'["Finish"] = 1 \/ Has(posted', "Finish") => finished'
    <3>1. finished => finished'
      BY <1>a, <2>1
    <3> QED
      BY <1>a, <2>1, <2>3, <3>1, Zenon
  <2>6. grpc'["Write"] = 1 \/ Has(posted', "Write") => active'
    BY <1>a, <2>1, <2>3, Zenon
  <2> QED
    BY <1>a, <2>1, <2>4, <2>5, <2>6 DEF WriterInv
<1>10. CASE OnFinish
  <2>1. posted' = <<>> /\ observer' = FALSE /\ UNCHANGED <<grpc, buffered, active, finished, call, sound>>
    BY <1>10 DEF OnFinish
  <2>2. ~Has(posted', "Write") /\ ~Has(posted', "Finish")
    BY <2>1, NothingPosted
  <2>3. {active, finished, observer, sound}' \subseteq BOOLEAN
    BY <1>a, <2>1
  <2> QED
    BY <1>a, <2>1, <2>2, <2>3 DEF WriterInv
<1>11. ASSUME NEW type \in Types, NEW ok \in BOOLEAN, NEW message \in Nat, Back(type, ok, message),
              call'.written = call.written
       PROVE  WriterInv'
  <2>1. grpc[type] = 1 /\ grpc'[type] = 0 /\ UNCHANGED <<stream, sound>>
        /\ \A other \in Types \ {type} : grpc'[other] = grpc[other]
    BY <1>0, <1>11, BackSingle DEF Back
  <2>2. \A other : Has(posted', other) => Has(posted, other) \/ other = type
    BY <1>0, <1>11, BackSingle DEF Has
  <2>3. \A other \in Types : grpc'[other] = 1 => grpc[other] = 1
    BY <2>1
  <2>4. grpc'["Write"] = 1 \/ Has(posted', "Write") => active
    BY <1>a, <2>1, <2>2, <2>3
  <2>5. grpc'["Finish"] = 1 \/ Has(posted', "Finish") => finished
    BY <1>a, <2>1, <2>2, <2>3
  <2> QED
    BY <1>a, <1>11, <2>1, <2>4, <2>5 DEF WriterInv, stream
<1>12. CASE ReadBack
  <2>1. call.read + 1 \in Nat /\ call'.written = call.written
    BY <1>b, <1>12 DEF ReadBack, RecordsInv
  <2> QED
    BY <1>a, <1>11, <1>12, <2>1 DEF ReadBack
<1>13. CASE WriteBack \/ FinishBack \/ FailedBack
  BY <1>a, <1>11, <1>13 DEF WriteBack, FinishBack, FailedBack
<1>14. CASE ServerSends \/ CallEnds
  <2>1. call'.written = call.written
    BY <1>b, <1>14 DEF ServerSends, CallEnds, RecordsInv
  <2> QED
    BY <1>a, <1>14, <2>1 DEF ServerSends, CallEnds, stream, WriterInv
<1>15. CASE UNCHANGED vars
  BY <1>a, <1>15 DEF vars, stream, WriterInv
<1> QED
  BY <1>1, <1>2, <1>3, <1>4, <1>5, <1>6, <1>7, <1>8, <1>9, <1>10, <1>12, <1>13, <1>14, <1>15
  DEF Next

(* What gRPC read is handed over, or the one message that is posted, or    *)
(* cancelled with the call.                                                *)
LEMMA MessageStep == IInv /\ [Next]_vars => MessageInv'
<1> SUFFICES ASSUME IInv, [Next]_vars PROVE MessageInv'
  OBVIOUS
<1>0. SingleInv /\ WaitInv /\ MessageInv /\ RecordsInv
  BY DEF IInv
<1>a. /\ call.sent \in Nat /\ call.read \in Nat /\ handed.messages \in Nat
      /\ MaxMessages \in Nat
      /\ handed.messages <= call.read /\ call.read <= call.sent /\ call.sent <= MaxMessages
      /\ call \in [end : Ends, sent : Nat, read : Nat, written : Nat]
      /\ handed \in [messages : Nat, status : Ends \cup {"none"}, closed : BOOLEAN]
  BY <1>0, StreamAssumption DEF MessageInv, RecordsInv
(* Nothing is posted or taken but what is no message.                      *)
<1>b. ASSUME call'.sent = call.sent, call'.read = call.read, handed'.messages = handed.messages,
             \A c \in Elements(posted') : IsMessage(c) => c \in Elements(posted) /\ ~finished',
             phase' = "new" => phase = "new",
             finished' \/ worker' \notin {"free", "lastWrite"} \/ phase' # "live"
               \/ /\ ~finished /\ phase = "live" /\ worker \in {"free", "lastWrite"}
                  /\ \A c \in Elements(posted) : IsMessage(c) => c \in Elements(posted'),
             finished => finished'
      PROVE  MessageInv'
  <2>1. {call'.sent, call'.read, handed'.messages} \subseteq Nat
        /\ handed'.messages <= call'.read /\ call'.read <= call'.sent
        /\ call'.sent <= MaxMessages
    BY <1>a, <1>b
  <2>2. phase' = "new" => call'.read = 0
    BY <1>0, <1>b DEF MessageInv
  <2>3. \A c \in Elements(posted') : IsMessage(c) =>
          ~finished' /\ c.message = handed'.messages + 1 /\ call'.read = handed'.messages + 1
    BY <1>0, <1>b DEF MessageInv
  <2>4. ~finished' /\ phase' = "live" /\ worker' \in {"free", "lastWrite"}
         /\ (\A c \in Elements(posted') : ~IsMessage(c)) => handed'.messages = call'.read
    BY <1>0, <1>b DEF MessageInv
  <2> QED
    BY <2>1, <2>2, <2>3, <2>4 DEF MessageInv
<1>1. CASE Start
  <2>1. call.read = 0 /\ posted = <<>> /\ handed.messages = 0 /\ phase' = "live"
        /\ UNCHANGED <<posted, finished, call, handed>>
    <3>1. call.read = 0 /\ posted = <<>>
      BY <1>0, <1>1 DEF Start, WaitInv, MessageInv, NoCompletions
    <3> QED
      BY <1>a, <1>1, <3>1 DEF Start, stream
  <2>2. Elements(posted') = {}
    BY <2>1, ElementsEmpty
  <2> QED
    BY <1>a, <2>1, <2>2 DEF MessageInv
<1>2. CASE Write
  <2>1. call'.sent = call.sent /\ call'.read = call.read
    BY <1>a, <1>2 DEF Write
  <2> QED
    BY <1>0, <1>2, <2>1, <1>b DEF Write, Running, MessageInv
<1>3. CASE FinishImmediately \/ LastWriteWaited
  <2>1. posted' = <<>> /\ (finished => finished') /\ (worker' = "last" \/ worker' = "closing")
        /\ phase' = phase
        /\ (handed' = handed \/ handed' = [handed EXCEPT !.closed = TRUE])
        /\ (call' = call \/ \E end : call' = [call EXCEPT !.end = end])
    BY <1>3 DEF FinishImmediately, LastWriteWaited, Shutdown
  <2>2. call'.sent = call.sent /\ call'.read = call.read /\ handed'.messages = handed.messages
    BY <1>a, <2>1
  <2> QED
    BY <2>1, <2>2, <1>b, ElementsEmpty
<1>4. CASE FinishUnstarted
  <2>1. handed'.messages = handed.messages
    BY <1>a, <1>4 DEF FinishUnstarted
  <2>2. posted = <<>> /\ Elements(posted) = {}
    BY <1>0, <1>4, ElementsEmpty DEF FinishUnstarted, WaitInv, NoCompletions
  <2> QED
    BY <1>4, <2>1, <2>2, <1>b DEF FinishUnstarted
<1>5. CASE WriteAndFinish
  <2>1. handed'.messages = handed.messages
    BY <1>a, <1>5 DEF WriteAndFinish
  <2> QED
    BY <1>0, <1>5, <2>1, <1>b DEF WriteAndFinish, Running, MessageInv
<1>6. CASE IssueFinish \/ Release
  <2>1. UNCHANGED <<posted, stream, call, handed>> /\ posted = <<>>
        /\ (phase' = "gone" \/ (phase' = phase /\ (worker' = "last" \/ finished)))
    BY <1>0, <1>6 DEF IssueFinish, Release, WaitInv
  <2> QED
    BY <2>1, <1>b, ElementsEmpty DEF stream
<1>7. CASE OnRead
  <2>1. posted # <<>> /\ IsMessage(Head(posted)) /\ Head(posted).type = "Read"
        /\ posted' = Tail(posted) /\ UNCHANGED <<stream, worker, phase, call>>
        /\ phase = "live"
    BY <1>7 DEF OnRead, Next1, IsMessage, Running
  <2>2. handed'.messages = handed.messages + 1
    BY <1>a, <1>7 DEF OnRead
  <2>3. call.read = handed.messages + 1
    <3>1. Head(posted) \in Elements(posted)
      BY <1>0, <2>1, TakeHead
    <3> QED
      BY <1>0, <2>1, <3>1 DEF MessageInv
  <2>4. \A c \in Elements(posted') : ~IsMessage(c)
    BY <1>0, <2>1, TakeHead DEF Has, IsMessage
  <2> QED
    BY <1>a, <2>1, <2>2, <2>3, <2>4 DEF MessageInv
<1>8. CASE OnWrite
  <2>1. posted # <<>> /\ Head(posted).type = "Write" /\ posted' = Tail(posted)
        /\ UNCHANGED <<finished, worker, phase, call, handed>>
        /\ phase = "live" /\ worker = "free"
    BY <1>8 DEF OnWrite, Next1, Running
  <2>2. \A c : IsMessage(c) => (c \in Elements(posted) <=> c \in Elements(posted'))
    BY <1>0, <2>1, TakeHead DEF IsMessage
  <2>3. \A c \in Elements(posted) : IsMessage(c) => ~finished
    BY <1>0 DEF MessageInv
  <2> QED
    BY <2>1, <2>2, <2>3, <1>b
<1>9. CASE OnOperationFailed
  <2>1. posted # <<>> /\ UNCHANGED <<phase, call, handed>>
    BY <1>9 DEF OnOperationFailed
  <2>2. CASE finished /\ posted' = Tail(posted) /\ UNCHANGED <<finished, worker>>
    <3>1. \A c \in Elements(posted) : ~IsMessage(c)
      BY <1>0, <2>2 DEF MessageInv
    <3>2. \A c \in Elements(posted') : ~IsMessage(c)
      BY <1>0, <2>1, <2>2, <3>1, TakeHead
    <3> QED
      BY <2>1, <2>2, <3>2, <1>b
  <2>3. CASE posted' = <<>> /\ finished' = TRUE
    BY <2>1, <2>3, <1>b, ElementsEmpty
  <2> QED
    BY <1>9, <2>2, <2>3 DEF OnOperationFailed
<1>10. CASE OnFinish
  <2>1. posted' = <<>> /\ worker' = "last" /\ UNCHANGED <<finished, phase, call>>
        /\ handed' = [handed EXCEPT !.status = call.end]
    BY <1>10 DEF OnFinish
  <2>2. handed'.messages = handed.messages
    BY <1>a, <2>1
  <2> QED
    BY <2>1, <2>2, <1>b, ElementsEmpty
<1>11. CASE ReadBack
  <2>1. /\ Back("Read", TRUE, call.read + 1) /\ call.read < call.sent /\ ~finished
        /\ call' = [call EXCEPT !.read = call.read + 1]
        /\ UNCHANGED <<stream, worker, phase, handed>>
    BY <1>11 DEF ReadBack, Back
  <2>2. call'.read = call.read + 1 /\ call'.sent = call.sent /\ call.read + 1 \in Nat
    BY <1>a, <2>1
  <2>3. grpc["Read"] = 1 /\ ~Has(posted, "Read")
    BY <1>0, <2>1, <2>2, BackSingle DEF Types
  <2>4. phase = "live" /\ worker \in {"free", "lastWrite"}
    BY <1>0, <2>1, <2>3 DEF WaitInv, NoCompletions, Types
  <2>5. \A c \in Elements(posted) : ~IsMessage(c)
    BY <2>3 DEF Has, IsMessage
  <2>6. call.read = handed.messages
    BY <1>0, <2>1, <2>4, <2>5 DEF MessageInv
  <2>7. Elements(posted') = Elements(posted) \cup
                              {[type |-> "Read", ok |-> TRUE, message |-> call.read + 1]}
    BY <1>0, <2>1, <2>2, <2>4, BackSingle DEF Types
  <2>8. \A c \in Elements(posted') : IsMessage(c) =>
          ~finished' /\ c.message = handed'.messages + 1 /\ call'.read = handed'.messages + 1
    BY <2>1, <2>2, <2>5, <2>6, <2>7 DEF stream
  <2>9. \E c \in Elements(posted') : IsMessage(c)
    <3> DEFINE c == [type |-> "Read", ok |-> TRUE, message |-> call.read + 1]
    <3>1. IsMessage(c)
      BY DEF IsMessage
    <3> QED
      BY <2>7, <3>1
  <2>10. {call'.sent, call'.read, handed'.messages} \subseteq Nat
         /\ handed'.messages <= call'.read /\ call'.read <= call'.sent
         /\ call'.sent <= MaxMessages
    BY <1>a, <2>1, <2>2
  <2> QED
    BY <2>1, <2>4, <2>8, <2>9, <2>10 DEF MessageInv
<1>12. ASSUME NEW type \in Types, NEW ok \in BOOLEAN, Back(type, ok, 0), UNCHANGED call,
              type # "Read" \/ ~ok
       PROVE  MessageInv'
  <2>1. UNCHANGED <<stream, worker, phase, handed>> /\ grpc[type] = 1
    BY <1>0, <1>12, BackSingle DEF Back
  <2>2. phase = "live"
    BY <1>0, <2>1 DEF WaitInv, NoCompletions
  <2>3. \A c : IsMessage(c) => (c \in Elements(posted) <=> c \in Elements(posted'))
    BY <1>0, <1>12, BackSingle DEF IsMessage
  <2>4. \A c \in Elements(posted) : IsMessage(c) => ~finished
    BY <1>0 DEF MessageInv
  <2> QED
    BY <1>12, <2>1, <2>2, <2>3, <2>4, <1>b DEF stream
<1>13. CASE WriteBack \/ FinishBack \/ FailedBack
  BY <1>12, <1>13 DEF WriteBack, FinishBack, FailedBack, Types
<1>14. CASE ServerSends
  <2>1. call' = [call EXCEPT !.sent = call.sent + 1] /\ call.sent < MaxMessages
        /\ UNCHANGED <<posted, finished, worker, phase, handed>>
    BY <1>14 DEF ServerSends, stream
  <2>2. call'.sent = call.sent + 1 /\ call'.read = call.read
    BY <1>a, <2>1
  <2>3. {call'.sent, call'.read, handed'.messages} \subseteq Nat
        /\ handed'.messages <= call'.read /\ call'.read <= call'.sent
        /\ call'.sent <= MaxMessages
    BY <1>a, <2>1, <2>2
  <2> QED
    BY <1>0, <2>1, <2>2, <2>3 DEF MessageInv
<1>15. CASE CallEnds
  <2>1. call'.sent = call.sent /\ call'.read = call.read
        /\ UNCHANGED <<posted, finished, worker, phase, handed>>
    BY <1>a, <1>15 DEF CallEnds, stream
  <2> QED
    BY <1>0, <2>1 DEF MessageInv
<1>16. CASE UNCHANGED vars
  BY <1>0, <1>16 DEF vars, stream, MessageInv
<1> QED
  BY <1>1, <1>2, <1>3, <1>4, <1>5, <1>6, <1>7, <1>8, <1>9, <1>10, <1>11, <1>13, <1>14, <1>15,
     <1>16 DEF Next

(* No HARD_ASSERT fails: what is destroyed is no longer referred to, and   *)
(* what is handed over is the next message.                                *)
LEMMA SoundStep == IInv /\ [Next]_vars => sound'
<1> SUFFICES ASSUME IInv, [Next]_vars PROVE sound'
  OBVIOUS
<1>0. SingleInv /\ WaitInv /\ MessageInv /\ sound
  BY DEF IInv
<1>1. CASE Release
  BY <1>0, <1>1 DEF Release, Drained, NoCompletions, WaitInv
<1>2. CASE OnRead
  <2>1. posted # <<>> /\ IsMessage(Head(posted))
    BY <1>2 DEF OnRead, Next1, IsMessage
  <2>2. Head(posted) \in Elements(posted)
    BY <1>0, <2>1, TakeHead
  <2>3. Head(posted).message = handed.messages + 1
    BY <1>0, <2>1, <2>2 DEF MessageInv
  <2> QED
    BY <1>0, <1>2, <2>3 DEF OnRead
<1>3. CASE UNCHANGED sound
  BY <1>0, <1>3
<1> QED
  BY <1>1, <1>2, <1>3 DEF Next, Start, Write, FinishImmediately, FinishUnstarted, WriteAndFinish,
     LastWriteWaited, IssueFinish, OnWrite, OnOperationFailed, OnFinish, ReadBack, WriteBack,
     FinishBack, FailedBack, Back, ServerSends, CallEnds, vars

-------------------------------------------------------------------------------

(* A new stream has issued nothing.                                        *)
LEMMA InitInv == Init => IInv
<1> SUFFICES ASSUME Init PROVE IInv
  OBVIOUS
<1>1. SingleInv
  BY NothingPosted DEF Init, SingleInv, Types
<1>2. WriterInv
  <2>1. grpc["Write"] # 1 /\ ~Has(posted, "Write") /\ grpc["Finish"] # 1 /\ ~Has(posted, "Finish")
    BY NothingPosted DEF Init, Types
  <2>2. {active, finished, observer, sound} \subseteq BOOLEAN
    BY DEF Init
  <2>3. buffered = 0 /\ call.written = 0 /\ MaxWrites \in Nat
    BY StreamAssumption DEF Init
  <2> QED
    BY <2>1, <2>2, <2>3 DEF WriterInv
<1>3. WaitInv
  BY DEF Init, WaitInv, NoCompletions
<1>4. MessageInv
  BY NothingPosted, StreamAssumption DEF Init, MessageInv
<1>5. RecordsInv /\ sound
  BY DEF Init, RecordsInv, Ends
<1> QED
  BY <1>1, <1>2, <1>3, <1>4, <1>5 DEF IInv

(* The invariant holds in every reachable state, for any bounds.           *)
THEOREM Inductive == Spec => []IInv
<1>1. IInv /\ [Next]_vars => IInv'
  BY SingleStep, WriterStep, WaitStep, MessageStep, RecordsStep, SoundStep DEF IInv
<1> QED
  BY InitInv, <1>1, PTL DEF Spec

(* The tags obey gRPC: no more than one read and one write, Finish alone,  *)
(* none left when the stream is destroyed, the messages in order.          *)
THEOREM TagsRight == Spec => TagsFollowTheRules
<1>1. IInv => TypeOK /\ NoAssertionFails /\ OneOfEach
  <2> SUFFICES ASSUME IInv PROVE TypeOK /\ NoAssertionFails /\ OneOfEach
    OBVIOUS
  <2>1. grpc \in [Types -> {0, 1}] /\ posted \in Seq(Completion)
    BY DEF IInv, SingleInv
  <2>2. grpc \in [Types -> 0..2] /\ OneOfEach
    BY <2>1 DEF OneOfEach, Types
  <2>3. \A i \in DOMAIN posted : posted[i].type \in Types /\ posted[i].ok \in BOOLEAN
    <3>1. \A c \in Completion : c.type \in Types /\ c.ok \in BOOLEAN
      BY Zenon DEF Completion
    <3>2. \A i \in DOMAIN posted : posted[i] \in Completion
      BY <2>1
    <3> QED
      BY <3>1, <3>2, Zenon
  <2>4. buffered \in 0..MaxWrites
    BY StreamAssumption DEF IInv, WriterInv
  <2>5. handed.messages \in 0..MaxMessages
    BY StreamAssumption DEF IInv, MessageInv
  <2> QED
    BY <2>2, <2>3, <2>4, <2>5 DEF IInv, WriterInv, WaitInv, TypeOK, NoAssertionFails
<1>2. IInv /\ [Next]_vars =>
        [grpc'["Finish"] > grpc["Finish"] => grpc'["Read"] = 0 /\ grpc'["Write"] = 0]_vars
  <2> SUFFICES ASSUME IInv, [Next]_vars, grpc'["Finish"] > grpc["Finish"]
               PROVE  grpc'["Read"] = 0 /\ grpc'["Write"] = 0
    OBVIOUS
  <2>1. grpc \in [Types -> {0, 1}] /\ Types = {"Read", "Write", "Finish"}
    BY DEF IInv, SingleInv, Types
  <2>2. CASE IssueFinish
    BY <2>1, <2>2 DEF IssueFinish, Issue, Drained
  <2>3. ASSUME NEW type \in Types, grpc' = [grpc EXCEPT ![type] = @ - 1] PROVE FALSE
    BY <2>1, <2>3
  <2>4. ASSUME NEW type \in {"Read", "Write"}, Issue(type) PROVE FALSE
    BY <2>1, <2>4 DEF Issue
  <2>5. ASSUME UNCHANGED grpc PROVE FALSE
    BY <2>1, <2>5
  <2>6. CASE Start \/ Write \/ WriteAndFinish \/ OnRead \/ OnWrite
    BY <2>4, <2>5, <2>6 DEF Start, Write, WriteAndFinish, OnRead, OnWrite
  <2>7. CASE ReadBack \/ WriteBack \/ FinishBack \/ FailedBack
    BY <2>1, <2>3, <2>7 DEF ReadBack, WriteBack, FinishBack, FailedBack, Back
  <2>8. CASE \/ FinishImmediately \/ FinishUnstarted \/ LastWriteWaited \/ Release
             \/ OnOperationFailed \/ OnFinish \/ ServerSends \/ CallEnds \/ UNCHANGED vars
    BY <2>5, <2>8 DEF FinishImmediately, FinishUnstarted, LastWriteWaited, Release,
       OnOperationFailed, OnFinish, ServerSends, CallEnds, vars
  <2> QED
    BY <2>2, <2>6, <2>7, <2>8 DEF Next
<1> QED
  BY <1>1, <1>2, Inductive, PTL DEF Spec, TagsFollowTheRules, FinishComesAlone

===============================================================================
