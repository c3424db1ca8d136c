------------------------- MODULE PersonPicturesProofs -------------------------
(***************************************************************************)
(* For any people, cells, pictures and bounds: a late picture is ignored,  *)
(* and every download is served.                                           *)
(*                                                                         *)
(* The first rests on what a receipt stands for: the completion compares   *)
(* URLs, not downloads, and through every reuse of its cell a receipt's    *)
(* request is for the picture of the person in the cell, also when the     *)
(* view joined a request that another one made.                            *)
(*                                                                         *)
(* The second rests on where operations are.  One is in the handler of a   *)
(* URL, with the job that took the handler, or on the main queue, and what *)
(* is in none was completed; slots are taken by the requests that were     *)
(* made and have not waited, and given back by those that were handled;    *)
(* and the operation of a cell's receipt is where the completion of its    *)
(* request will come from.                                                 *)
(***************************************************************************)
EXTENDS PersonPictures, SequenceTheorems, FiniteSetTheorems, TLAPS

Completions == [id : Downloads, view : Views, url : Urls, ok : BOOLEAN]
States == {"none", "initialized", "resumed", "cancelled"}
Stages == {"none", "fetch", "remove", "serve", "decrement", "next", "done"}

(* A controller that waits for its person is kept.                         *)
ScreenInv ==
    /\ opened \in 0..MaxDetails /\ downloads \in 0..MaxDownloads /\ screen \in 0..opened
    /\ alive \subseteq Views /\ Cells \subseteq alive
    /\ asking \subseteq alive \cap (1..opened)
    /\ row \in [Views -> Rows \cup {Nothing}] /\ \A n \in asking : row[n] \in Rows
    /\ image \in [Views -> Urls \cup {Nothing}]

(* setImage runs for a view that is there and has its person.              *)
SettingInv ==
    setting = Idle \/ /\ setting \in [view : Cells \cup (1..opened), at : {"cache", "download"}]
                      /\ setting.view \in alive \ asking
                      /\ row[setting.view] \in Rows
                      /\ downloads < MaxDownloads

(* A receipt is for the picture of the view's person.                      *)
ReceiptInv ==
    /\ url \in [Downloads -> Urls \cup {Nothing}]
    /\ receipt \in [Views -> [id : Downloads, request : Downloads] \cup {NoReceipt}]
    /\ \A v \in Views : receipt[v] # NoReceipt =>
          /\ receipt[v].request <= downloads
          /\ row[v] \in Rows /\ url[receipt[v].request] = Picture[row[v]]
          /\ v \in Details => v <= opened

(* A handler's request is for the URL it is found under.                   *)
HandlerInv ==
    /\ handlers \in [Urls -> Handler \cup {NoHandler}]
    /\ \A u \in Urls : handlers[u] # NoHandler =>
          handlers[u].request <= downloads /\ url[handlers[u].request] = u

(* A request that was made has a URL, and so has what is completed.        *)
JobInv ==
    /\ state \in [Downloads -> States]
    /\ job \in [Downloads -> [at : Stages, ok : BOOLEAN, ops : Seq(Operations)]]
    /\ \A r \in Downloads : state[r] # "none" \/ job[r].at # "none" => url[r] \in Urls
    /\ main \in Seq(Completions)

IInv == ScreenInv /\ SettingInv /\ ReceiptInv /\ HandlerInv /\ JobInv

-------------------------------------------------------------------------------
(* What the parts of setImage do to the queues and handlers. *)

(* An operation that is taken out of a handler leaves the others.          *)
LEMMA WithoutOne ==
    ASSUME NEW S, NEW s \in Seq(S), NEW i \in 1..Len(s)
    PROVE  RemoveAt(s, i) \in Seq(S) /\ s[i] \in S
<1>1. SubSeq(s, 1, i - 1) \in Seq(S) /\ SubSeq(s, i + 1, Len(s)) \in Seq(S)
  <2>1. \A k \in 1..(i - 1) : k \in 1..Len(s)
    OBVIOUS
  <2>2. \A k \in (i + 1)..Len(s) : k \in 1..Len(s)
    OBVIOUS
  <2> QED
    BY <2>1, <2>2, SubSeqProperties
<1> QED
  BY <1>1 DEF RemoveAt

(* Cancelling completes an operation of the handler, and what it leaves is *)
(* the same request's handler or none.                                     *)
LEMMA CancelKeeps ==
    ASSUME ReceiptInv, HandlerInv, JobInv, NEW v \in Views, CancelRequest(v),
           UNCHANGED <<url, downloads, job>>
    PROVE  HandlerInv' /\ JobInv'
<1> DEFINE u == url[receipt[v].request]
           ops == handlers[u].ops
           mine == {i \in DOMAIN ops : ops[i].id = receipt[v].id}
           index == CHOOSE i \in mine : TRUE
           left == IF mine = {} THEN ops ELSE RemoveAt(ops, index)
<1>1. CASE receipt[v] = NoReceipt \/ handlers[u] = NoHandler
  BY <1>1 DEF CancelRequest, HandlerInv, JobInv
<1>2. CASE ~(receipt[v] = NoReceipt \/ handlers[u] = NoHandler)
  <2>1. /\ main' = IF mine = {} THEN main ELSE Append(main, Completion(ops[index], u, FALSE))
        /\ handlers' = [handlers EXCEPT ![u] = IF left = <<>> THEN NoHandler
                                               ELSE [handlers[u] EXCEPT !.ops = left]]
        /\ state' = IF left = <<>> THEN [state EXCEPT ![receipt[v].request] = "cancelled"]
                    ELSE state
    BY <1>2 DEF CancelRequest
  <2>2. u \in Urls /\ receipt[v].request \in Downloads
    BY <1>2, PictureAssumption DEF ReceiptInv
  <2>3. handlers[u] \in Handler
    BY <1>2, <2>2 DEF HandlerInv
  <2>4. ops \in Seq(Operations) /\ handlers[u].request \in Downloads
    BY <2>3 DEF Handler
  <2>5. left \in Seq(Operations) /\ (mine # {} => ops[index] \in Operations)
    BY <2>4, WithoutOne
  <2> HIDE DEF left, mine, index
  <2>6. [handlers[u] EXCEPT !.ops = left] \in Handler
    BY <2>3, <2>5 DEF Handler
  <2>7. [handlers[u] EXCEPT !.ops = left].request = handlers[u].request
    BY <2>3 DEF Handler
  <2>8. HandlerInv'
    <3>1. handlers' \in [Urls -> Handler \cup {NoHandler}]
      BY <2>1, <2>6 DEF HandlerInv
    <3>2. ASSUME NEW w \in Urls, handlers'[w] # NoHandler
          PROVE  handlers'[w].request <= downloads /\ url[handlers'[w].request] = w
      BY <1>2, <2>1, <2>2, <2>7, <3>2 DEF HandlerInv
    <3> QED
      BY <3>1, <3>2 DEF HandlerInv
  <2>9. main' \in Seq(Completions)
    <3>1. mine # {} => Completion(ops[index], u, FALSE) \in Completions
      BY <2>2, <2>5 DEF Completion, Completions, Operations
    <3> QED
      <4>1. main \in Seq(Completions)
        BY DEF JobInv
      <4>2. \A c \in Completions : Append(main, c) \in Seq(Completions)
        BY <4>1
      <4> QED
        BY <2>1, <3>1, <4>1, <4>2, Zenon
  <2>10. /\ state' \in [Downloads -> States]
         /\ \A r \in Downloads : state'[r] # "none" \/ job[r].at # "none" => url[r] \in Urls
    BY <2>1, <2>2 DEF JobInv, States
  <2> QED
    BY <2>8, <2>9, <2>10 DEF JobInv
<1> QED
  BY <1>1, <1>2

-------------------------------------------------------------------------------
(* Each part of the invariant is kept by each action. *)

(* The screens come and go, and a view stays while its setImage runs.      *)
LEMMA ScreenStep == IInv /\ [Next]_vars => ScreenInv'
<1> SUFFICES ASSUME IInv, [Next]_vars PROVE ScreenInv'
  OBVIOUS
<1>0. ScreenInv /\ SettingInv
  BY DEF IInv
<1>a. /\ Cells \cap Details = {} /\ MaxDetails \in Nat /\ MaxDownloads \in Nat
      /\ Views = Cells \cup Details /\ Details = 1..MaxDetails /\ opened \in Nat /\ opened <= MaxDetails
  BY <1>0, PictureAssumption DEF Views, Details, ScreenInv
<1>1. CASE LookUp
  <2>1. /\ UNCHANGED <<opened, downloads, screen, asking, row>>
        /\ alive' \in {alive, WithoutLeft(setting.view, screen)}
        /\ image' = image \/ image' = [image EXCEPT ![setting.view] = Picture[row[setting.view]]]
    BY <1>1 DEF LookUp, app
  <2>2. setting.view \notin asking /\ row[setting.view] \in Rows
    BY <1>0, <1>1 DEF LookUp, SettingInv, Idle
  <2>3. Picture[row[setting.view]] \in Urls
    BY <2>2, PictureAssumption
  <2> QED
    BY <1>0, <1>a, <2>1, <2>2, <2>3 DEF ScreenInv, WithoutLeft
<1>2. CASE Download
  <2>1. /\ UNCHANGED <<opened, screen, asking, row, image>> /\ downloads' = downloads + 1
        /\ alive' = WithoutLeft(setting.view, screen)
    BY <1>2 DEF Download, app
  <2>2. setting.view \notin asking /\ downloads < MaxDownloads
    BY <1>0, <1>2 DEF Download, SettingInv, Idle
  <2> QED
    BY <1>0, <1>a, <2>1, <2>2 DEF ScreenInv, WithoutLeft
<1>3. CASE Complete
  <2>1. /\ UNCHANGED <<opened, downloads, screen, alive, asking, row>>
        /\ image' = image \/ \E v : image' = [image EXCEPT ![v] = Head(main).url]
    BY <1>3 DEF Complete, app
  <2>2. Head(main).url \in Urls
    <3>1. main \in Seq(Completions) /\ main # <<>>
      BY <1>3 DEF Complete, IInv, JobInv
    <3>2. Head(main) \in Completions
      BY <3>1
    <3> QED
      BY <3>2 DEF Completions
  <2> QED
    BY <1>0, <2>1, <2>2 DEF ScreenInv
<1>4. ASSUME NEW v \in Cells, NEW r \in Rows, SetImage(v, r),
             UNCHANGED <<alive, image, app, downloads>>
      PROVE  ScreenInv'
  BY <1>0, <1>a, <1>4 DEF SetImage, ScreenInv, app
<1>5. CASE CellForItemAt
  BY <1>4, <1>5 DEF CellForItemAt
<1>6. CASE Prepare
  BY <1>0, <1>a, <1>6 DEF Prepare, ScreenInv
<1>7. CASE UpdateInfo
  BY <1>0, <1>a, <1>7 DEF UpdateInfo, SetImage, ScreenInv
<1>8. CASE InfoFails
  BY <1>0, <1>a, <1>8 DEF InfoFails, WithoutLeft, ScreenInv
<1>9. CASE Back
  BY <1>0, <1>a, <1>9 DEF Back, ScreenInv
<1>10. CASE UNCHANGED <<views, app, downloads>>
  BY <1>0, <1>10 DEF views, app, ScreenInv
<1> QED
  BY <1>1, <1>2, <1>3, <1>5, <1>6, <1>7, <1>8, <1>9, <1>10
  DEF Next, User, DidCreateTask, RemoveAllImages, Answer, Respond, vars

(* A setImage that begins has a view and a person, and a download left.    *)
LEMMA SettingStep == IInv /\ [Next]_vars => SettingInv'
<1> SUFFICES ASSUME IInv, [Next]_vars PROVE SettingInv'
  OBVIOUS
<1>0. ScreenInv /\ SettingInv
  BY DEF IInv
<1>a. /\ Cells \cap Details = {} /\ MaxDetails \in Nat /\ MaxDownloads \in Nat
      /\ Views = Cells \cup Details /\ Details = 1..MaxDetails /\ opened \in Nat /\ opened <= MaxDetails
  BY <1>0, PictureAssumption DEF Views, Details, ScreenInv
<1>1. CASE LookUp
  <2>1. CASE setting' = Idle
    BY <2>1 DEF SettingInv
  <2>2. CASE setting' = [setting EXCEPT !.at = "download"] /\ UNCHANGED <<alive, asking, opened, row, downloads>>
    BY <1>0, <1>1, <2>2 DEF SettingInv, LookUp, Idle
  <2> QED
    BY <1>1, <2>1, <2>2 DEF LookUp, app
<1>2. ASSUME NEW v \in (Cells \cup (1..opened)) \cap alive, NEW r \in Rows, SetImage(v, r),
             MayLoad, v \notin asking', UNCHANGED <<alive, downloads, opened>>
      PROVE  SettingInv'
  <2>1. CASE setting' = setting
    BY <1>2, <2>1 DEF MayLoad, MainFree, SettingInv
  <2>2. CASE setting' = [view |-> v, at |-> "cache"]
    <3>1. row'[v] = r
      BY <1>0, <1>a, <1>2 DEF SetImage, ScreenInv
    <3> QED
      BY <1>0, <1>2, <2>2, <3>1 DEF MayLoad, SettingInv, ScreenInv
  <2> QED
    BY <1>2, <2>1, <2>2 DEF SetImage
<1>3. CASE CellForItemAt
  <2>1. \A c \in Cells : c \in alive /\ c \notin asking
    BY <1>0, <1>a DEF ScreenInv
  <2> QED
    BY <1>2, <1>3, <2>1 DEF CellForItemAt, app
<1>4. CASE UpdateInfo
  BY <1>0, <1>2, <1>4 DEF UpdateInfo, ScreenInv
<1>5. CASE setting' = Idle
  BY <1>5 DEF SettingInv
<1>6. CASE MainFree /\ setting' = setting
  BY <1>6 DEF MainFree, SettingInv
<1>7. CASE UNCHANGED <<setting, alive, app, row, downloads>>
  BY <1>0, <1>7 DEF app, SettingInv
<1> QED
  BY <1>1, <1>3, <1>4, <1>5, <1>6, <1>7
  DEF Next, User, Download, Complete, Prepare, InfoFails, Back, DidCreateTask, RemoveAllImages,
      Answer, Respond, views, vars

(* A receipt stays one for the view's person, whoever that becomes.        *)
LEMMA ReceiptStep == IInv /\ [Next]_vars => ReceiptInv'
<1> SUFFICES ASSUME IInv, [Next]_vars PROVE ReceiptInv'
  OBVIOUS
<1>0. ScreenInv /\ SettingInv /\ ReceiptInv /\ HandlerInv
  BY DEF IInv
<1>a. /\ Cells \cap Details = {} /\ MaxDetails \in Nat /\ MaxDownloads \in Nat
      /\ Views = Cells \cup Details /\ Details = 1..MaxDetails /\ opened \in Nat /\ opened <= MaxDetails
      /\ Downloads = 1..MaxDownloads /\ downloads \in Nat /\ downloads <= MaxDownloads
  BY <1>0, PictureAssumption DEF Views, Details, Downloads, ScreenInv
<1>1. CASE UNCHANGED <<url, receipt, downloads, row, opened>>
  BY <1>0, <1>1 DEF ReceiptInv
<1>2. CASE Download
  <2> DEFINE v == setting.view
             d == downloads + 1
             u == Picture[row[v]]
  <2>1. /\ v \in Views /\ row[v] \in Rows /\ d \in Downloads
        /\ v \in Details => v <= opened
    BY <1>0, <1>a, <1>2 DEF Download, SettingInv, Idle
  <2>2. u \in Urls /\ UNCHANGED <<row, opened>> /\ downloads' = d
    BY <1>2, <2>1, PictureAssumption DEF Download, app
  <2>3. Join(v, d, u) \/ TakeCached(v, d, u) \/ MakeRequest(v, d, u)
    BY <1>2 DEF Download
  <2> HIDE DEF v, u
  <2>4. CASE TakeCached(v, d, u)
    BY <1>0, <1>a, <2>2, <2>4 DEF TakeCached, ReceiptInv
  <2>5. ASSUME NEW r \in Downloads, r <= d, receipt' = [receipt EXCEPT ![v] = [id |-> d, request |-> r]],
               url' \in [Downloads -> Urls \cup {Nothing}], url'[r] = u,
               \A s \in Downloads : s <= downloads => url'[s] = url[s]
        PROVE  ReceiptInv'
    <3>1. receipt' \in [Views -> [id : Downloads, request : Downloads] \cup {NoReceipt}]
      BY <1>0, <2>1, <2>5 DEF ReceiptInv
    <3>2. ASSUME NEW w \in Views, receipt'[w] # NoReceipt
          PROVE  /\ receipt'[w].request <= downloads'
                 /\ row'[w] \in Rows /\ url'[receipt'[w].request] = Picture[row'[w]]
                 /\ w \in Details => w <= opened'
      <4>1. CASE w = v
        BY <1>0, <1>a, <2>1, <2>2, <2>5, <3>2, <4>1 DEF ReceiptInv, u
      <4>2. CASE w # v
        <5>1. receipt'[w] = receipt[w] /\ receipt[w].request \in Downloads
          BY <1>0, <1>a, <2>5, <3>2, <4>2 DEF ReceiptInv, NoReceipt
        <5> QED
          BY <1>0, <1>a, <2>2, <2>5, <3>2, <5>1 DEF ReceiptInv
      <4> QED
        BY <4>1, <4>2
    <3> QED
      BY <2>5, <3>1, <3>2 DEF ReceiptInv
  <2>6. CASE Join(v, d, u)
    <3>1. handlers[u] \in Handler /\ handlers[u].request <= downloads /\ url[handlers[u].request] = u
      BY <1>0, <2>2, <2>6 DEF Join, HandlerInv
    <3>2. handlers[u].request \in Downloads
      BY <3>1 DEF Handler
    <3>3. handlers[u].request <= d
      BY <1>a, <3>1, <3>2
    <3> QED
      BY <1>0, <2>5, <2>6, <3>1, <3>2, <3>3 DEF Join, ReceiptInv
  <2>7. CASE MakeRequest(v, d, u)
    <3>1. url' = [url EXCEPT ![d] = u] /\ receipt' = [receipt EXCEPT ![v] = [id |-> d, request |-> d]]
      BY <2>7 DEF MakeRequest
    <3>2. url' \in [Downloads -> Urls \cup {Nothing}] /\ url'[d] = u
          /\ \A s \in Downloads : s <= downloads => url'[s] = url[s]
      BY <1>0, <1>a, <2>1, <2>2, <3>1 DEF ReceiptInv
    <3>3. d \in Downloads /\ d <= d
      BY <1>a, <2>1
    <3> QED
      BY <2>5, <3>1, <3>2, <3>3
  <2> QED
    BY <2>3, <2>4, <2>6, <2>7
<1>3. CASE Complete
  <2>1. /\ UNCHANGED <<url, downloads, row, opened>>
        /\ receipt' = receipt \/ \E v : receipt' = [receipt EXCEPT ![v] = NoReceipt]
    BY <1>3 DEF Complete, requests, app
  <2> QED
    BY <1>0, <2>1 DEF ReceiptInv
<1>4. ASSUME NEW v \in Cells \cup (1..opened), NEW r \in Rows, SetImage(v, r), UNCHANGED <<url, downloads, opened>>
      PROVE  ReceiptInv'
  <2>1. v \in Views /\ row' = [row EXCEPT ![v] = r] /\ row'[v] = r
    BY <1>0, <1>a, <1>4 DEF SetImage, ScreenInv
  <2>2. CASE ActiveUrl(v) = Picture[r] /\ UNCHANGED receipt
    <3>1. receipt[v] # NoReceipt => url[receipt[v].request] = Picture[r]
      BY <2>2, PictureAssumption DEF ActiveUrl, Nothing
    <3> QED
      <4>1. ASSUME NEW w \in Views, receipt[w] # NoReceipt
            PROVE  /\ receipt[w].request <= downloads
                   /\ row'[w] \in Rows /\ url[receipt[w].request] = Picture[row'[w]]
                   /\ w \in Details => w <= opened
        <5>1. CASE w = v
          <6>1. row'[w] = r /\ url[receipt[w].request] = Picture[r]
            BY <2>1, <3>1, <4>1, <5>1
          <6> QED
            BY <1>0, <4>1, <6>1 DEF ReceiptInv
        <5>2. CASE w # v
          BY <1>0, <2>1, <4>1, <5>2 DEF ReceiptInv, ScreenInv
        <5> QED
          BY <5>1, <5>2
      <4> QED
        BY <1>0, <1>4, <2>2, <4>1 DEF ReceiptInv
  <2>3. CASE receipt' = [receipt EXCEPT ![v] = NoReceipt]
    BY <1>0, <1>4, <2>1, <2>3 DEF ReceiptInv, ScreenInv
  <2> QED
    BY <1>4, <2>2, <2>3 DEF SetImage
<1>5. CASE CellForItemAt
  BY <1>4, <1>5 DEF CellForItemAt, app
<1>6. CASE UpdateInfo
  BY <1>0, <1>4, <1>6 DEF UpdateInfo, ScreenInv
<1>7. CASE Prepare
  <2>1. PICK r \in Rows : row' = [row EXCEPT ![opened + 1] = r]
    BY <1>7 DEF Prepare
  <2>2. UNCHANGED <<url, receipt, downloads>> /\ opened' = opened + 1 /\ opened + 1 \in Details
    BY <1>a, <1>7 DEF Prepare, requests
  <2>3. receipt[opened + 1] = NoReceipt
    BY <1>0, <1>a, <2>2 DEF ReceiptInv
  <2> QED
    BY <1>0, <1>a, <2>1, <2>2, <2>3 DEF ReceiptInv, ScreenInv
<1> QED
  BY <1>1, <1>2, <1>3, <1>5, <1>6, <1>7
  DEF Next, User, LookUp, InfoFails, Back, DidCreateTask, RemoveAllImages, Answer, Respond, views,
      app, requests, vars

(* A handler is made for its URL, and stays the one of its request.        *)
LEMMA HandlerStep == IInv /\ [Next]_vars => HandlerInv'
<1> SUFFICES ASSUME IInv, [Next]_vars PROVE HandlerInv'
  OBVIOUS
<1>0. ScreenInv /\ SettingInv /\ ReceiptInv /\ HandlerInv /\ JobInv
  BY DEF IInv
<1>a. /\ MaxDownloads \in Nat /\ Views = Cells \cup Details /\ Details = 1..MaxDetails
      /\ MaxDetails \in Nat /\ opened \in Nat /\ opened <= MaxDetails
      /\ Downloads = 1..MaxDownloads /\ downloads \in Nat /\ downloads <= MaxDownloads
  BY <1>0, PictureAssumption DEF Views, Details, Downloads, ScreenInv
<1>1. CASE UNCHANGED <<url, downloads, handlers>>
  BY <1>0, <1>1 DEF HandlerInv
<1>2. ASSUME NEW r \in Downloads, Respond(r)
      PROVE  HandlerInv'
  <2>1. UNCHANGED <<url, downloads>>
        /\ (handlers' = handlers \/ \E u : handlers' = [handlers EXCEPT ![u] = NoHandler])
    BY <1>2 DEF Respond, Fetch, TakeHandler, Serve, Decrement, StartNext, downloader
  <2> QED
    BY <1>0, <2>1 DEF HandlerInv
<1>3. CASE Download
  <2> DEFINE v == setting.view
             d == downloads + 1
             u == Picture[row[v]]
             op == [id |-> d, view |-> v]
  <2>1. v \in Views /\ row[v] \in Rows /\ d \in Downloads
    BY <1>0, <1>a, <1>3 DEF Download, SettingInv, Idle
  <2>2. u \in Urls /\ downloads' = d /\ op \in Operations
    BY <1>3, <2>1, PictureAssumption DEF Download, Operations
  <2>3. Join(v, d, u) \/ TakeCached(v, d, u) \/ MakeRequest(v, d, u)
    BY <1>3 DEF Download
  <2> HIDE DEF v, u, op
  <2>4. CASE TakeCached(v, d, u)
    BY <1>0, <1>a, <2>2, <2>4 DEF TakeCached, HandlerInv, Handler
  <2>5. CASE Join(v, d, u)
    <3>1. handlers[u] \in Handler /\ handlers[u].request <= downloads /\ url[handlers[u].request] = u
      BY <1>0, <2>2, <2>5 DEF Join, HandlerInv
    <3>2. handlers[u].request \in Downloads /\ handlers[u].ops \in Seq(Operations)
      BY <3>1 DEF Handler
    <3>3. handlers' = [handlers EXCEPT ![u] = [handlers[u] EXCEPT !.ops = Append(handlers[u].ops, op)]]
          /\ url' = url
      BY <2>5 DEF Join, op
    <3>4. Append(handlers[u].ops, op) \in Seq(Operations)
      BY <2>2, <3>2
    <3>5. [handlers[u] EXCEPT !.ops = Append(handlers[u].ops, op)] \in Handler
          /\ [handlers[u] EXCEPT !.ops = Append(handlers[u].ops, op)].request = handlers[u].request
      BY <3>1, <3>4 DEF Handler
    <3>6. handlers' \in [Urls -> Handler \cup {NoHandler}]
      BY <1>0, <2>2, <3>3, <3>5 DEF HandlerInv
    <3>7. ASSUME NEW w \in Urls, handlers'[w] # NoHandler
          PROVE  handlers'[w].request <= downloads' /\ url'[handlers'[w].request] = w
      <4>1. CASE w = u
        BY <1>0, <1>a, <2>2, <3>1, <3>2, <3>3, <3>5, <4>1 DEF HandlerInv
      <4>2. CASE w # u
        <5>1. handlers'[w] = handlers[w] /\ handlers[w] \in Handler
          BY <1>0, <3>3, <3>7, <4>2 DEF HandlerInv
        <5> QED
          BY <1>0, <1>a, <2>2, <3>3, <3>7, <5>1 DEF HandlerInv, Handler
      <4> QED
        BY <4>1, <4>2
    <3> QED
      BY <3>6, <3>7 DEF HandlerInv
  <2>6. CASE MakeRequest(v, d, u)
    <3>1. url' = [url EXCEPT ![d] = u]
          /\ handlers' = [handlers EXCEPT ![u] = [request |-> d, ops |-> <<op>>]]
      BY <2>6 DEF MakeRequest, op
    <3>2. [request |-> d, ops |-> <<op>>] \in Handler
      BY <2>1, <2>2 DEF Handler
    <3>3. handlers' \in [Urls -> Handler \cup {NoHandler}]
      BY <1>0, <2>2, <3>1, <3>2 DEF HandlerInv
    <3>4. ASSUME NEW w \in Urls, handlers'[w] # NoHandler
          PROVE  handlers'[w].request <= downloads' /\ url'[handlers'[w].request] = w
      <4>1. CASE w = u
        BY <1>0, <1>a, <2>1, <2>2, <3>1, <4>1 DEF HandlerInv, ReceiptInv
      <4>2. CASE w # u
        <5>1. handlers'[w] = handlers[w] /\ handlers[w].request \in Downloads
          BY <1>0, <3>1, <3>4, <4>2 DEF HandlerInv, Handler
        <5> QED
          BY <1>0, <1>a, <2>2, <3>1, <3>4, <5>1 DEF HandlerInv, ReceiptInv
      <4> QED
        BY <4>1, <4>2
    <3> QED
      BY <3>3, <3>4 DEF HandlerInv
  <2> QED
    BY <2>3, <2>4, <2>5, <2>6
<1>4. ASSUME NEW v \in Cells \cup (1..opened), NEW r \in Rows, SetImage(v, r), UNCHANGED <<url, downloads, job>>
      PROVE  HandlerInv'
  <2>1. v \in Views
    BY <1>a
  <2>2. CancelRequest(v) \/ UNCHANGED handlers
    BY <1>4 DEF SetImage
  <2> QED
    BY <1>0, <1>1, <1>4, <2>1, <2>2, CancelKeeps
<1>5. CASE CellForItemAt
  BY <1>4, <1>5 DEF CellForItemAt
<1>6. CASE UpdateInfo
  BY <1>0, <1>4, <1>6 DEF UpdateInfo, ScreenInv
<1> QED
  BY <1>1, <1>2, <1>3, <1>5, <1>6
  DEF Next, User, LookUp, Complete, Prepare, InfoFails, Back, DidCreateTask, RemoveAllImages,
      Answer, requests, downloader, vars

(* Requests keep their URLs, and jobs and blocks are for requests.         *)
LEMMA JobStep == IInv /\ [Next]_vars => JobInv'
<1> SUFFICES ASSUME IInv, [Next]_vars PROVE JobInv'
  OBVIOUS
<1>0. /\ ScreenInv /\ SettingInv /\ ReceiptInv /\ HandlerInv /\ JobInv
      /\ main \in Seq(Completions) /\ state \in [Downloads -> States]
      /\ job \in [Downloads -> [at : Stages, ok : BOOLEAN, ops : Seq(Operations)]]
      /\ \A r \in Downloads : state[r] # "none" \/ job[r].at # "none" => url[r] \in Urls
  BY DEF IInv, JobInv
<1>a. /\ MaxDownloads \in Nat /\ Views = Cells \cup Details /\ Details = 1..MaxDetails
      /\ MaxDetails \in Nat /\ opened \in Nat /\ opened <= MaxDetails
      /\ Downloads = 1..MaxDownloads /\ downloads \in Nat /\ downloads <= MaxDownloads
  BY <1>0, PictureAssumption DEF Views, Details, Downloads, ScreenInv
<1>1. CASE UNCHANGED <<url, state, job, main>>
  BY <1>0, <1>1 DEF JobInv
<1>2. ASSUME NEW r \in Downloads, Answer(r) PROVE JobInv'
  <2>1. PICK ok \in BOOLEAN :
          /\ state[r] # "none"
          /\ job' = [job EXCEPT ![r] = [at |-> "fetch", ok |-> ok, ops |-> <<>>]]
    BY <1>2 DEF Answer
  <2>2. UNCHANGED <<url, state, main>>
    BY <1>2 DEF Answer, requests
  <2>3. [at |-> "fetch", ok |-> ok, ops |-> <<>>] \in [at : Stages, ok : BOOLEAN, ops : Seq(Operations)]
    BY DEF Stages
  <2> QED
    BY <1>0, <2>1, <2>2, <2>3 DEF JobInv
<1>3. ASSUME NEW r \in Downloads, Respond(r) PROVE JobInv'
  <2>1. url' = url
    BY <1>3 DEF Respond
  <2>2. ASSUME NEW at \in Stages, job[r].at # "none", Goes(r, at), UNCHANGED main,
               state' \in [Downloads -> States],
               \A s \in Downloads : state'[s] # "none" => state[s] # "none"
        PROVE  JobInv'
    <3>1. job' = [job EXCEPT ![r] = [job[r] EXCEPT !.at = at]]
      BY <2>2 DEF Goes
    <3>2. job' \in [Downloads -> [at : Stages, ok : BOOLEAN, ops : Seq(Operations)]]
      BY <1>0, <2>2, <3>1
    <3>3. \A s \in Downloads : job'[s].at # "none" => job[s].at # "none"
      BY <1>0, <2>2, <3>1
    <3> QED
      BY <1>0, <2>1, <2>2, <3>2, <3>3 DEF JobInv
  <2>3. CASE Fetch(r) \/ Decrement(r)
    BY <1>0, <2>2, <2>3 DEF Fetch, Decrement, Stage, Stages
  <2>4. CASE StartNext(r)
    <3>1. state' = state \/ \E q : state' = [state EXCEPT ![q] = IF state[q] = "initialized" THEN "resumed" ELSE state[q]]
      BY <2>4 DEF StartNext, Start
    <3>2. state' \in [Downloads -> States] /\ \A s \in Downloads : state'[s] # "none" => state[s] # "none"
      BY <1>0, <3>1 DEF States
    <3> QED
      BY <2>2, <2>4, <3>2 DEF StartNext, Stage, Stages
  <2>5. CASE TakeHandler(r)
    <3>1. UNCHANGED <<main, state>> /\ job[r].at = "remove"
      BY <2>5 DEF TakeHandler, Stage
    <3>2. CASE Goes(r, "decrement")
      BY <1>0, <2>2, <3>1, <3>2 DEF Stages
    <3>3. CASE /\ handlers[url[r]] # NoHandler
               /\ job' = [job EXCEPT ![r].at = "serve", ![r].ops = handlers[url[r]].ops]
      <4>1. url[r] \in Urls
        BY <1>0, <3>1
      <4>2. handlers[url[r]].ops \in Seq(Operations)
        BY <1>0, <3>3, <4>1 DEF HandlerInv, Handler
      <4>3. job' \in [Downloads -> [at : Stages, ok : BOOLEAN, ops : Seq(Operations)]]
        BY <1>0, <3>3, <4>2 DEF Stages
      <4>4. \A s \in Downloads : job'[s].at # "none" => job[s].at # "none"
        BY <1>0, <3>1, <3>3
      <4> QED
        BY <1>0, <2>1, <3>1, <4>3, <4>4 DEF JobInv
    <3> QED
      BY <2>5, <3>2, <3>3 DEF TakeHandler
  <2>6. CASE Serve(r)
    <3> DEFINE ops == job[r].ops
               done == [i \in DOMAIN ops |-> Completion(ops[i], url[r], job[r].ok)]
    <3>1. /\ job' = [job EXCEPT ![r].at = "decrement", ![r].ops = <<>>]
          /\ main' = main \o done /\ state' = state /\ job[r].at = "serve"
      BY <2>6 DEF Serve, Stage
    <3>2. url[r] \in Urls /\ ops \in Seq(Operations) /\ job[r].ok \in BOOLEAN
      BY <1>0, <3>1
    <3>3. done \in Seq(Completions)
      <4>1. \A i \in 1..Len(ops) : Completion(ops[i], url[r], job[r].ok) \in Completions
        <5>1. \A op \in Operations : op.id \in Downloads /\ op.view \in Views
          BY Zenon DEF Operations
        <5>2. \A i \in 1..Len(ops) : ops[i] \in Operations
          BY <3>2
        <5> QED
          BY <3>2, <5>1, <5>2 DEF Completion, Completions
      <4>2. Len(ops) \in Nat /\ DOMAIN ops = 1..Len(ops)
        BY <3>2
      <4> QED
        BY <4>1, <4>2
    <3>4. main' \in Seq(Completions)
      BY <1>0, <3>1, <3>3
    <3>5. job' \in [Downloads -> [at : Stages, ok : BOOLEAN, ops : Seq(Operations)]]
      <4>1. /\ job' = [job EXCEPT ![r].at = "decrement", ![r].ops = <<>>]
            /\ <<>> \in Seq(Operations) /\ "decrement" \in Stages
        BY <3>1 DEF Stages
      <4> HIDE DEF done, ops
      <4> QED
        BY <1>0, <4>1
    <3>6. \A s \in Downloads : job'[s].at # "none" => job[s].at # "none"
      BY <1>0, <3>1
    <3> QED
      BY <1>0, <2>1, <3>1, <3>4, <3>5, <3>6 DEF JobInv
  <2> QED
    BY <1>3, <2>3, <2>4, <2>5, <2>6 DEF Respond
<1>4. CASE Download
  <2> DEFINE v == setting.view
             d == downloads + 1
             u == Picture[row[v]]
  <2>1. v \in Views /\ row[v] \in Rows /\ d \in Downloads
    BY <1>0, <1>a, <1>4 DEF Download, SettingInv, Idle
  <2>2. u \in Urls /\ job' = job
    BY <1>4, <2>1, PictureAssumption DEF Download
  <2>3. Join(v, d, u) \/ TakeCached(v, d, u) \/ MakeRequest(v, d, u)
    BY <1>4 DEF Download
  <2> HIDE DEF v, d, u
  <2>4. CASE Join(v, d, u)
    BY <1>1, <2>2, <2>4 DEF Join
  <2>5. CASE TakeCached(v, d, u)
    <3>1. Completion([id |-> d, view |-> v], u, TRUE) \in Completions
      BY <2>1, <2>2 DEF Completion, Completions
    <3>2. main' = Append(main, Completion([id |-> d, view |-> v], u, TRUE))
          /\ UNCHANGED <<url, state>>
      BY <2>5 DEF TakeCached
    <3>3. \A c \in Completions : Append(main, c) \in Seq(Completions)
      BY <1>0
    <3> QED
      BY <1>0, <2>2, <3>1, <3>2, <3>3 DEF JobInv
  <2>6. CASE MakeRequest(v, d, u)
    <3>1. url' = [url EXCEPT ![d] = u] /\ main' = main
      BY <2>6 DEF MakeRequest
    <3>2. \E s \in {"initialized", "resumed"} : state' = [state EXCEPT ![d] = s]
      BY <1>0, <2>1, <2>6 DEF MakeRequest, Start
    <3> QED
      BY <1>0, <2>1, <2>2, <3>1, <3>2 DEF JobInv, ReceiptInv, States
  <2> QED
    BY <2>3, <2>4, <2>5, <2>6
<1>5. CASE Complete
  <2>1. main # <<>> /\ main' = Tail(main) /\ UNCHANGED <<url, state, job>>
    BY <1>5 DEF Complete, requests
  <2>2. main' \in Seq(Completions)
    BY <1>0, <2>1
  <2> QED
    BY <1>0, <2>1, <2>2 DEF JobInv
<1>6. ASSUME NEW v \in Cells \cup (1..opened), NEW r \in Rows, SetImage(v, r), UNCHANGED <<url, downloads, job>>
      PROVE  JobInv'
  <2>1. v \in Views
    BY <1>a
  <2>2. CancelRequest(v) \/ UNCHANGED <<main, state>>
    BY <1>6 DEF SetImage
  <2> QED
    BY <1>0, <1>1, <1>6, <2>1, <2>2, CancelKeeps
<1>7. CASE CellForItemAt
  BY <1>6, <1>7 DEF CellForItemAt
<1>8. CASE UpdateInfo
  BY <1>0, <1>6, <1>8 DEF UpdateInfo, ScreenInv
<1> QED
  BY <1>1, <1>2, <1>3, <1>4, <1>5, <1>7, <1>8
  DEF Next, User, LookUp, Prepare, InfoFails, Back, DidCreateTask, RemoveAllImages, requests, vars

-------------------------------------------------------------------------------

(* The app starts with an empty grid and nothing under way.                *)
LEMMA InitInv == Init => IInv
<1> SUFFICES ASSUME Init PROVE IInv
  OBVIOUS
<1>1. MaxDetails \in Nat /\ MaxDownloads \in Nat
  BY PictureAssumption
<1>2. ScreenInv /\ SettingInv /\ ReceiptInv
  BY <1>1 DEF Init, ScreenInv, SettingInv, ReceiptInv, Views, Downloads
<1>3. HandlerInv
  BY DEF Init, HandlerInv
<1>4. JobInv
  <2>1. NoJob \in [at : Stages, ok : BOOLEAN, ops : Seq(Operations)] /\ NoJob.at = "none"
    BY DEF NoJob, Stages
  <2> QED
    BY <2>1 DEF Init, JobInv, States
<1> QED
  BY <1>2, <1>3, <1>4 DEF IInv

(* The invariant holds in every reachable state, for any bounds.           *)
THEOREM Inductive == Spec => []IInv
<1>1. IInv /\ [Next]_vars => IInv'
  BY ScreenStep, SettingStep, ReceiptStep, HandlerStep, JobStep DEF IInv
<1> QED
  BY InitInv, <1>1, PTL DEF Spec

(* A picture that arrives is the one of the person its view is for now, on *)
(* a view that is there: the completion of AlamofireImage's setImage draws *)
(* no other, however cells are reused and downloads shared or cancelled.   *)
THEOREM OnlyItsPicture == Spec => LatePicturesIgnored
<1>1. IInv /\ [Next]_vars =>
        [\A v \in Views : image'[v] # image[v] => image'[v] = Picture[row'[v]] /\ v \in alive]_vars
  <2> SUFFICES ASSUME IInv, [Next]_vars, NEW v \in Views, image'[v] # image[v]
               PROVE  image'[v] = Picture[row'[v]] /\ v \in alive
    OBVIOUS
  <2>0. ScreenInv /\ SettingInv /\ ReceiptInv /\ JobInv
    BY DEF IInv
  <2>1. CASE LookUp
    <3>1. v = setting.view /\ image'[v] = Picture[row[v]] /\ row' = row
      BY <2>0, <2>1 DEF LookUp, ScreenInv
    <3> QED
      BY <2>0, <2>1, <3>1 DEF LookUp, SettingInv, Idle
  <2>2. CASE Complete
    <3> DEFINE c == Head(main)
    <3>1. StillWaits(c) /\ image' = [image EXCEPT ![c.view] = c.url] /\ row' = row /\ main # <<>>
      BY <2>2 DEF Complete
    <3>2. c.url \in Urls
      <4>1. c \in Completions
        BY <2>0, <3>1 DEF JobInv
      <4> QED
        BY <4>1 DEF Completions
    <3>3. v = c.view /\ image'[v] = c.url
      BY <2>0, <3>1 DEF ScreenInv
    <3>4. v \in alive /\ receipt[v] # NoReceipt /\ c.url = url[receipt[v].request]
      BY <3>1, <3>2, <3>3, PictureAssumption DEF StillWaits, ActiveUrl, Nothing
    <3> QED
      BY <2>0, <3>1, <3>3, <3>4 DEF ReceiptInv
  <2>3. CASE UNCHANGED image
    BY <2>3
  <2> QED
    BY <2>1, <2>2, <2>3 DEF Next, User, Download, CellForItemAt, Prepare, UpdateInfo, InfoFails, Back,
       DidCreateTask, RemoveAllImages, Answer, Respond, views, vars
<1> QED
  BY <1>1, Inductive, PTL DEF Spec, LatePicturesIgnored

-------------------------------------------------------------------------------
(* Nothing is left over.  An operation is in one place at a time: in the   *)
(* handler of a URL, with the job that took the handler, or on the main    *)
(* queue as a completion; what is in none was completed.                   *)

Ids(s) == {s[i].id : i \in 1..Len(s)}
Single(s) == \A i, j \in 1..Len(s) : s[i].id = s[j].id => i = j

(* Requests are numbered by the downloads that made them, and a job is for *)
(* one that was answered.                                                  *)
FreshInv ==
    /\ \A r \in Downloads : state[r] # "none" => r <= downloads
    /\ \A r \in Downloads :
          /\ job[r] = NoJob \/ (job[r].at # "none" /\ state[r] \in {"resumed", "cancelled"})
          /\ job[r].at # "serve" => job[r].ops = <<>>

(* A handler has operations, and its request's job has not taken it; a     *)
(* request under way has its handler, unless another job took it.          *)
RequestInv ==
    /\ \A u \in Urls : handlers[u] # NoHandler =>
          /\ handlers[u].ops # <<>>
          /\ state[handlers[u].request] \in {"initialized", "resumed"}
          /\ job[handlers[u].request].at \in {"none", "fetch", "remove"}
          /\ job[handlers[u].request].at # "none" => handlers[u].request \in tasks
    /\ \A r \in Downloads : Pending(r) /\ url[r] \notin stolen => handlers[url[r]].request = r

Made == {r \in Downloads : state[r] # "none"}
Freed == {r \in Downloads : job[r].at \in {"next", "done"}}
Starting == {r \in Downloads : job[r].at = "next"}

(* A request takes a slot when it leaves the queue, or is made when there  *)
(* is one, and gives one back when it was handled, whichever comes first;  *)
(* while some wait, the slots are taken or about to be.                    *)
SlotInv ==
    /\ queued \in Seq(Downloads)
    /\ \A r \in Downloads : state[r] = "initialized" => \E i \in 1..Len(queued) : queued[i] = r
    /\ active = Cardinality(Made) - Len(queued) - Cardinality(Freed)
    /\ queued # <<>> => active + Cardinality(Starting) >= MaxActive

(* H, J and M are what handlers, jobs and the main queue hold of the first *)
(* n operations: no two hold the same one, and the rest is done.           *)
Apart(H, J, M, n, done) ==
    /\ \A u, w \in Urls : \A d \in H[u] : d \in H[w] => u = w
    /\ \A r, s \in Downloads : \A d \in J[r] : d \in J[s] => r = s
    /\ \A u \in Urls, r \in Downloads : H[u] \cap J[r] = {}
    /\ \A u \in Urls : H[u] \cap M = {} /\ H[u] \subseteq 1..n
    /\ \A r \in Downloads : J[r] \cap M = {} /\ J[r] \subseteq 1..n
    /\ M \subseteq 1..n
    /\ done \in [Downloads -> 0..1]
    /\ \A d \in Downloads :
          done[d] = 0 <=> d > n \/ d \in M \/ (\E u \in Urls : d \in H[u])
                                \/ (\E r \in Downloads : d \in J[r])

InHandlers == [u \in Urls |-> Ids(handlers[u].ops)]
InJobs == [r \in Downloads |-> Ids(job[r].ops)]

OpsInv ==
    /\ Single(main)
    /\ \A u \in Urls : Single(handlers[u].ops)
    /\ \A r \in Downloads : Single(job[r].ops)
    /\ Apart(InHandlers, InJobs, Ids(main), downloads, completed)

Held(v) == receipt[v] # NoReceipt

(* A receipt is for an operation of the view's own.                        *)
OwnInv ==
    /\ \A v \in Views : Held(v) => receipt[v].id <= downloads
    /\ \A v, w \in Views : Held(v) /\ Held(w) /\ receipt[v].id = receipt[w].id => v = w
    /\ \A v \in Views : Held(v) =>
         /\ \A i \in 1..Len(main) : main[i].id = receipt[v].id => main[i].view = v
         /\ \A r \in Downloads : \A i \in 1..Len(job[r].ops) :
               job[r].ops[i].id = receipt[v].id => job[r].ops[i].view = v
         /\ \A u \in Urls : \A i \in 1..Len(handlers[u].ops) :
               handlers[u].ops[i].id = receipt[v].id =>
                  handlers[u].ops[i].view = v /\ handlers[u].request = receipt[v].request
    /\ setting # Idle => receipt[setting.view] = NoReceipt

(* The operation of a receipt is where its request's completion will come  *)
(* from, and find that the request has a task.                             *)
InFlight(c) ==
    LET d == receipt[c].id
        r == receipt[c].request
        u == url[r]
    IN  \/ d \in Ids(handlers[u].ops)
        \/ r \in tasks /\ d \in Ids(job[r].ops)
        \/ r \in tasks /\ \E i \in 1..Len(main) : main[i].id = d /\ main[i].url = u

(* A cell has its picture, or is excused, or its operation is under way.   *)
CellOk(c) ==
    (row[c] # Nothing \/ Held(c)) /\ (setting = Idle \/ setting.view # c) =>
        \/ Picture[row[c]] \in stolen
        \/ ~Held(c) /\ (image[c] = Picture[row[c]] \/ c \in excused)
        \/ Held(c) /\ InFlight(c)

CellInv == \A c \in Cells : CellOk(c)

-------------------------------------------------------------------------------
(* The ids in a sequence of operations or completions.                     *)

LEMMA IdsEmpty == Ids(<<>>) = {} /\ Single(<<>>)
BY DEF Ids, Single

LEMMA IdsAppend ==
    ASSUME NEW S, NEW s \in Seq(S), NEW x \in S
    PROVE  /\ Ids(Append(s, x)) = Ids(s) \cup {x.id}
           /\ Single(s) /\ x.id \notin Ids(s) => Single(Append(s, x))
<1> DEFINE t == Append(s, x)
<1>1. /\ Len(s) \in Nat /\ Len(t) = Len(s) + 1 /\ t[Len(t)] = x
      /\ \A i \in 1..Len(s) : t[i] = s[i]
  OBVIOUS
<1> HIDE DEF t
<1>2. Ids(t) = Ids(s) \cup {x.id}
  BY <1>1 DEF Ids
<1>3. Single(s) /\ x.id \notin Ids(s) => Single(t)
  BY <1>1 DEF Single, Ids
<1> QED
  BY <1>2, <1>3 DEF t

LEMMA IdsOne ==
    ASSUME NEW x
    PROVE  Ids(<<x>>) = {x.id} /\ Single(<<x>>)
BY DEF Ids, Single

LEMMA IdsConcat ==
    ASSUME NEW S, NEW s \in Seq(S), NEW t \in Seq(S)
    PROVE  /\ Ids(s \o t) = Ids(s) \cup Ids(t)
           /\ Single(s) /\ Single(t) /\ Ids(s) \cap Ids(t) = {} => Single(s \o t)
<1> DEFINE c == s \o t
<1>1. /\ Len(s) \in Nat /\ Len(t) \in Nat /\ Len(c) = Len(s) + Len(t)
      /\ \A i \in 1..Len(s) : c[i] = s[i]
      /\ \A i \in 1..Len(c) : i > Len(s) => c[i] = t[i - Len(s)]
      /\ \A i \in 1..Len(t) : c[i + Len(s)] = t[i]
  OBVIOUS
<1> HIDE DEF c
<1>2. Ids(c) \subseteq Ids(s) \cup Ids(t)
  <2> SUFFICES ASSUME NEW i \in 1..Len(c) PROVE c[i].id \in Ids(s) \cup Ids(t)
    BY DEF Ids
  <2>1. CASE i <= Len(s)
    BY <1>1, <2>1 DEF Ids
  <2>2. CASE i > Len(s)
    <3>1. i - Len(s) \in 1..Len(t) /\ c[i] = t[i - Len(s)]
      BY <1>1, <2>2
    <3> QED
      BY <3>1 DEF Ids
  <2> QED
    BY <1>1, <2>1, <2>2
<1>3. Ids(s) \subseteq Ids(c)
  BY <1>1 DEF Ids
<1>4. Ids(t) \subseteq Ids(c)
  <2> SUFFICES ASSUME NEW i \in 1..Len(t) PROVE t[i].id \in Ids(c)
    BY DEF Ids
  <2>1. i + Len(s) \in 1..Len(c) /\ c[i + Len(s)] = t[i]
    BY <1>1
  <2> QED
    BY <2>1 DEF Ids
<1>5. ASSUME Single(s), Single(t), Ids(s) \cap Ids(t) = {}
      PROVE  Single(c)
  <2> SUFFICES ASSUME NEW i \in 1..Len(c), NEW j \in 1..Len(c), c[i].id = c[j].id
               PROVE  i = j
    BY DEF Single
  <2>1. CASE i <= Len(s) /\ j <= Len(s)
    BY <1>1, <1>5, <2>1 DEF Single
  <2>2. CASE i > Len(s) /\ j > Len(s)
    <3>1. /\ i - Len(s) \in 1..Len(t) /\ c[i] = t[i - Len(s)]
          /\ j - Len(s) \in 1..Len(t) /\ c[j] = t[j - Len(s)]
      BY <1>1, <2>2
    <3>2. i - Len(s) = j - Len(s)
      BY <1>5, <3>1 DEF Single
    <3> QED
      BY <1>1, <3>2
  <2>3. ASSUME NEW k \in 1..Len(c), NEW l \in 1..Len(c), k <= Len(s), l > Len(s)
        PROVE  c[k].id # c[l].id
    <3>1. k \in 1..Len(s) /\ c[k] = s[k] /\ l - Len(s) \in 1..Len(t) /\ c[l] = t[l - Len(s)]
      BY <1>1, <2>3
    <3>2. c[k].id \in Ids(s) /\ c[l].id \in Ids(t)
      BY <3>1 DEF Ids
    <3> QED
      BY <1>5, <3>2
  <2> QED
    BY <1>1, <2>1, <2>2, <2>3
<1> QED
  BY <1>2, <1>3, <1>4, <1>5 DEF c

(* The first, and the rest.                                                *)
LEMMA IdsTail ==
    ASSUME NEW S, NEW s \in Seq(S), s # <<>>, Single(s)
    PROVE  /\ Head(s) = s[1] /\ 1 \in 1..Len(s) /\ Tail(s) \in Seq(S)
           /\ \A i \in 1..Len(s) : i # 1 => i - 1 \in 1..Len(Tail(s)) /\ Tail(s)[i - 1] = s[i]
           /\ \A i \in 1..Len(Tail(s)) : i + 1 \in 1..Len(s) /\ Tail(s)[i] = s[i + 1]
           /\ Ids(Tail(s)) = Ids(s) \ {Head(s).id}
           /\ Single(Tail(s))
<1> DEFINE t == Tail(s)
<1>1. /\ Len(s) \in Nat \ {0} /\ Len(t) = Len(s) - 1 /\ Head(s) = s[1] /\ t \in Seq(S)
      /\ \A i \in 1..Len(t) : t[i] = s[i + 1]
  OBVIOUS
<1> HIDE DEF t
<1>2. \A i \in 1..Len(s) : i # 1 => i - 1 \in 1..Len(t) /\ t[i - 1] = s[i]
  BY <1>1
<1>3. \A i \in 1..Len(t) : i + 1 \in 1..Len(s) /\ t[i] = s[i + 1]
  BY <1>1
<1>4. Ids(t) \subseteq Ids(s) \ {s[1].id}
  <2> SUFFICES ASSUME NEW i \in 1..Len(t) PROVE t[i].id \in Ids(s) \ {s[1].id}
    BY DEF Ids
  <2>1. i + 1 \in 1..Len(s) /\ t[i] = s[i + 1] /\ i + 1 # 1 /\ 1 \in 1..Len(s)
    BY <1>1, <1>3
  <2> QED
    BY <2>1 DEF Ids, Single
<1>5. Ids(s) \ {s[1].id} \subseteq Ids(t)
  BY <1>2 DEF Ids
<1>6. Single(t)
  <2> SUFFICES ASSUME NEW i \in 1..Len(t), NEW j \in 1..Len(t), t[i].id = t[j].id
               PROVE  i = j
    BY DEF Single
  <2>1. i + 1 = j + 1
    BY <1>3 DEF Single
  <2> QED
    BY <1>1, <2>1
<1> QED
  BY <1>1, <1>2, <1>3, <1>4, <1>5, <1>6 DEF t

(* One that is taken out of the middle.                                    *)
LEMMA IdsRemove ==
    ASSUME NEW S, NEW s \in Seq(S), NEW k \in 1..Len(s), Single(s)
    PROVE  /\ RemoveAt(s, k) \in Seq(S)
           /\ \A i \in 1..Len(RemoveAt(s, k)) : \E j \in 1..Len(s) : RemoveAt(s, k)[i] = s[j]
           /\ Ids(RemoveAt(s, k)) = Ids(s) \ {s[k].id}
           /\ Single(RemoveAt(s, k))
<1> DEFINE t == RemoveAt(s, k)
           a == SubSeq(s, 1, k - 1)
           b == SubSeq(s, k + 1, Len(s))
<1>1. t = a \o b
  BY DEF RemoveAt
<1>2. /\ a \in Seq(S) /\ Len(a) = k - 1
      /\ \A i \in 1..(k - 1) : a[i] = s[i]
  <2>1. \A i \in 1..(k - 1) : i \in 1..Len(s)
    OBVIOUS
  <2> QED
    BY <2>1, SubSeqProperties
<1>3. /\ b \in Seq(S) /\ Len(b) = Len(s) - k
      /\ \A i \in 1..(Len(s) - k) : b[i] = s[k + i]
  <2>1. \A i \in (k + 1)..Len(s) : i \in 1..Len(s)
    OBVIOUS
  <2> QED
    BY <2>1, SubSeqProperties
<1> HIDE DEF a, b
<1>4. /\ t \in Seq(S) /\ Len(t) = Len(s) - 1 /\ Len(s) \in Nat
      /\ \A i \in 1..Len(t) : t[i] = IF i < k THEN s[i] ELSE s[i + 1]
  BY <1>1, <1>2, <1>3
<1> HIDE DEF t
<1>5. \A i \in 1..Len(t) : \E j \in 1..Len(s) : j # k /\ t[i] = s[j]
  <2> SUFFICES ASSUME NEW i \in 1..Len(t) PROVE \E j \in 1..Len(s) : j # k /\ t[i] = s[j]
    OBVIOUS
  <2>1. CASE i < k
    BY <1>4, <2>1
  <2>2. CASE ~(i < k)
    <3>1. i + 1 \in 1..Len(s) /\ i + 1 # k /\ t[i] = s[i + 1]
      BY <1>4, <2>2
    <3> QED
      BY <3>1
  <2> QED
    BY <2>1, <2>2
<1>6. \A j \in 1..Len(s) : j # k => \E i \in 1..Len(t) : t[i] = s[j]
  <2> SUFFICES ASSUME NEW j \in 1..Len(s), j # k PROVE \E i \in 1..Len(t) : t[i] = s[j]
    OBVIOUS
  <2>1. CASE j < k
    BY <1>4, <2>1
  <2>2. CASE j > k
    <3>1. j - 1 \in 1..Len(t) /\ ~(j - 1 < k) /\ (j - 1) + 1 = j
      BY <1>4, <2>2
    <3> QED
      BY <1>4, <3>1
  <2> QED
    BY <2>1, <2>2
<1>7. Ids(t) = Ids(s) \ {s[k].id}
  <2>1. ASSUME NEW i \in 1..Len(t) PROVE t[i].id \in Ids(s) \ {s[k].id}
    BY <1>5 DEF Ids, Single
  <2>2. ASSUME NEW d \in Ids(s) \ {s[k].id} PROVE d \in Ids(t)
    BY <1>6 DEF Ids
  <2> QED
    BY <2>1, <2>2 DEF Ids
<1>8. Single(t)
  <2> SUFFICES ASSUME NEW i \in 1..Len(t), NEW j \in 1..Len(t), t[i].id = t[j].id
               PROVE  i = j
    BY DEF Single
  <2> DEFINE p(n) == IF n < k THEN n ELSE n + 1
  <2>1. p(i) \in 1..Len(s) /\ p(j) \in 1..Len(s) /\ t[i] = s[p(i)] /\ t[j] = s[p(j)]
    BY <1>4
  <2>2. p(i) = p(j)
    BY <2>1 DEF Single
  <2> QED
    BY <1>4, <2>2
<1> QED
  BY <1>4, <1>5, <1>7, <1>8 DEF t
-------------------------------------------------------------------------------
(* What moves from one place to another stays in one place.                *)

LEMMA ApartTaken ==
    ASSUME NEW H, NEW J, NEW M, NEW n, NEW done, Apart(H, J, M, n, done),
           NEW u \in Urls, NEW r \in Downloads, J[r] = {}, NEW K, NEW L,
           \A w \in Urls : K[w] = IF w = u THEN {} ELSE H[w],
           \A s \in Downloads : L[s] = IF s = r THEN H[u] ELSE J[s]
    PROVE  Apart(K, L, M, n, done)
<1>1. ASSUME NEW s \in Downloads, NEW t \in Downloads, NEW d \in L[s], d \in L[t] PROVE s = t
  <2>1. CASE s = r /\ t # r
    <3>1. d \in H[u] /\ d \in J[t]
      BY <1>1, <2>1
    <3> QED
      BY <3>1 DEF Apart
  <2>2. CASE s # r /\ t = r
    <3>1. d \in H[u] /\ d \in J[s]
      BY <1>1, <2>2
    <3> QED
      BY <3>1 DEF Apart
  <2>3. CASE s # r /\ t # r
    BY <1>1, <2>3 DEF Apart
  <2> QED
    BY <2>1, <2>2, <2>3
<1>2. ASSUME NEW w \in Urls, NEW s \in Downloads PROVE K[w] \cap L[s] = {}
  BY DEF Apart
<1>3. ASSUME NEW d \in Downloads
      PROVE  (\E w \in Urls : d \in H[w]) \/ (\E s \in Downloads : d \in J[s])
               <=> (\E w \in Urls : d \in K[w]) \/ (\E s \in Downloads : d \in L[s])
  <2>1. ASSUME NEW w \in Urls, d \in H[w]
        PROVE  (\E x \in Urls : d \in K[x]) \/ (\E s \in Downloads : d \in L[s])
    <3>1. CASE w = u
      <4>1. d \in L[r]
        BY <2>1, <3>1
      <4> QED
        BY <4>1
    <3>2. CASE w # u
      BY <2>1, <3>2
    <3> QED
      BY <3>1, <3>2
  <2>2. ASSUME NEW s \in Downloads, d \in J[s]
        PROVE  \E t \in Downloads : d \in L[t]
    BY <2>2
  <2>3. ASSUME NEW w \in Urls, d \in K[w] PROVE \E x \in Urls : d \in H[x]
    BY <2>3
  <2>4. ASSUME NEW s \in Downloads, d \in L[s]
        PROVE  (\E w \in Urls : d \in H[w]) \/ (\E t \in Downloads : d \in J[t])
    BY <2>4
  <2> QED
    BY <2>1, <2>2, <2>3, <2>4
<1>4. ASSUME NEW w \in Urls PROVE K[w] \cap M = {} /\ K[w] \subseteq 1..n
  BY DEF Apart
<1>5. ASSUME NEW s \in Downloads PROVE L[s] \cap M = {} /\ L[s] \subseteq 1..n
  BY DEF Apart
<1>6. \A w, x \in Urls : \A d \in K[w] : d \in K[x] => w = x
  BY DEF Apart
<1> QED
  BY <1>1, <1>2, <1>3, <1>4, <1>5, <1>6 DEF Apart

LEMMA ApartServed ==
    ASSUME NEW H, NEW J, NEW M, NEW n, NEW done, Apart(H, J, M, n, done),
           NEW r \in Downloads, NEW L,
           \A s \in Downloads : L[s] = IF s = r THEN {} ELSE J[s]
    PROVE  Apart(H, L, M \cup J[r], n, done)
<1> DEFINE N == M \cup J[r]
<1>1. \A s, t \in Downloads : \A d \in L[s] : d \in L[t] => s = t
  BY DEF Apart
<1>2. \A w \in Urls, s \in Downloads : H[w] \cap L[s] = {}
  BY DEF Apart
<1>3. \A w \in Urls : H[w] \cap N = {}
  BY DEF Apart
<1>4. ASSUME NEW s \in Downloads PROVE L[s] \cap N = {} /\ L[s] \subseteq 1..n
  BY DEF Apart
<1>5. N \subseteq 1..n
  BY DEF Apart
<1>6. ASSUME NEW d \in Downloads
      PROVE  d \in M \/ (\E s \in Downloads : d \in J[s])
               <=> d \in N \/ (\E s \in Downloads : d \in L[s])
  OBVIOUS
<1> HIDE DEF N
<1> QED
  BY <1>1, <1>2, <1>3, <1>4, <1>5, <1>6 DEF Apart, N

LEMMA ApartCancelled ==
    ASSUME NEW H, NEW J, NEW M, NEW n, NEW done, Apart(H, J, M, n, done),
           NEW u \in Urls, NEW e \in H[u], NEW K,
           \A w \in Urls : K[w] = IF w = u THEN H[u] \ {e} ELSE H[w]
    PROVE  Apart(K, J, M \cup {e}, n, done)
<1> DEFINE N == M \cup {e}
<1>1. \A w, x \in Urls : \A d \in K[w] : d \in K[x] => w = x
  BY DEF Apart
<1>2. \A w \in Urls, s \in Downloads : K[w] \cap J[s] = {}
  BY DEF Apart
<1>3. ASSUME NEW w \in Urls PROVE K[w] \cap N = {} /\ K[w] \subseteq 1..n
  BY DEF Apart
<1>4. ASSUME NEW s \in Downloads PROVE J[s] \cap N = {}
  BY DEF Apart
<1>5. N \subseteq 1..n
  <2>1. H[u] \subseteq 1..n /\ M \subseteq 1..n
    BY DEF Apart
  <2> QED
    BY <2>1
<1>6. ASSUME NEW d \in Downloads
      PROVE  d \in M \/ (\E w \in Urls : d \in H[w])
               <=> d \in N \/ (\E w \in Urls : d \in K[w])
  OBVIOUS
<1> HIDE DEF N
<1> QED
  BY <1>1, <1>2, <1>3, <1>4, <1>5, <1>6 DEF Apart, N

(* The next download's operation joins a handler, or has a handler made.   *)
LEMMA ApartJoined ==
    ASSUME NEW H, NEW J, NEW M, NEW n \in Nat, NEW done, Apart(H, J, M, n, done),
           NEW u \in Urls, NEW K,
           \A w \in Urls : K[w] = IF w = u THEN H[u] \cup {n + 1} ELSE H[w]
    PROVE  Apart(K, J, M, n + 1, done)
<1>1. /\ \A w \in Urls : n + 1 \notin H[w]
      /\ \A s \in Downloads : n + 1 \notin J[s]
      /\ n + 1 \notin M /\ 1..n \subseteq 1..(n + 1) /\ n + 1 \in 1..(n + 1)
  BY DEF Apart
<1>2. \A w, x \in Urls : \A d \in K[w] : d \in K[x] => w = x
  BY <1>1 DEF Apart
<1>3. \A w \in Urls, s \in Downloads : K[w] \cap J[s] = {}
  BY <1>1 DEF Apart
<1>4. ASSUME NEW w \in Urls PROVE K[w] \cap M = {} /\ K[w] \subseteq 1..(n + 1)
  BY <1>1 DEF Apart
<1>5. \A s \in Downloads : J[s] \subseteq 1..(n + 1)
  BY <1>1 DEF Apart
<1>6. M \subseteq 1..(n + 1)
  BY <1>1 DEF Apart
<1>7. ASSUME NEW d \in Downloads
      PROVE  d > n \/ (\E w \in Urls : d \in H[w])
               <=> d > n + 1 \/ (\E w \in Urls : d \in K[w])
  <2>1. d > n <=> d > n + 1 \/ d = n + 1
    BY PictureAssumption DEF Downloads
  <2>2. n + 1 \in K[u]
    OBVIOUS
  <2>3. (\E w \in Urls : d \in K[w]) <=> d = n + 1 \/ (\E w \in Urls : d \in H[w])
    BY <2>2
  <2> QED
    BY <2>1, <2>3
<1> QED
  BY <1>2, <1>3, <1>4, <1>5, <1>6, <1>7 DEF Apart

(* Or it is completed out of the cache.                                    *)
LEMMA ApartCached ==
    ASSUME NEW H, NEW J, NEW M, NEW n \in Nat, NEW done, Apart(H, J, M, n, done)
    PROVE  Apart(H, J, M \cup {n + 1}, n + 1, done)
<1> DEFINE N == M \cup {n + 1}
<1>1. /\ \A w \in Urls : n + 1 \notin H[w]
      /\ \A s \in Downloads : n + 1 \notin J[s]
      /\ 1..n \subseteq 1..(n + 1) /\ n + 1 \in 1..(n + 1)
  BY DEF Apart
<1>2. \A w \in Urls : H[w] \cap N = {} /\ H[w] \subseteq 1..(n + 1)
  BY <1>1 DEF Apart
<1>3. \A s \in Downloads : J[s] \cap N = {} /\ J[s] \subseteq 1..(n + 1)
  BY <1>1 DEF Apart
<1>4. N \subseteq 1..(n + 1)
  BY <1>1 DEF Apart
<1>5. ASSUME NEW d \in Downloads PROVE d > n \/ d \in M <=> d > n + 1 \/ d \in N
  <2>1. d > n <=> d > n + 1 \/ d = n + 1
    BY PictureAssumption DEF Downloads
  <2> QED
    BY <2>1
<1> HIDE DEF N
<1> QED
  BY <1>2, <1>3, <1>4, <1>5 DEF Apart, N

LEMMA ApartCompleted ==
    ASSUME NEW H, NEW J, NEW M, NEW n, NEW done, Apart(H, J, M, n, done),
           NEW e \in M, e \in Downloads, n \in Nat
    PROVE  Apart(H, J, M \ {e}, n, [done EXCEPT ![e] = @ + 1])
<1> DEFINE N == M \ {e}
           more == [done EXCEPT ![e] = done[e] + 1]
<1>1. done[e] = 0 /\ e \in 1..n
  BY DEF Apart
<1>2. more \in [Downloads -> 0..1] /\ more[e] = 1
      /\ \A d \in Downloads : d # e => more[d] = done[d]
  BY <1>1 DEF Apart
<1>3. /\ ~(e > n) /\ e \notin N
      /\ \A w \in Urls : e \notin H[w]
      /\ \A s \in Downloads : e \notin J[s]
  BY <1>1 DEF Apart
<1>4. \A w \in Urls : H[w] \cap N = {}
  BY DEF Apart
<1>5. \A s \in Downloads : J[s] \cap N = {}
  BY DEF Apart
<1>6. N \subseteq 1..n
  BY DEF Apart
<1>7. \A d \in Downloads : d # e => (d \in N <=> d \in M)
  OBVIOUS
<1> HIDE DEF N, more
<1>8. ASSUME NEW d \in Downloads
      PROVE  more[d] = 0 <=> d > n \/ d \in N \/ (\E w \in Urls : d \in H[w])
                                   \/ (\E s \in Downloads : d \in J[s])
  <2>1. CASE d = e
    BY <1>2, <1>3, <2>1
  <2>2. CASE d # e
    BY <1>2, <1>7, <2>2 DEF Apart
  <2> QED
    BY <2>1, <2>2
<1> QED
  BY <1>2, <1>4, <1>5, <1>6, <1>8 DEF Apart, N, more

-------------------------------------------------------------------------------
(* The kinds of steps there are.                                           *)

Bounds == /\ MaxDetails \in Nat /\ MaxDownloads \in Nat
          /\ Downloads = 1..MaxDownloads /\ downloads \in Nat /\ downloads <= MaxDownloads
          /\ opened \in Nat /\ opened <= MaxDetails
          /\ Views = Cells \cup Details /\ Details = 1..MaxDetails

LEMMA InBounds == IInv => Bounds
BY PictureAssumption DEF Bounds, IInv, ScreenInv, Views, Details, Downloads

Work == <<downloads, url, state, handlers, active, queued, job, main, completed, stolen>>

(* A step that leaves the downloader's work alone.                         *)
Quiet == /\ UNCHANGED <<Work, receipt>> /\ tasks \subseteq tasks'
         /\ \/ setting' \in {setting, Idle}
            \/ setting # Idle /\ setting'.view = setting.view

(* What stays while setImage begins.                                       *)
SetFrame == UNCHANGED <<downloads, url, tasks, active, queued, job, completed, stolen, cache, image, alive>>

LEMMA Kinds ==
    ASSUME IInv, [Next]_vars
    PROVE  \/ Quiet
           \/ Download
           \/ Complete
           \/ \E v \in Cells \cup (1..opened), r \in Rows : MayLoad /\ SetImage(v, r) /\ SetFrame
           \/ \E r \in Downloads : Answer(r) \/ Respond(r)
<1>0. ASSUME LookUp PROVE Quiet
  <2>1. UNCHANGED <<Work, receipt, tasks>>
    BY <1>0 DEF LookUp, requests, downloader, Work
  <2>2. setting # Idle /\ setting \in [view : Cells \cup (1..opened), at : {"cache", "download"}]
    BY <1>0 DEF LookUp, IInv, SettingInv, Idle
  <2>3. setting' \in {Idle, [setting EXCEPT !.at = "download"]}
    BY <1>0 DEF LookUp
  <2> QED
    BY <2>1, <2>2, <2>3 DEF Quiet
<1>1. ASSUME Prepare \/ Back \/ DidCreateTask \/ RemoveAllImages \/ InfoFails \/ UNCHANGED vars
      PROVE  Quiet
  BY <1>1 DEF Prepare, Back, DidCreateTask, RemoveAllImages, InfoFails, vars, views, requests,
              downloader, Quiet, Work
<1>2. ASSUME CellForItemAt
      PROVE  \E v \in Cells \cup (1..opened), r \in Rows : MayLoad /\ SetImage(v, r) /\ SetFrame
  BY <1>2 DEF CellForItemAt, SetFrame
<1>3. ASSUME UpdateInfo
      PROVE  \E v \in Cells \cup (1..opened), r \in Rows : MayLoad /\ SetImage(v, r) /\ SetFrame
  BY <1>3 DEF UpdateInfo, SetFrame, IInv, ScreenInv
<1> QED
  BY <1>0, <1>1, <1>2, <1>3 DEF Next, User

(* setImage leaves a receipt that is for the new person's picture, and     *)
(* otherwise cancels it.                                                   *)
LEMMA SetImageIs ==
    ASSUME IInv, NEW v \in Views, NEW r \in Rows, SetImage(v, r)
    PROVE  /\ row' = [row EXCEPT ![v] = r] /\ excused' = excused \ {v}
           /\ \/ /\ Held(v) /\ url[receipt[v].request] = Picture[r]
                 /\ UNCHANGED <<receipt, setting, main, handlers, state>>
              \/ /\ CancelRequest(v)
                 /\ receipt' = [receipt EXCEPT ![v] = NoReceipt]
                 /\ setting' = [view |-> v, at |-> "cache"]
<1>1. Picture[r] \in Urls /\ Nothing \notin Urls
  BY PictureAssumption DEF Nothing
<1> QED
  BY <1>1 DEF SetImage, ActiveUrl, Held

(* The i-th operation of u's handler, the view's own, is completed, and    *)
(* with the last one its request is cancelled.                             *)
Cancels(v, u, i) ==
    LET left == RemoveAt(handlers[u].ops, i)
    IN  /\ Held(v) /\ u = url[receipt[v].request]
        /\ handlers[u] # NoHandler /\ handlers[u].ops[i].id = receipt[v].id
        /\ main' = Append(main, Completion(handlers[u].ops[i], u, FALSE))
        /\ \/ /\ left = <<>>
              /\ handlers' = [handlers EXCEPT ![u] = NoHandler]
              /\ state' = [state EXCEPT ![receipt[v].request] = "cancelled"]
           \/ /\ left # <<>>
              /\ handlers' = [handlers EXCEPT ![u] = [request |-> handlers[u].request, ops |-> left]]
              /\ state' = state

LEMMA CancelIs ==
    ASSUME IInv, RequestInv, NEW v \in Views, CancelRequest(v)
    PROVE  \/ UNCHANGED <<main, handlers, state>>
           \/ \E u \in Urls : \E i \in 1..Len(handlers[u].ops) : Cancels(v, u, i)
<1> DEFINE u == url[receipt[v].request]
           ops == handlers[u].ops
           mine == {i \in DOMAIN ops : ops[i].id = receipt[v].id}
           index == CHOOSE i \in mine : TRUE
           left == IF mine = {} THEN ops ELSE RemoveAt(ops, index)
<1>0. ReceiptInv /\ HandlerInv
  BY DEF IInv
<1>1. CASE receipt[v] = NoReceipt \/ handlers[u] = NoHandler
  BY <1>1 DEF CancelRequest
<1>2. CASE ~(receipt[v] = NoReceipt \/ handlers[u] = NoHandler)
  <2>1. /\ main' = IF mine = {} THEN main ELSE Append(main, Completion(ops[index], u, FALSE))
        /\ handlers' = [handlers EXCEPT ![u] = IF left = <<>> THEN NoHandler
                                               ELSE [handlers[u] EXCEPT !.ops = left]]
        /\ state' = IF left = <<>> THEN [state EXCEPT ![receipt[v].request] = "cancelled"]
                    ELSE state
    BY <1>2 DEF CancelRequest
  <2>2. u \in Urls /\ Held(v)
    BY <1>0, <1>2, PictureAssumption DEF ReceiptInv, Held
  <2>3. handlers[u] \in Handler /\ handlers \in [Urls -> Handler \cup {NoHandler}]
    BY <1>0, <1>2, <2>2 DEF HandlerInv
  <2>4. ops # <<>> /\ ops \in Seq(Operations)
    BY <1>2, <2>2, <2>3 DEF RequestInv, Handler
  <2>5. handlers[u] = [request |-> handlers[u].request, ops |-> ops]
    BY <2>3 DEF Handler
  <2>6. CASE mine = {}
    <3>1. left = ops
      BY <2>6
    <3>2. [handlers[u] EXCEPT !.ops = ops] = handlers[u]
      BY <2>5
    <3>3. handlers' = handlers
      BY <2>1, <2>2, <2>3, <2>4, <3>1, <3>2
    <3> QED
      BY <2>1, <2>4, <2>6, <3>1, <3>3
  <2>7. CASE mine # {}
    <3>1. index \in mine
      BY <2>7
    <3>2. DOMAIN ops = 1..Len(ops)
      BY <2>4
    <3>3. left = RemoveAt(ops, index)
      BY <2>7
    <3> HIDE DEF index, left
    <3>4. index \in 1..Len(ops) /\ ops[index].id = receipt[v].id
      BY <3>1, <3>2
    <3>5. ASSUME NEW x, NEW s PROVE [[request |-> x, ops |-> ops] EXCEPT !.ops = s] = [request |-> x, ops |-> s]
      OBVIOUS
    <3>6. [handlers[u] EXCEPT !.ops = left] = [request |-> handlers[u].request, ops |-> left]
      BY <2>5, <3>5, Zenon
    <3> HIDE DEF mine
    <3>7. Cancels(v, u, index)
      BY <1>2, <2>1, <2>2, <2>7, <3>3, <3>4, <3>6 DEF Cancels
    <3> QED
      BY <2>2, <3>4, <3>7
  <2> QED
    BY <2>6, <2>7
<1> QED
  BY <1>1, <1>2

(* In both cases the handler is left with the other operations.            *)
LEMMA CancelLeaves ==
    ASSUME IInv, OpsInv, NEW v \in Views, NEW u \in Urls, NEW i \in 1..Len(handlers[u].ops),
           Cancels(v, u, i)
    PROVE  /\ handlers'[u].ops = RemoveAt(handlers[u].ops, i)
           /\ handlers'[u].request \in {0, handlers[u].request}
           /\ \A w \in Urls : w # u => handlers'[w] = handlers[w]
           /\ \A k \in 1..Len(handlers'[u].ops) :
                 \E j \in 1..Len(handlers[u].ops) : handlers'[u].ops[k] = handlers[u].ops[j]
           /\ Ids(handlers'[u].ops) = Ids(handlers[u].ops) \ {receipt[v].id}
           /\ Single(handlers'[u].ops)
           /\ receipt[v].id \in Ids(handlers[u].ops)
           /\ handlers[u].ops[i] \in Operations
<1> DEFINE ops == handlers[u].ops
           left == RemoveAt(ops, i)
<1>1. ops \in Seq(Operations) /\ handlers \in [Urls -> Handler \cup {NoHandler}] /\ i \in 1..Len(ops)
  BY DEF IInv, HandlerInv, Handler, NoHandler
<1>2. Single(ops)
  BY DEF OpsInv
<1> HIDE DEF ops
<1>3. /\ \A k \in 1..Len(left) : \E j \in 1..Len(ops) : left[k] = ops[j]
      /\ Ids(left) = Ids(ops) \ {ops[i].id}
      /\ Single(left) /\ ops[i] \in Operations
  BY <1>1, <1>2, IdsRemove
<1> HIDE DEF left
<1>4. /\ handlers'[u].ops = left
      /\ handlers'[u].request \in {0, handlers[u].request}
      /\ \A w \in Urls : w # u => handlers'[w] = handlers[w]
  BY <1>1 DEF Cancels, left, ops, NoHandler
<1>5. ops[i].id = receipt[v].id
  BY DEF Cancels, ops
<1>6. receipt[v].id \in Ids(ops)
  BY <1>1, <1>5 DEF Ids
<1> QED
  BY <1>3, <1>4, <1>5, <1>6 DEF left, ops

-------------------------------------------------------------------------------
(* Each part is kept by each kind of step. *)

(* What the variables hold, as far as the first invariant says it.         *)
Types == /\ state \in [Downloads -> States]
         /\ job \in [Downloads -> [at : Stages, ok : BOOLEAN, ops : Seq(Operations)]]
         /\ main \in Seq(Completions)
         /\ handlers \in [Urls -> Handler \cup {NoHandler}]
         /\ url \in [Downloads -> Urls \cup {Nothing}]
         /\ receipt \in [Views -> [id : Downloads, request : Downloads] \cup {NoReceipt}]
         /\ row \in [Views -> Rows \cup {Nothing}]

LEMMA HaveTypes == IInv => Types
BY DEF IInv, Types, JobInv, HandlerInv, ReceiptInv, ScreenInv

(* A handler that is there is one, and found under its request's URL.      *)
LEMMA HandlerThere ==
    ASSUME IInv, NEW u \in Urls
    PROVE  /\ handlers[u] # NoHandler <=> handlers[u].request \in Downloads
           /\ handlers[u] # NoHandler <=> handlers[u].request # 0
           /\ handlers[u] # NoHandler =>
                 /\ handlers[u] \in Handler
                 /\ handlers[u] = [request |-> handlers[u].request, ops |-> handlers[u].ops]
                 /\ url[handlers[u].request] = u /\ handlers[u].request <= downloads
           /\ handlers[u] = NoHandler => handlers[u].request = 0 /\ handlers[u].ops = <<>>
           /\ handlers[u].ops \in Seq(Operations)
<1>1. 0 \notin Downloads
  BY PictureAssumption DEF Downloads
<1>2. \A h \in Handler : h.request \in Downloads /\ h.ops \in Seq(Operations)
                         /\ h = [request |-> h.request, ops |-> h.ops]
  BY DEF Handler
<1>3. NoHandler.request = 0 /\ NoHandler.ops = <<>> /\ NoHandler.ops \in Seq(Operations)
  BY DEF NoHandler
<1>4. handlers[u] \in Handler \cup {NoHandler}
  BY HaveTypes DEF Types
<1>5. handlers[u] # NoHandler => url[handlers[u].request] = u /\ handlers[u].request <= downloads
  BY DEF IInv, HandlerInv
<1> QED
  BY <1>1, <1>2, <1>3, <1>4, <1>5

(* What download gets to work with.                                        *)
Downloading(v, d, u) ==
    /\ setting = [view |-> v, at |-> "download"] /\ v \in alive /\ row[v] \in Rows
    /\ d = downloads + 1 /\ downloads < MaxDownloads /\ u = Picture[row[v]]
    /\ downloads' = d /\ setting' = Idle
    /\ UNCHANGED <<row, image, tasks, job, cache, completed, stolen>>
    /\ Join(v, d, u) \/ TakeCached(v, d, u) \/ MakeRequest(v, d, u)
    /\ alive' = WithoutLeft(v, screen)

LEMMA DownloadIs ==
    ASSUME IInv, Download
    PROVE  \E v \in Views, d \in Downloads, u \in Urls : Downloading(v, d, u)
<1> DEFINE v == setting.view
           d == downloads + 1
           u == Picture[row[v]]
<1>0. Bounds /\ SettingInv
  BY InBounds DEF IInv
<1>1. setting \in [view : Cells \cup (1..opened), at : {"cache", "download"}]
      /\ setting.view \in alive /\ row[setting.view] \in Rows /\ downloads < MaxDownloads
      /\ setting.at = "download"
  BY <1>0 DEF Download, SettingInv, Idle
<1>2. v \in Views /\ d \in Downloads /\ u \in Urls
  BY <1>0, <1>1, PictureAssumption DEF Bounds
<1>3. setting = [view |-> v, at |-> "download"]
  BY <1>1
<1>4. Downloading(v, d, u)
  BY <1>1, <1>3 DEF Download, Downloading
<1> QED
  BY <1>2, <1>4

(* A request that is yet to be made.                                       *)
LEMMA NextIsFresh ==
    ASSUME IInv, FreshInv, NEW d \in Downloads, d = downloads + 1
    PROVE  /\ state[d] = "none" /\ job[d] = NoJob
           /\ \A u \in Urls : handlers[u].request # d
           /\ \A v \in Views : Held(v) => receipt[v].request # d
<1>1. Bounds /\ ~(d <= downloads)
  BY InBounds DEF Bounds
<1>2. state[d] = "none" /\ job[d] = NoJob
  BY <1>1 DEF FreshInv
<1>3. \A u \in Urls : handlers[u].request # d
  BY <1>1, HandlerThere
<1>4. \A v \in Views : Held(v) => receipt[v].request # d
  BY <1>1 DEF IInv, ReceiptInv, Held
<1> QED
  BY <1>2, <1>3, <1>4

LEMMA FreshStep == IInv /\ FreshInv /\ RequestInv /\ [Next]_vars => FreshInv'
<1> SUFFICES ASSUME IInv, FreshInv, RequestInv, [Next]_vars PROVE FreshInv'
  OBVIOUS
<1>0. Types /\ Bounds
  BY HaveTypes, InBounds
<1>1. CASE UNCHANGED <<state, job, downloads>>
  BY <1>1 DEF FreshInv
<1>2. CASE Quiet \/ Complete
  BY <1>1, <1>2 DEF Quiet, Work, Complete, requests
<1>3. CASE Download
  <2>1. PICK v \in Views, d \in Downloads, u \in Urls : Downloading(v, d, u)
    BY <1>3, DownloadIs
  <2>2. downloads' = d /\ d = downloads + 1 /\ job' = job
    BY <2>1 DEF Downloading
  <2>3. state[d] = "none" /\ job[d] = NoJob
    BY <2>2, NextIsFresh
  <2>4. state' = state \/ \E s \in {"initialized", "resumed"} : state' = [state EXCEPT ![d] = s]
    BY <1>0, <2>1 DEF Downloading, Join, TakeCached, MakeRequest, Start, Types
  <2>5. \A s \in Downloads : s # d => state'[s] = state[s]
    BY <1>0, <2>4 DEF Types
  <2>6. \A s \in Downloads : state'[s] # "none" => s <= downloads'
    <3>1. \A s \in Downloads : s # d /\ state'[s] # "none" => s <= downloads
      BY <2>5 DEF FreshInv
    <3> QED
      BY <1>0, <2>2, <3>1 DEF Bounds
  <2> QED
    BY <2>2, <2>3, <2>5, <2>6 DEF FreshInv
<1>4. ASSUME NEW v \in Cells \cup (1..opened), NEW r \in Rows, SetImage(v, r), SetFrame
      PROVE  FreshInv'
  <2>1. v \in Views
    BY <1>0 DEF Bounds
  <2>2. state' = state \/ \E q \in Downloads : q <= downloads /\ state' = [state EXCEPT ![q] = "cancelled"]
    <3>1. CASE UNCHANGED state
      BY <3>1
    <3>2. CASE CancelRequest(v)
      <4>1. CASE \E u \in Urls : \E i \in 1..Len(handlers[u].ops) : Cancels(v, u, i)
        <5>1. receipt[v].request \in Downloads /\ receipt[v].request <= downloads
          BY <2>1, <4>1 DEF Cancels, IInv, ReceiptInv, Held
        <5> QED
          BY <4>1, <5>1 DEF Cancels
      <4> QED
        BY <2>1, <3>2, <4>1, CancelIs
    <3> QED
      BY <1>4, <2>1, <3>1, <3>2, SetImageIs
  <2> QED
    BY <1>0, <1>4, <2>2 DEF FreshInv, SetFrame, Types
<1>5. ASSUME NEW r \in Downloads, Answer(r) PROVE FreshInv'
  <2>1. PICK ok \in BOOLEAN : /\ state[r] \in {"resumed", "cancelled"}
                 /\ job' = [job EXCEPT ![r] = [at |-> "fetch", ok |-> ok, ops |-> <<>>]]
    BY <1>5 DEF Answer
  <2> QED
    BY <1>0, <1>5, <2>1 DEF FreshInv, Types, Answer, requests
<1>6. ASSUME NEW r \in Downloads, Respond(r) PROVE FreshInv'
  <2>1. downloads' = downloads /\ job[r].at # "none" /\ (state[r] \in {"resumed", "cancelled"})
    BY <1>6 DEF Respond, Fetch, TakeHandler, Serve, Decrement, StartNext, Stage, FreshInv, NoJob
  <2>2. \A s \in Downloads : s # r => job'[s] = job[s]
    BY <1>0, <1>6 DEF Respond, Fetch, TakeHandler, Serve, Decrement, StartNext, Goes, Types
  <2>3. job'[r].at # "none" /\ (job'[r].at # "serve" => job'[r].ops = <<>>)
    BY <1>0, <1>6 DEF Respond, Fetch, TakeHandler, Serve, Decrement, StartNext, Goes, Stage, Types, FreshInv
  <2>4. \A s \in Downloads : \/ state'[s] = state[s]
                             \/ state[s] = "initialized" /\ state'[s] = "resumed"
    BY <1>0, <1>6 DEF Respond, Fetch, TakeHandler, Serve, Decrement, StartNext, Start, Types
  <2> QED
    BY <1>0, <2>1, <2>2, <2>3, <2>4 DEF FreshInv, NoJob
<1> QED
  BY <1>2, <1>3, <1>4, <1>5, <1>6, Kinds

(* The steps of a response, by what they do.                               *)
Moves(r, from, to, ops) ==
    job[r].at = from /\ job' = [job EXCEPT ![r] = [at |-> to, ok |-> job[r].ok, ops |-> ops]]

Fetching(r) ==
    /\ Moves(r, "fetch", IF handlers[url[r]].request = r THEN "remove" ELSE "decrement", job[r].ops)
    /\ UNCHANGED <<main, handlers, active, queued, state, cache, stolen>>

FindingNone(r) ==
    /\ handlers[url[r]] = NoHandler /\ Moves(r, "remove", "decrement", job[r].ops)
    /\ UNCHANGED <<main, handlers, active, queued, state, cache, stolen>>

Taking(r) ==
    /\ handlers[url[r]] # NoHandler /\ Moves(r, "remove", "serve", handlers[url[r]].ops)
    /\ handlers' = [handlers EXCEPT ![url[r]] = NoHandler]
    /\ stolen' = IF handlers[url[r]].request = r THEN stolen ELSE stolen \cup {url[r]}
    /\ UNCHANGED <<main, active, queued, state, cache>>

Serving(r) ==
    /\ Moves(r, "serve", "decrement", <<>>)
    /\ cache' = IF job[r].ok THEN cache \cup {url[r]} ELSE cache
    /\ main' = main \o [i \in 1..Len(job[r].ops) |-> Completion(job[r].ops[i], url[r], job[r].ok)]
    /\ UNCHANGED <<handlers, active, queued, state, stolen>>

Decrementing(r) ==
    /\ Moves(r, "decrement", "next", job[r].ops) /\ active' = active - 1
    /\ UNCHANGED <<main, handlers, queued, state, cache, stolen>>

StartingNone(r) ==
    /\ Moves(r, "next", "done", job[r].ops) /\ ~(active < MaxActive /\ queued # <<>>)
    /\ UNCHANGED <<main, handlers, active, queued, state, cache, stolen>>

StartingNext(r) ==
    /\ Moves(r, "next", "done", job[r].ops) /\ active < MaxActive /\ queued # <<>>
    /\ Start(state, Head(queued)) /\ queued' = Tail(queued)
    /\ UNCHANGED <<main, handlers, cache, stolen>>

RespondFrame == UNCHANGED <<row, alive, image, receipt, setting, downloads, url, tasks, completed, excused>>

LEMMA RespondIs ==
    ASSUME IInv, NEW r \in Downloads, Respond(r)
    PROVE  /\ RespondFrame /\ url[r] \in Urls
           /\ \/ Fetching(r) \/ FindingNone(r) \/ Taking(r) \/ Serving(r) \/ Decrementing(r)
              \/ StartingNone(r) \/ StartingNext(r)
<1>0. Types
  BY HaveTypes
<1>1. job[r] = [at |-> job[r].at, ok |-> job[r].ok, ops |-> job[r].ops] /\ job[r].ops \in Seq(Operations)
  BY <1>0 DEF Types
<1>2. job[r].at # "none"
  BY <1>0 DEF Respond, Fetch, TakeHandler, Serve, Decrement, StartNext, Stage
<1>3. url[r] \in Urls
  BY <1>2 DEF IInv, JobInv
<1>4. RespondFrame
  BY DEF Respond, RespondFrame, views
<1>5. ASSUME NEW from, NEW to, Stage(r, from), Goes(r, to) PROVE Moves(r, from, to, job[r].ops)
  <2>1. [job[r] EXCEPT !.at = to] = [at |-> to, ok |-> job[r].ok, ops |-> job[r].ops]
    BY <1>1
  <2> QED
    BY <1>5, <2>1, Zenon DEF Stage, Goes, Moves
<1>a. ASSUME NEW x, NEW y
      PROVE  [[job[r] EXCEPT !.at = x] EXCEPT !.ops = y] = [at |-> x, ok |-> job[r].ok, ops |-> y]
  <2> DEFINE k == [job[r] EXCEPT !.at = x]
  <2>1. k = [at |-> x, ok |-> job[r].ok, ops |-> job[r].ops]
    BY <1>1
  <2> HIDE DEF k
  <2>2. [k EXCEPT !.ops = y] = [at |-> x, ok |-> job[r].ok, ops |-> y]
    BY <2>1
  <2> QED
    BY <2>2 DEF k
<1>6. CASE Fetch(r)
  <2>1. Fetching(r)
    <3>1. CASE handlers[url[r]].request # r
      BY <1>5, <1>6, <3>1 DEF Fetch, Fetching
    <3>2. CASE handlers[url[r]].request = r
      BY <1>5, <1>6, <3>2 DEF Fetch, Fetching
    <3> QED
      BY <3>1, <3>2
  <2> QED
    BY <1>3, <1>4, <2>1
<1>7. CASE TakeHandler(r)
  <2>1. CASE handlers[url[r]] = NoHandler
    <3>1. handlers' = handlers
      BY <1>0, <1>7, <2>1 DEF TakeHandler, Types
    <3>2. stolen' = stolen
      BY <1>7, <2>1 DEF TakeHandler, NoHandler
    <3>3. FindingNone(r)
      BY <1>5, <1>7, <2>1, <3>1, <3>2 DEF TakeHandler, FindingNone
    <3> QED
      BY <1>3, <1>4, <3>3
  <2>2. CASE handlers[url[r]] # NoHandler
    <3>1. Moves(r, "remove", "serve", handlers[url[r]].ops)
      <4>1. job' = [job EXCEPT ![r].at = "serve", ![r].ops = handlers[url[r]].ops]
        BY <1>7, <2>2 DEF TakeHandler
      <4> DEFINE ops == handlers[url[r]].ops
      <4> HIDE DEF ops
      <4>2. job' = [job EXCEPT ![r].at = "serve", ![r].ops = ops]
        BY <4>1 DEF ops
      <4>3. job' = [job EXCEPT ![r] = [[job[r] EXCEPT !.at = "serve"] EXCEPT !.ops = ops]]
        BY <1>0, <4>2 DEF Types
      <4>4. [[job[r] EXCEPT !.at = "serve"] EXCEPT !.ops = ops] = [at |-> "serve", ok |-> job[r].ok, ops |-> ops]
        BY <1>a, Zenon
      <4> QED
        BY <1>7, <4>3, <4>4, Zenon DEF Moves, TakeHandler, Stage, ops
    <3>2. stolen' = IF handlers[url[r]].request = r THEN stolen ELSE stolen \cup {url[r]}
      BY <1>3, <1>7, <2>2, HandlerThere DEF TakeHandler
    <3>3. Taking(r)
      BY <1>7, <2>2, <3>1, <3>2 DEF TakeHandler, Taking
    <3> QED
      BY <1>3, <1>4, <3>3
  <2> QED
    BY <2>1, <2>2
<1>8. CASE Serve(r)
  <2>1. Moves(r, "serve", "decrement", <<>>)
    <3>1. job' = [job EXCEPT ![r].at = "decrement", ![r].ops = <<>>]
      BY <1>8 DEF Serve
    <3>2. job' = [job EXCEPT ![r] = [[job[r] EXCEPT !.at = "decrement"] EXCEPT !.ops = <<>>]]
      BY <1>0, <3>1 DEF Types
    <3>3. [[job[r] EXCEPT !.at = "decrement"] EXCEPT !.ops = <<>>] = [at |-> "decrement", ok |-> job[r].ok, ops |-> <<>>]
      BY <1>a, Zenon
    <3> QED
      BY <1>8, <3>2, <3>3, Zenon DEF Moves, Serve, Stage
  <2>2. DOMAIN job[r].ops = 1..Len(job[r].ops)
    BY <1>1
  <2>3. Serving(r)
    BY <1>8, <2>1, <2>2 DEF Serve, Serving, downloader
  <2> QED
    BY <1>3, <1>4, <2>3
<1>9. CASE Decrement(r)
  BY <1>3, <1>4, <1>5, <1>9 DEF Decrement, Decrementing
<1>10. CASE StartNext(r)
  BY <1>3, <1>4, <1>5, <1>10 DEF StartNext, StartingNone, StartingNext
<1> QED
  BY <1>6, <1>7, <1>8, <1>9, <1>10 DEF Respond

LEMMA MovesIs ==
    ASSUME Types, NEW r \in Downloads, NEW from, NEW to, NEW ops, Moves(r, from, to, ops)
    PROVE  /\ job[r].at = from /\ job'[r].at = to /\ job'[r].ops = ops /\ job'[r].ok = job[r].ok
           /\ \A s \in Downloads : s # r => job'[s] = job[s]
           /\ from # "none" => job[r] # NoJob
           /\ to # "none" => job'[r] # NoJob
<1> DEFINE j == [at |-> to, ok |-> job[r].ok, ops |-> ops]
<1>1. /\ job[r].at = from /\ job'[r] = j
      /\ \A s \in Downloads : s # r => job'[s] = job[s]
  BY DEF Moves, Types
<1> QED
  BY <1>1 DEF NoJob

(* What starting the first of the queue does.                              *)
LEMMA StartIs ==
    ASSUME Types, queued \in Seq(Downloads), queued # <<>>, Start(state, Head(queued))
    PROVE  /\ Head(queued) \in Downloads /\ active' = active + 1
           /\ \A s \in Downloads : state'[s] = IF s = Head(queued) /\ state[s] = "initialized"
                                               THEN "resumed" ELSE state[s]
<1>1. Head(queued) \in Downloads
  OBVIOUS
<1> QED
  BY <1>1 DEF Types, Start

(* A response keeps the requests and their handlers in step.               *)
LEMMA RequestRespond ==
    ASSUME IInv, FreshInv, RequestInv, SlotInv, NEW r \in Downloads, Respond(r)
    PROVE  RequestInv'
<1>0. Types /\ queued \in Seq(Downloads)
  BY HaveTypes DEF SlotInv
<1>1. RespondFrame /\ url[r] \in Urls
  BY RespondIs
<1>2. UNCHANGED <<url, tasks>>
  BY <1>1 DEF RespondFrame
<1>a. job[r].at # "none" /\ job[r] # NoJob
  BY DEF FreshInv, Respond, Fetch, TakeHandler, Serve, Decrement, StartNext, Stage, NoJob
<1>3. ASSUME UNCHANGED <<handlers, stolen>>,
             \A s \in Downloads : s # r => job'[s] = job[s],
             job'[r] # NoJob,
             \A u \in Urls : handlers[u].request = r => job'[r].at \in {"fetch", "remove"},
             \A s \in Downloads : \/ state'[s] = state[s]
                                  \/ state[s] = "initialized" /\ state'[s] = "resumed"
      PROVE  RequestInv'
  <2>1. ASSUME NEW u \in Urls, handlers[u] # NoHandler
        PROVE  /\ state'[handlers[u].request] \in {"initialized", "resumed"}
               /\ job'[handlers[u].request].at \in {"none", "fetch", "remove"}
               /\ job'[handlers[u].request].at # "none" => handlers[u].request \in tasks
    <3>1. handlers[u].request \in Downloads
      BY <2>1, HandlerThere
    <3> QED
      BY <1>a, <1>3, <2>1, <3>1 DEF RequestInv
  <2>2. ASSUME NEW s \in Downloads, state'[s] \in {"initialized", "resumed"}, job'[s] = NoJob
        PROVE  Pending(s)
    BY <1>3, <2>2 DEF Pending
  <2>3. UNCHANGED <<handlers, stolen, url, tasks>>
    BY <1>2, <1>3
  <2>4. \A u \in Urls : handlers'[u] # NoHandler =>
          /\ handlers'[u].ops # <<>>
          /\ state'[handlers'[u].request] \in {"initialized", "resumed"}
          /\ job'[handlers'[u].request].at \in {"none", "fetch", "remove"}
          /\ job'[handlers'[u].request].at # "none" => handlers'[u].request \in tasks'
    BY <2>1, <2>3 DEF RequestInv
  <2>5. \A s \in Downloads : Pending(s)' /\ url'[s] \notin stolen' => handlers'[url'[s]].request = s
    BY <2>2, <2>3 DEF RequestInv, Pending
  <2> QED
    BY <2>4, <2>5 DEF RequestInv
<1>4. ASSUME NEW u \in Urls, handlers[u].request = r PROVE job[r].at \in {"fetch", "remove"}
  <2>1. handlers[u] # NoHandler
    BY <1>4, HandlerThere
  <2> QED
    BY <1>a, <1>4, <2>1 DEF RequestInv
<1>5. CASE Fetching(r)
  <2> DEFINE to == IF handlers[url[r]].request = r THEN "remove" ELSE "decrement"
  <2>1. /\ job'[r].at = to /\ job'[r] # NoJob /\ \A s \in Downloads : s # r => job'[s] = job[s]
    <3>1. to # "none"
      OBVIOUS
    <3> QED
      BY <1>0, <1>5, <3>1, MovesIs DEF Fetching
  <2>2. ASSUME NEW u \in Urls, handlers[u].request = r PROVE job'[r].at = "remove"
    <3>1. u = url[r]
      BY <2>2, HandlerThere
    <3> QED
      BY <2>1, <2>2, <3>1
  <2> QED
    BY <1>3, <1>5, <2>1, <2>2 DEF Fetching
<1>6. CASE FindingNone(r)
  <2>1. /\ job'[r] # NoJob /\ \A s \in Downloads : s # r => job'[s] = job[s]
    BY <1>0, <1>6, MovesIs DEF FindingNone
  <2>2. ASSUME NEW u \in Urls, handlers[u].request = r PROVE FALSE
    BY <1>6, <2>2, HandlerThere DEF FindingNone
  <2> QED
    BY <1>3, <1>6, <2>1, <2>2 DEF FindingNone
<1>7. CASE Serving(r)
  <2>1. /\ job[r].at = "serve" /\ job'[r] # NoJob /\ \A s \in Downloads : s # r => job'[s] = job[s]
    BY <1>0, <1>7, MovesIs DEF Serving
  <2> QED
    BY <1>3, <1>4, <1>7, <2>1 DEF Serving
<1>8. CASE Decrementing(r)
  <2>1. /\ job[r].at = "decrement" /\ job'[r] # NoJob /\ \A s \in Downloads : s # r => job'[s] = job[s]
    BY <1>0, <1>8, MovesIs DEF Decrementing
  <2> QED
    BY <1>3, <1>4, <1>8, <2>1 DEF Decrementing
<1>9. CASE StartingNone(r) \/ StartingNext(r)
  <2>1. /\ job[r].at = "next" /\ job'[r] # NoJob /\ \A s \in Downloads : s # r => job'[s] = job[s]
    BY <1>0, <1>9, MovesIs DEF StartingNone, StartingNext
  <2>2. \A s \in Downloads : \/ state'[s] = state[s]
                             \/ state[s] = "initialized" /\ state'[s] = "resumed"
    BY <1>0, <1>9, StartIs DEF StartingNone, StartingNext
  <2> QED
    BY <1>3, <1>4, <1>9, <2>1, <2>2 DEF StartingNone, StartingNext
<1>10. CASE Taking(r)
  <2> DEFINE u == url[r]
  <2>1. /\ job'[r].at = "serve" /\ job'[r] # NoJob /\ \A s \in Downloads : s # r => job'[s] = job[s]
    BY <1>0, <1>10, MovesIs DEF Taking
  <2>2. /\ handlers'[u] = NoHandler /\ \A w \in Urls : w # u => handlers'[w] = handlers[w]
        /\ u \in Urls /\ state' = state /\ stolen \subseteq stolen'
        /\ handlers[u].request # r => u \in stolen'
    BY <1>0, <1>1, <1>10 DEF Taking, Types
  <2>3. ASSUME NEW w \in Urls, handlers'[w] # NoHandler
        PROVE  /\ handlers'[w].ops # <<>>
               /\ state'[handlers'[w].request] \in {"initialized", "resumed"}
               /\ job'[handlers'[w].request].at \in {"none", "fetch", "remove"}
               /\ job'[handlers'[w].request].at # "none" => handlers'[w].request \in tasks'
    <3>1. w # u /\ handlers'[w] = handlers[w] /\ handlers[w] # NoHandler
      BY <2>2, <2>3
    <3>2. handlers[w].request \in Downloads /\ handlers[w].request # r
      BY <3>1, HandlerThere
    <3> QED
      BY <1>2, <2>1, <2>2, <3>1, <3>2 DEF RequestInv
  <2>4. ASSUME NEW s \in Downloads, Pending(s)', url'[s] \notin stolen' PROVE handlers'[url'[s]].request = s
    <3>1. s # r
      BY <2>1, <2>4 DEF Pending
    <3>2. Pending(s) /\ url[s] \notin stolen
      BY <1>2, <2>1, <2>2, <2>4, <3>1 DEF Pending
    <3>3. handlers[url[s]].request = s /\ url[s] \in Urls
      BY <3>2 DEF RequestInv, IInv, JobInv, Pending
    <3>4. url[s] # u
      BY <1>2, <2>2, <2>4, <3>1, <3>3
    <3> QED
      BY <1>2, <2>2, <3>3, <3>4
  <2> QED
    BY <2>3, <2>4 DEF RequestInv
<1> QED
  BY <1>5, <1>6, <1>7, <1>8, <1>9, <1>10, RespondIs

(* A handler under another URL has another request.                        *)
LEMMA OneUrl ==
    ASSUME IInv, NEW u \in Urls, NEW w \in Urls, handlers[u].request = handlers[w].request,
           handlers[u] # NoHandler
    PROVE  u = w
<1>1. handlers[w] # NoHandler
  BY HandlerThere
<1> QED
  BY <1>1, HandlerThere

(* A request that a download makes has its handler.                        *)
LEMMA RequestDownload ==
    ASSUME IInv, FreshInv, RequestInv, Download PROVE RequestInv'
<1>0. Types /\ Bounds
  BY HaveTypes, InBounds
<1>1. PICK v \in Views, d \in Downloads, u \in Urls : Downloading(v, d, u)
  BY DownloadIs
<1>2. UNCHANGED <<tasks, job, stolen>> /\ d = downloads + 1
  BY <1>1 DEF Downloading
<1>3. CASE TakeCached(v, d, u)
  BY <1>2, <1>3 DEF TakeCached, RequestInv, Pending
<1>4. CASE Join(v, d, u)
  <2>1. handlers[u] # NoHandler /\ UNCHANGED <<url, state>>
        /\ handlers' = [handlers EXCEPT ![u].ops = Append(handlers[u].ops, [id |-> d, view |-> v])]
    BY <1>4 DEF Join
  <2>2. handlers[u].ops \in Seq(Operations)
        /\ handlers[u] = [request |-> handlers[u].request, ops |-> handlers[u].ops]
    BY <2>1, HandlerThere
  <2>3. /\ handlers'[u].ops = Append(handlers[u].ops, [id |-> d, view |-> v])
        /\ handlers'[u].request = handlers[u].request
        /\ \A w \in Urls : w # u => handlers'[w] = handlers[w]
    BY <1>0, <2>1, <2>2 DEF Types
  <2>4. handlers'[u].ops # <<>>
    BY <2>2, <2>3
  <2>5. \A w \in Urls : handlers'[w].request = handlers[w].request
    BY <2>3
  <2>6. ASSUME NEW w \in Urls, handlers'[w] # NoHandler
        PROVE  /\ handlers'[w].ops # <<>>
               /\ handlers[w] # NoHandler /\ handlers'[w].request = handlers[w].request
    BY <2>1, <2>3, <2>4, <2>6 DEF RequestInv
  <2>7. ASSUME NEW s \in Downloads, Pending(s)', url'[s] \notin stolen' PROVE handlers'[url'[s]].request = s
    <3>1. Pending(s) /\ url[s] \in Urls
      BY <1>2, <2>1, <2>7 DEF Pending, IInv, JobInv
    <3> QED
      BY <1>2, <2>1, <2>5, <2>7, <3>1 DEF RequestInv
  <2> QED
    BY <1>2, <2>1, <2>6, <2>7 DEF RequestInv
<1>5. CASE MakeRequest(v, d, u)
  <2>1. /\ handlers[u] = NoHandler /\ url' = [url EXCEPT ![d] = u]
        /\ handlers' = [handlers EXCEPT ![u] = [request |-> d, ops |-> <<[id |-> d, view |-> v]>>]]
        /\ \E s \in {"initialized", "resumed"} : state' = [state EXCEPT ![d] = s]
    BY <1>0, <1>5 DEF MakeRequest, Start, Types
  <2>2. /\ url'[d] = u /\ state'[d] \in {"initialized", "resumed"}
        /\ \A s \in Downloads : s # d => url'[s] = url[s] /\ state'[s] = state[s]
        /\ handlers'[u] = [request |-> d, ops |-> <<[id |-> d, view |-> v]>>]
        /\ \A w \in Urls : w # u => handlers'[w] = handlers[w]
    BY <1>0, <2>1 DEF Types
  <2>3. job[d] = NoJob /\ \A w \in Urls : handlers[w].request # d
    BY <1>2, NextIsFresh
  <2>4. ASSUME NEW w \in Urls, handlers'[w] # NoHandler
        PROVE  /\ handlers'[w].ops # <<>>
               /\ state'[handlers'[w].request] \in {"initialized", "resumed"}
               /\ job'[handlers'[w].request].at \in {"none", "fetch", "remove"}
               /\ job'[handlers'[w].request].at # "none" => handlers'[w].request \in tasks'
    <3>1. CASE w = u
      BY <1>2, <2>2, <2>3, <3>1 DEF NoJob
    <3>2. CASE w # u
      <4>1. handlers'[w] = handlers[w] /\ handlers[w].request \in Downloads /\ handlers[w].request # d
        BY <2>2, <2>3, <2>4, <3>2, HandlerThere
      <4> QED
        BY <1>2, <2>2, <2>4, <4>1 DEF RequestInv
    <3> QED
      BY <3>1, <3>2
  <2>5. ASSUME NEW s \in Downloads, Pending(s)', url'[s] \notin stolen' PROVE handlers'[url'[s]].request = s
    <3>1. CASE s = d
      BY <2>2, <3>1
    <3>2. CASE s # d
      <4>1. Pending(s) /\ url[s] \in Urls /\ url[s] \notin stolen /\ url'[s] = url[s]
        BY <1>2, <2>2, <2>5, <3>2 DEF Pending, IInv, JobInv
      <4>2. handlers[url[s]].request = s /\ s # 0
        BY <1>0, <4>1 DEF RequestInv, Bounds
      <4>3. url[s] # u
        BY <2>1, <4>2 DEF NoHandler
      <4> QED
        BY <2>2, <4>1, <4>2, <4>3
    <3> QED
      BY <3>1, <3>2
  <2> QED
    BY <2>4, <2>5 DEF RequestInv
<1> QED
  BY <1>1, <1>3, <1>4, <1>5 DEF Downloading

(* The request that is cancelled with its last operation is the handler's. *)
LEMMA RequestCancel ==
    ASSUME IInv, OpsInv, OwnInv, RequestInv, NEW v \in Views, NEW u \in Urls,
           NEW i \in 1..Len(handlers[u].ops), Cancels(v, u, i), SetFrame
    PROVE  RequestInv'
<1>0. Types /\ UNCHANGED <<url, tasks, job, stolen>>
  BY HaveTypes DEF SetFrame
<1>1. Held(v) /\ handlers[u] # NoHandler /\ handlers[u].ops[i].id = receipt[v].id
  BY DEF Cancels
<1>2. handlers[u].request = receipt[v].request
  BY <1>1 DEF OwnInv
<1>3. handlers[u].request \in Downloads /\ url[handlers[u].request] = u
  BY <1>1, HandlerThere
<1>4. \A w \in Urls : w # u => handlers'[w] = handlers[w]
  BY CancelLeaves
<1>5. CASE /\ handlers' = [handlers EXCEPT ![u] = NoHandler]
           /\ state' = [state EXCEPT ![receipt[v].request] = "cancelled"]
  <2>1. /\ handlers'[u] = NoHandler /\ state'[handlers[u].request] = "cancelled"
        /\ \A s \in Downloads : s # handlers[u].request => state'[s] = state[s]
    BY <1>0, <1>2, <1>3, <1>5 DEF Types
  <2>2. ASSUME NEW w \in Urls, handlers'[w] # NoHandler
        PROVE  /\ handlers'[w].ops # <<>>
               /\ state'[handlers'[w].request] \in {"initialized", "resumed"}
               /\ job'[handlers'[w].request].at \in {"none", "fetch", "remove"}
               /\ job'[handlers'[w].request].at # "none" => handlers'[w].request \in tasks'
    <3>1. w # u /\ handlers'[w] = handlers[w] /\ handlers[w].request \in Downloads
      BY <1>4, <2>1, <2>2, HandlerThere
    <3>2. handlers[w].request # handlers[u].request
      BY <1>1, <3>1, OneUrl
    <3> QED
      BY <1>0, <2>1, <2>2, <3>1, <3>2 DEF RequestInv
  <2>3. ASSUME NEW s \in Downloads, Pending(s)', url'[s] \notin stolen' PROVE handlers'[url'[s]].request = s
    <3>1. s # handlers[u].request
      BY <2>1, <2>3 DEF Pending
    <3>2. Pending(s) /\ url[s] \in Urls /\ url[s] \notin stolen
      BY <1>0, <2>1, <2>3, <3>1 DEF Pending, IInv, JobInv
    <3>3. handlers[url[s]].request = s
      BY <3>2 DEF RequestInv
    <3> QED
      BY <1>0, <1>4, <3>1, <3>2, <3>3
  <2> QED
    BY <2>2, <2>3 DEF RequestInv
<1>6. CASE /\ RemoveAt(handlers[u].ops, i) # <<>> /\ state' = state
           /\ handlers' = [handlers EXCEPT ![u] = [request |-> handlers[u].request, ops |-> RemoveAt(handlers[u].ops, i)]]
  <2> DEFINE left == RemoveAt(handlers[u].ops, i)
  <2> HIDE DEF left
  <2>1. handlers'[u] = [request |-> handlers[u].request, ops |-> left] /\ left # <<>>
    BY <1>0, <1>6 DEF Types, left
  <2>2. \A w \in Urls : handlers'[w].request = handlers[w].request
    BY <1>4, <2>1
  <2>3. ASSUME NEW w \in Urls, handlers'[w] # NoHandler
        PROVE  handlers'[w].ops # <<>> /\ handlers[w] # NoHandler
    BY <1>1, <1>4, <2>1, <2>3 DEF RequestInv
  <2>4. ASSUME NEW s \in Downloads, Pending(s)', url'[s] \notin stolen' PROVE handlers'[url'[s]].request = s
    <3>1. Pending(s) /\ url[s] \in Urls
      BY <1>0, <1>6, <2>4 DEF Pending, IInv, JobInv
    <3> QED
      BY <1>0, <2>2, <2>4, <3>1 DEF RequestInv
  <2> QED
    BY <1>0, <1>6, <2>2, <2>3, <2>4 DEF RequestInv
<1> QED
  BY <1>5, <1>6 DEF Cancels

LEMMA RequestStep ==
    IInv /\ FreshInv /\ RequestInv /\ SlotInv /\ OpsInv /\ OwnInv /\ [Next]_vars => RequestInv'
<1> SUFFICES ASSUME IInv, FreshInv, RequestInv, SlotInv, OpsInv, OwnInv, [Next]_vars PROVE RequestInv'
  OBVIOUS
<1>1. ASSUME UNCHANGED <<url, state, handlers, job, stolen>>, tasks \subseteq tasks' PROVE RequestInv'
  BY <1>1 DEF RequestInv, Pending
<1>2. CASE Quiet \/ Complete
  BY <1>1, <1>2 DEF Quiet, Work, Complete, requests, downloader
<1>3. ASSUME NEW v \in Cells \cup (1..opened), NEW r \in Rows, SetImage(v, r), SetFrame
      PROVE  RequestInv'
  <2>1. v \in Views
    BY InBounds DEF Bounds
  <2>2. CASE UNCHANGED <<handlers, state>>
    BY <1>1, <1>3, <2>2 DEF SetFrame
  <2>3. CASE CancelRequest(v)
    BY <1>3, <2>1, <2>2, <2>3, CancelIs, RequestCancel
  <2> QED
    BY <1>3, <2>1, <2>2, <2>3, SetImageIs
<1>4. ASSUME NEW r \in Downloads, Answer(r) PROVE RequestInv'
  <2>1. PICK ok \in BOOLEAN :
           /\ \/ state[r] = "resumed" /\ r \in tasks
              \/ state[r] = "cancelled" /\ ~ok
           /\ job' = [job EXCEPT ![r] = [at |-> "fetch", ok |-> ok, ops |-> <<>>]]
    BY <1>4 DEF Answer
  <2>2. UNCHANGED <<url, state, tasks, handlers, stolen>>
    BY <1>4 DEF Answer, requests, downloader
  <2>3. job'[r].at = "fetch" /\ job'[r] # NoJob /\ \A s \in Downloads : s # r => job'[s] = job[s]
    BY <2>1, HaveTypes DEF Types, NoJob
  <2>4. ASSUME NEW u \in Urls, handlers[u] # NoHandler
        PROVE  /\ job'[handlers[u].request].at \in {"none", "fetch", "remove"}
               /\ job'[handlers[u].request].at # "none" => handlers[u].request \in tasks
    BY <2>1, <2>3, <2>4, HandlerThere DEF RequestInv
  <2>5. \A s \in Downloads : Pending(s)' => Pending(s)
    BY <2>2, <2>3 DEF Pending
  <2> QED
    BY <2>2, <2>4, <2>5 DEF RequestInv
<1> QED
  BY <1>2, <1>3, <1>4, RequestRespond, RequestDownload, Kinds

-------------------------------------------------------------------------------
(* Slots are counted. *)

LEMMA Counted ==
    ASSUME NEW S \in SUBSET Downloads
    PROVE  /\ Cardinality(S) \in Nat
           /\ \A e \in Downloads \ S : Cardinality(S \cup {e}) = Cardinality(S) + 1
           /\ \A e \in S : Cardinality(S \ {e}) = Cardinality(S) - 1
<1>1. IsFiniteSet(Downloads)
  BY PictureAssumption, FS_Interval DEF Downloads
<1>2. IsFiniteSet(S)
  BY <1>1, FS_Subset
<1> QED
  BY <1>2, FS_CardinalityType, FS_AddElement, FS_RemoveElement

(* The slots, as long as requests and jobs stay what they are.             *)
LEMMA SlotSame ==
    ASSUME SlotInv, UNCHANGED <<active, queued>>,
           \A r \in Downloads : state'[r] # "none" <=> state[r] # "none",
           \A r \in Downloads : state'[r] = "initialized" => state[r] = "initialized",
           \A r \in Downloads : /\ job'[r].at \in {"next", "done"} <=> job[r].at \in {"next", "done"}
                                /\ job'[r].at = "next" <=> job[r].at = "next"
    PROVE  SlotInv'
<1>1. Made' = Made /\ Freed' = Freed /\ Starting' = Starting
  BY DEF Made, Freed, Starting
<1> QED
  BY <1>1 DEF SlotInv

LEMMA SlotDownload == ASSUME IInv, FreshInv, SlotInv, Download PROVE SlotInv'
<1>0. Types /\ Bounds /\ queued \in Seq(Downloads) /\ active \in Int
  <2>1. Made \in SUBSET Downloads /\ Freed \in SUBSET Downloads
    BY DEF Made, Freed
  <2>2. Cardinality(Made) \in Nat /\ Cardinality(Freed) \in Nat
    BY <2>1, Counted
  <2> QED
    BY <2>2, HaveTypes, InBounds DEF SlotInv
<1>1. PICK v \in Views, d \in Downloads, u \in Urls : Downloading(v, d, u)
  BY DownloadIs
<1>2. job' = job /\ d = downloads + 1
  BY <1>1 DEF Downloading
<1>3. CASE Join(v, d, u) \/ TakeCached(v, d, u)
  BY <1>2, <1>3, SlotSame DEF Join, TakeCached
<1>4. CASE MakeRequest(v, d, u)
  <2>1. state[d] = "none"
    BY <1>2, NextIsFresh
  <2>2. Made \in SUBSET Downloads /\ Starting \in SUBSET Downloads /\ d \notin Made
    BY <2>1 DEF Made, Starting
  <2>3. \E s \in {"initialized", "resumed"} : state' = [state EXCEPT ![d] = s]
    BY <1>0, <1>4 DEF MakeRequest, Start, Types
  <2>4. state'[d] # "none" /\ \A r \in Downloads : r # d => state'[r] = state[r]
    BY <1>0, <2>3 DEF Types
  <2>5. Made' = Made \cup {d}
    BY <2>4 DEF Made
  <2>6. Freed' = Freed /\ Starting' = Starting
    BY <1>2 DEF Freed, Starting
  <2>7. Cardinality(Made') = Cardinality(Made) + 1 /\ Cardinality(Starting) \in Nat
    BY <2>2, <2>5, Counted
  <2>8. CASE active < MaxActive
    <3>1. state'[d] = "resumed" /\ active' = active + 1 /\ queued' = queued
      BY <1>0, <1>4, <2>8 DEF MakeRequest, Start, Types
    <3>2. active' = Cardinality(Made') - Len(queued') - Cardinality(Freed')
      <4>1. /\ active = Cardinality(Made) - Len(queued) - Cardinality(Freed)
            /\ Cardinality(Made) \in Nat /\ Len(queued) \in Nat /\ Cardinality(Freed) \in Nat
        <5>1. Freed \in SUBSET Downloads
          BY DEF Freed
        <5> QED
          BY <1>0, <2>2, <5>1, Counted DEF SlotInv
      <4> QED
        BY <2>6, <2>7, <3>1, <4>1
    <3>3. queued' # <<>> => active' + Cardinality(Starting') >= MaxActive
      BY <1>0, <2>6, <2>7, <3>1, PictureAssumption DEF SlotInv
    <3>4. \A r \in Downloads : state'[r] = "initialized" => \E i \in 1..Len(queued) : queued[i] = r
      BY <2>4, <3>1 DEF SlotInv
    <3> QED
      BY <1>0, <3>1, <3>2, <3>3, <3>4 DEF SlotInv
  <2>9. CASE ~(active < MaxActive)
    <3>1. active' = active /\ queued' = Append(queued, d)
      BY <1>4, <2>9 DEF MakeRequest
    <3>2. /\ queued' \in Seq(Downloads) /\ Len(queued') = Len(queued) + 1 /\ queued'[Len(queued')] = d
          /\ \A i \in 1..Len(queued) : queued'[i] = queued[i]
          /\ Len(queued) \in Nat
      BY <1>0, <3>1
    <3>3. active' = Cardinality(Made') - Len(queued') - Cardinality(Freed')
      <4>1. /\ active = Cardinality(Made) - Len(queued) - Cardinality(Freed)
            /\ Cardinality(Made) \in Nat /\ Cardinality(Freed) \in Nat
        <5>1. Freed \in SUBSET Downloads
          BY DEF Freed
        <5> QED
          BY <2>2, <5>1, Counted DEF SlotInv
      <4> QED
        BY <2>6, <2>7, <3>1, <3>2, <4>1
    <3>4. active' + Cardinality(Starting') >= MaxActive
      BY <1>0, <2>6, <2>7, <2>9, <3>1, PictureAssumption
    <3>5. ASSUME NEW r \in Downloads, state'[r] = "initialized" PROVE \E i \in 1..Len(queued') : queued'[i] = r
      <4>1. CASE r = d
        BY <3>2, <4>1
      <4>2. CASE r # d
        <5>1. PICK i \in 1..Len(queued) : queued[i] = r
          BY <2>4, <3>5, <4>2 DEF SlotInv
        <5>2. i \in 1..Len(queued') /\ queued'[i] = r
          BY <3>2, <5>1
        <5> QED
          BY <5>2
      <4> QED
        BY <4>1, <4>2
    <3> QED
      BY <3>2, <3>3, <3>4, <3>5 DEF SlotInv
  <2> QED
    BY <2>8, <2>9
<1> QED
  BY <1>1, <1>3, <1>4 DEF Downloading

LEMMA SlotNumbers ==
    ASSUME SlotInv
    PROVE  /\ Cardinality(Made) \in Nat /\ Cardinality(Freed) \in Nat /\ Cardinality(Starting) \in Nat
           /\ Len(queued) \in Nat /\ active \in Int /\ MaxActive \in Nat \ {0}
           /\ active = Cardinality(Made) - Len(queued) - Cardinality(Freed)
<1>1. Made \in SUBSET Downloads /\ Freed \in SUBSET Downloads /\ Starting \in SUBSET Downloads
  BY DEF Made, Freed, Starting
<1>2. /\ Cardinality(Made) \in Nat /\ Cardinality(Freed) \in Nat /\ Cardinality(Starting) \in Nat
  BY <1>1, Counted
<1>3. queued \in Seq(Downloads)
  BY DEF SlotInv
<1>4. Len(queued) \in Nat
  BY <1>3
<1> QED
  BY <1>2, <1>4, PictureAssumption DEF SlotInv

LEMMA SlotRespond == ASSUME IInv, FreshInv, SlotInv, NEW r \in Downloads, Respond(r) PROVE SlotInv'
<1>0. /\ Types /\ queued \in Seq(Downloads)
  BY HaveTypes DEF SlotInv
<1>a. /\ Cardinality(Made) \in Nat /\ Cardinality(Freed) \in Nat /\ Cardinality(Starting) \in Nat
      /\ Len(queued) \in Nat /\ active \in Int /\ MaxActive \in Nat \ {0}
      /\ active = Cardinality(Made) - Len(queued) - Cardinality(Freed)
      /\ queued # <<>> => active + Cardinality(Starting) >= MaxActive
  BY SlotNumbers DEF SlotInv
<1>b. /\ Freed \in SUBSET Downloads /\ Starting \in SUBSET Downloads
  BY DEF Freed, Starting
<1>1. ASSUME NEW from \in {"fetch", "remove", "serve"}, NEW to \in {"remove", "serve", "decrement"}, NEW ops,
             Moves(r, from, to, ops), UNCHANGED <<active, queued, state>>
      PROVE  SlotInv'
  <2>1. /\ job[r].at = from /\ job'[r].at = to /\ \A s \in Downloads : s # r => job'[s] = job[s]
    BY <1>0, <1>1, MovesIs
  <2>2. \A s \in Downloads : /\ job'[s].at \in {"next", "done"} <=> job[s].at \in {"next", "done"}
                             /\ job'[s].at = "next" <=> job[s].at = "next"
    BY <2>1
  <2> QED
    BY <1>1, <2>2, SlotSame
<1>2. CASE Fetching(r)
  <2>1. CASE handlers[url[r]].request = r
    BY <1>1, <1>2, <2>1 DEF Fetching
  <2>2. CASE handlers[url[r]].request # r
    BY <1>1, <1>2, <2>2 DEF Fetching
  <2> QED
    BY <2>1, <2>2
<1>3. CASE FindingNone(r)
  BY <1>1, <1>3 DEF FindingNone
<1>4. CASE Taking(r)
  BY <1>1, <1>4 DEF Taking
<1>5. CASE Serving(r)
  BY <1>1, <1>5 DEF Serving
<1>6. CASE Decrementing(r)
  <2>1. /\ job[r].at = "decrement" /\ job'[r].at = "next" /\ \A s \in Downloads : s # r => job'[s] = job[s]
    BY <1>0, <1>6, MovesIs DEF Decrementing
  <2>2. /\ r \in Downloads \ Freed /\ r \in Downloads \ Starting
        /\ Freed' = Freed \cup {r} /\ Starting' = Starting \cup {r}
    BY <2>1 DEF Freed, Starting
  <2>3. Cardinality(Freed') = Cardinality(Freed) + 1 /\ Cardinality(Starting') = Cardinality(Starting) + 1
    BY <1>b, <2>2, Counted
  <2>4. active' = active - 1 /\ UNCHANGED <<queued, state>> /\ Made' = Made
    BY <1>6 DEF Decrementing, Made
  <2>5. active' = Cardinality(Made') - Len(queued') - Cardinality(Freed')
    BY <1>a, <2>3, <2>4
  <2>6. queued' # <<>> => active' + Cardinality(Starting') >= MaxActive
    BY <1>a, <2>3, <2>4
  <2> QED
    BY <1>0, <2>4, <2>5, <2>6 DEF SlotInv
<1>7. ASSUME Moves(r, "next", "done", job[r].ops)
      PROVE  Freed' = Freed /\ Cardinality(Starting') = Cardinality(Starting) - 1
  <2>1. /\ job[r].at = "next" /\ job'[r].at = "done" /\ \A s \in Downloads : s # r => job'[s] = job[s]
    BY <1>0, <1>7, MovesIs
  <2>2. r \in Starting /\ Freed' = Freed /\ Starting' = Starting \ {r}
    BY <2>1 DEF Freed, Starting
  <2> QED
    BY <1>b, <2>2, Counted
<1>8. CASE StartingNone(r)
  <2>1. Freed' = Freed /\ Cardinality(Starting') = Cardinality(Starting) - 1
    BY <1>7, <1>8 DEF StartingNone
  <2>2. UNCHANGED <<active, queued, state>> /\ Made' = Made
    BY <1>8 DEF StartingNone, Made
  <2>3. queued' # <<>> => active' + Cardinality(Starting') >= MaxActive
    <3>1. Cardinality(Starting') \in Nat
      <4>1. Starting' \in SUBSET Downloads
        BY DEF Starting
      <4> QED
        BY <4>1, Counted
    <3> QED
      BY <1>8, <1>a, <2>2, <3>1 DEF StartingNone
  <2> QED
    BY <1>0, <1>a, <2>1, <2>2, <2>3 DEF SlotInv
<1>9. CASE StartingNext(r)
  <2>1. Freed' = Freed /\ Cardinality(Starting') = Cardinality(Starting) - 1
    BY <1>7, <1>9 DEF StartingNext
  <2>2. queued # <<>> /\ queued' = Tail(queued) /\ Start(state, Head(queued))
    BY <1>9 DEF StartingNext
  <2>3. /\ active' = active + 1 /\ Head(queued) \in Downloads
        /\ \A s \in Downloads : state'[s] = IF s = Head(queued) /\ state[s] = "initialized"
                                            THEN "resumed" ELSE state[s]
    BY <1>0, <2>2, StartIs
  <2>4. /\ Head(queued) = queued[1] /\ Tail(queued) \in Seq(Downloads) /\ Len(Tail(queued)) = Len(queued) - 1
        /\ \A i \in 1..Len(queued) : i # 1 => i - 1 \in 1..Len(Tail(queued)) /\ Tail(queued)[i - 1] = queued[i]
    BY <1>0, <2>2
  <2>5. Made' = Made
    BY <2>3 DEF Made
  <2>6. active' = Cardinality(Made') - Len(queued') - Cardinality(Freed')
    BY <1>a, <2>1, <2>2, <2>3, <2>4, <2>5
  <2>7. active' + Cardinality(Starting') >= MaxActive
    BY <1>a, <2>1, <2>2, <2>3
  <2>8. ASSUME NEW s \in Downloads, state'[s] = "initialized" PROVE \E i \in 1..Len(queued') : queued'[i] = s
    <3>1. state[s] = "initialized" /\ s # Head(queued)
      BY <2>3, <2>8
    <3>2. PICK i \in 1..Len(queued) : queued[i] = s
      BY <3>1 DEF SlotInv
    <3>3. i # 1
      BY <2>4, <3>1, <3>2
    <3>4. i - 1 \in 1..Len(queued') /\ queued'[i - 1] = s
      BY <2>2, <2>4, <3>2, <3>3
    <3> QED
      BY <3>4
  <2> QED
    BY <2>2, <2>4, <2>6, <2>7, <2>8 DEF SlotInv
<1> QED
  BY <1>2, <1>3, <1>4, <1>5, <1>6, <1>8, <1>9, RespondIs

LEMMA SlotStep ==
    IInv /\ FreshInv /\ RequestInv /\ SlotInv /\ OwnInv /\ OpsInv /\ [Next]_vars => SlotInv'
<1> SUFFICES ASSUME IInv, FreshInv, RequestInv, SlotInv, OwnInv, OpsInv, [Next]_vars PROVE SlotInv'
  OBVIOUS
<1>0. Types
  BY HaveTypes
<1>1. CASE UNCHANGED <<state, job, active, queued>>
  BY <1>1, SlotSame
<1>2. CASE Quiet \/ Complete
  BY <1>1, <1>2 DEF Quiet, Work, Complete, requests, downloader
<1>3. ASSUME NEW v \in Cells \cup (1..opened), NEW r \in Rows, SetImage(v, r), SetFrame
      PROVE  SlotInv'
  <2>1. v \in Views
    BY InBounds DEF Bounds
  <2>2. CASE UNCHANGED state
    BY <1>1, <1>3, <2>2 DEF SetFrame
  <2>3. ASSUME NEW u \in Urls, NEW i \in 1..Len(handlers[u].ops), Cancels(v, u, i) PROVE SlotInv'
    <3>1. receipt[v].request = handlers[u].request /\ handlers[u].request \in Downloads
      <4>1. Held(v) /\ handlers[u] # NoHandler /\ handlers[u].ops[i].id = receipt[v].id
        BY <2>3 DEF Cancels
      <4>2. handlers[u].request = receipt[v].request
        BY <2>1, <4>1 DEF OwnInv
      <4> QED
        BY <4>1, <4>2, HandlerThere
    <3>2. state[handlers[u].request] \in {"initialized", "resumed"}
      BY <2>3 DEF Cancels, RequestInv
    <3>3. state' = state \/ state' = [state EXCEPT ![handlers[u].request] = "cancelled"]
      BY <2>3, <3>1 DEF Cancels
    <3>4. \A s \in Downloads : \/ state'[s] = state[s]
                               \/ state'[s] = "cancelled" /\ state[s] \in {"initialized", "resumed"}
      <4> DEFINE q == handlers[u].request
      <4>1. q \in Downloads /\ state[q] \in {"initialized", "resumed"}
            /\ (state' = state \/ state' = [state EXCEPT ![q] = "cancelled"])
        BY <3>1, <3>2, <3>3
      <4> HIDE DEF q
      <4> QED
        BY <1>0, <4>1 DEF Types
    <3>5. UNCHANGED <<active, queued, job>>
      BY <1>3 DEF SetFrame
    <3> QED
      BY <3>4, <3>5, SlotSame
  <2>4. CASE CancelRequest(v)
    BY <2>1, <2>2, <2>3, <2>4, CancelIs
  <2> QED
    BY <1>3, <2>1, <2>2, <2>4, SetImageIs
<1>4. ASSUME NEW r \in Downloads, Answer(r) PROVE SlotInv'
  <2>1. PICK ok \in BOOLEAN : job[r] = NoJob /\ job' = [job EXCEPT ![r] = [at |-> "fetch", ok |-> ok, ops |-> <<>>]]
    BY <1>4 DEF Answer
  <2>2. \A s \in Downloads : /\ job'[s].at \in {"next", "done"} <=> job[s].at \in {"next", "done"}
                             /\ job'[s].at = "next" <=> job[s].at = "next"
    BY <1>0, <2>1 DEF Types, NoJob
  <2>3. UNCHANGED <<state, active, queued>>
    BY <1>4 DEF Answer, requests, downloader
  <2> QED
    BY <2>2, <2>3, SlotSame
<1> QED
  BY <1>2, <1>3, <1>4, SlotRespond, SlotDownload, Kinds

-------------------------------------------------------------------------------
(* Operations are in one place. *)

LEMMA OpsTypes ==
    ASSUME IInv
    PROVE  /\ \A u \in Urls : handlers[u].ops \in Seq(Operations)
           /\ \A r \in Downloads : job[r].ops \in Seq(Operations)
           /\ main \in Seq(Completions)
BY HaveTypes, HandlerThere DEF Types

(* What a response does with the operations that its job took.             *)
LEMMA OpsRespond == ASSUME IInv, FreshInv, OpsInv, NEW r \in Downloads, Respond(r) PROVE OpsInv'
<1>0. /\ Types /\ RespondFrame /\ url[r] \in Urls
      /\ \A u \in Urls : handlers[u].ops \in Seq(Operations)
      /\ \A s \in Downloads : job[s].ops \in Seq(Operations)
      /\ main \in Seq(Completions)
  BY HaveTypes, OpsTypes, RespondIs
<1>a. UNCHANGED <<downloads, completed>>
  BY <1>0 DEF RespondFrame
<1>1. ASSUME \A s \in Downloads : job'[s].ops = job[s].ops, UNCHANGED <<handlers, main>>
      PROVE  OpsInv'
  <2>1. InJobs' = InJobs
    BY <1>1 DEF InJobs
  <2> QED
    BY <1>1, <1>a, <2>1 DEF OpsInv, InHandlers
<1>2. ASSUME NEW from, NEW to, Moves(r, from, to, job[r].ops), UNCHANGED <<handlers, main>>
      PROVE  OpsInv'
  BY <1>0, <1>1, <1>2, MovesIs
<1>3. CASE Fetching(r)
  BY <1>2, <1>3 DEF Fetching
<1>4. CASE FindingNone(r) \/ Decrementing(r) \/ StartingNone(r) \/ StartingNext(r)
  BY <1>2, <1>4 DEF FindingNone, Decrementing, StartingNone, StartingNext
<1>5. CASE Taking(r)
  <2> DEFINE u == url[r]
             ops == handlers[u].ops
  <2> HIDE DEF u, ops
  <2>1. /\ job'[r].ops = ops /\ job[r].at = "remove" /\ \A s \in Downloads : s # r => job'[s] = job[s]
    BY <1>0, <1>5, MovesIs DEF Taking, u, ops
  <2>2. u \in Urls /\ main' = main /\ handlers' = [handlers EXCEPT ![u] = NoHandler]
    BY <1>0, <1>5 DEF Taking, u
  <2>3. handlers'[u].ops = <<>> /\ \A w \in Urls : w # u => handlers'[w] = handlers[w]
    BY <1>0, <2>2 DEF Types, NoHandler
  <2>4. job[r].ops = <<>>
    BY <2>1 DEF FreshInv
  <2>5. /\ \A w \in Urls : InHandlers'[w] = IF w = u THEN {} ELSE InHandlers[w]
        /\ \A s \in Downloads : InJobs'[s] = IF s = r THEN InHandlers[u] ELSE InJobs[s]
        /\ InJobs[r] = {}
    <3>1. ASSUME NEW w \in Urls PROVE InHandlers'[w] = IF w = u THEN {} ELSE InHandlers[w]
      BY <2>3, IdsEmpty DEF InHandlers
    <3>2. InHandlers[u] = Ids(ops)
      BY <2>2 DEF InHandlers, ops
    <3>3. ASSUME NEW s \in Downloads PROVE InJobs'[s] = IF s = r THEN InHandlers[u] ELSE InJobs[s]
      BY <2>1, <3>2 DEF InJobs
    <3>4. InJobs[r] = {}
      BY <2>4, IdsEmpty DEF InJobs
    <3> QED
      BY <3>1, <3>3, <3>4
  <2>6. Apart(InHandlers, InJobs, Ids(main), downloads, completed)
    BY DEF OpsInv
  <2>7. Apart(InHandlers', InJobs', Ids(main), downloads, completed)
    BY <2>2, <2>5, <2>6, ApartTaken
  <2>8. \A w \in Urls : Single(handlers'[w].ops)
    BY <2>3, IdsEmpty DEF OpsInv
  <2>9. \A s \in Downloads : Single(job'[s].ops)
    BY <2>1, <2>2 DEF OpsInv, ops
  <2> QED
    BY <1>a, <2>2, <2>7, <2>8, <2>9 DEF OpsInv
<1>6. CASE Serving(r)
  <2> DEFINE ops == job[r].ops
             done == [i \in 1..Len(ops) |-> Completion(ops[i], url[r], job[r].ok)]
  <2>1. /\ job'[r].ops = <<>> /\ \A s \in Downloads : s # r => job'[s] = job[s]
    BY <1>0, <1>6, MovesIs DEF Serving
  <2>2. handlers' = handlers /\ main' = main \o done
    BY <1>6 DEF Serving
  <2>3. ops \in Seq(Operations) /\ job[r].ok \in BOOLEAN
    BY <1>0 DEF Types
  <2> HIDE DEF ops
  <2>4. Len(ops) \in Nat /\ \A i \in 1..Len(ops) : ops[i] \in Operations
    BY <2>3
  <2>5. \A op \in Operations : op.id \in Downloads /\ op.view \in Views
    BY Zenon DEF Operations
  <2>6. \A i \in 1..Len(ops) : Completion(ops[i], url[r], job[r].ok) \in Completions
    BY <1>0, <2>3, <2>4, <2>5 DEF Completion, Completions
  <2>7. done \in Seq(Completions) /\ Len(done) = Len(ops)
        /\ \A i \in 1..Len(ops) : done[i] = Completion(ops[i], url[r], job[r].ok)
    BY <2>4, <2>6
  <2> HIDE DEF done
  <2>8. \A i \in 1..Len(ops) : done[i].id = ops[i].id
    <3>1. ASSUME NEW op, NEW w, NEW ok PROVE Completion(op, w, ok).id = op.id
      BY DEF Completion
    <3>2. ASSUME NEW i \in 1..Len(ops) PROVE done[i].id = ops[i].id
      <4>1. done[i] = Completion(ops[i], url[r], job[r].ok)
        BY <2>7
      <4>2. Completion(ops[i], url[r], job[r].ok).id = ops[i].id
        BY <3>1
      <4> QED
        BY <4>1, <4>2
    <3> QED
      BY <3>2
  <2>9. Ids(done) = Ids(ops) /\ Single(done)
    <3>1. Single(ops)
      BY DEF OpsInv, ops
    <3> QED
      BY <2>7, <2>8, <3>1 DEF Ids, Single
  <2>10. Apart(InHandlers, InJobs, Ids(main), downloads, completed)
    BY DEF OpsInv
  <2>11. InJobs[r] = Ids(ops)
    BY DEF InJobs, ops
  <2>12. Ids(main) \cap Ids(done) = {}
    <3>1. InJobs[r] \cap Ids(main) = {}
      BY <2>10 DEF Apart
    <3> QED
      BY <2>9, <2>11, <3>1
  <2>13. Ids(main') = Ids(main) \cup Ids(done) /\ Single(main')
    <3>1. Single(main)
      BY DEF OpsInv
    <3> QED
      BY <1>0, <2>2, <2>7, <2>9, <2>12, <3>1, IdsConcat
  <2>14. \A s \in Downloads : InJobs'[s] = IF s = r THEN {} ELSE InJobs[s]
    BY <2>1, IdsEmpty DEF InJobs
  <2>15. Apart(InHandlers, InJobs', Ids(main) \cup InJobs[r], downloads, completed)
    BY <2>10, <2>14, ApartServed
  <2>16. InHandlers' = InHandlers
    BY <2>2 DEF InHandlers
  <2>17. Apart(InHandlers', InJobs', Ids(main'), downloads', completed')
    BY <1>a, <2>9, <2>11, <2>13, <2>15, <2>16
  <2>18. \A s \in Downloads : Single(job'[s].ops)
    BY <2>1, IdsEmpty DEF OpsInv
  <2> QED
    BY <2>2, <2>13, <2>17, <2>18 DEF OpsInv
<1> QED
  BY <1>3, <1>4, <1>5, <1>6, RespondIs

(* What joining or making a handler does to the handlers.                  *)
LEMMA JoinIs ==
    ASSUME IInv, NEW v \in Views, NEW d \in Downloads, NEW u \in Urls, Join(v, d, u) \/ MakeRequest(v, d, u)
    PROVE  /\ handlers'[u].ops = Append(handlers[u].ops, [id |-> d, view |-> v])
           /\ [id |-> d, view |-> v] \in Operations
           /\ \A w \in Urls : w # u => handlers'[w] = handlers[w]
           /\ main' = main
           /\ receipt' = [receipt EXCEPT ![v] = [id |-> d, request |-> handlers'[u].request]]
           /\ handlers[u] # NoHandler => handlers'[u].request = handlers[u].request
           /\ handlers[u] = NoHandler => handlers'[u].request = d
           /\ handlers'[u].request \in Downloads
<1>0. Types
  BY HaveTypes
<1> DEFINE op == [id |-> d, view |-> v]
<1>1. op \in Operations
  BY DEF Operations
<1> HIDE DEF op
<1>2. CASE Join(v, d, u)
  <2>1. handlers[u] # NoHandler /\ main' = main
        /\ handlers' = [handlers EXCEPT ![u].ops = Append(handlers[u].ops, op)]
        /\ receipt' = [receipt EXCEPT ![v] = [id |-> d, request |-> handlers[u].request]]
    BY <1>2 DEF Join, op
  <2>2. handlers[u].ops \in Seq(Operations) /\ handlers[u].request \in Downloads
        /\ handlers[u] = [request |-> handlers[u].request, ops |-> handlers[u].ops]
    BY <2>1, HandlerThere
  <2>3. /\ handlers'[u].ops = Append(handlers[u].ops, op)
        /\ handlers'[u].request = handlers[u].request
        /\ \A w \in Urls : w # u => handlers'[w] = handlers[w]
    BY <1>0, <2>1, <2>2 DEF Types
  <2> QED
    BY <1>1, <2>1, <2>2, <2>3 DEF op
<1>3. CASE MakeRequest(v, d, u)
  <2>1. handlers[u] = NoHandler /\ main' = main
        /\ handlers' = [handlers EXCEPT ![u] = [request |-> d, ops |-> <<op>>]]
        /\ receipt' = [receipt EXCEPT ![v] = [id |-> d, request |-> d]]
    BY <1>3 DEF MakeRequest, op
  <2>2. /\ handlers'[u] = [request |-> d, ops |-> <<op>>]
        /\ \A w \in Urls : w # u => handlers'[w] = handlers[w]
    BY <1>0, <2>1 DEF Types
  <2>3. Append(handlers[u].ops, op) = <<op>>
    BY <2>1 DEF NoHandler
  <2>4. handlers'[u].ops = <<op>> /\ handlers'[u].request = d
    BY <2>2
  <2> QED
    BY <1>1, <2>1, <2>2, <2>3, <2>4 DEF op
<1> QED
  BY <1>2, <1>3

LEMMA OpsDownload == ASSUME IInv, OpsInv, Download PROVE OpsInv'
<1>0. Types /\ Bounds /\ \A u \in Urls : handlers[u].ops \in Seq(Operations)
  BY HaveTypes, InBounds, OpsTypes
<1>1. PICK v \in Views, d \in Downloads, u \in Urls : Downloading(v, d, u)
  BY DownloadIs
<1>2. job' = job /\ d = downloads + 1 /\ downloads' = d /\ completed' = completed /\ downloads \in Nat
  BY <1>0, <1>1 DEF Downloading, Bounds
<1>3. InJobs' = InJobs
  BY <1>2 DEF InJobs
<1>4. Apart(InHandlers, InJobs, Ids(main), downloads, completed)
  BY DEF OpsInv
<1>5. CASE Join(v, d, u) \/ MakeRequest(v, d, u)
  <2> DEFINE op == [id |-> d, view |-> v]
  <2>1. op \in Operations /\ op.id = d
    BY <1>5, JoinIs
  <2> HIDE DEF op
  <2>2. /\ handlers'[u].ops = Append(handlers[u].ops, op)
        /\ \A w \in Urls : w # u => handlers'[w] = handlers[w]
        /\ main' = main
    BY <1>5, JoinIs DEF op
  <2>3. d \notin Ids(handlers[u].ops)
    <3>1. InHandlers[u] \subseteq 1..downloads
      BY <1>4 DEF Apart
    <3>2. d \notin 1..downloads
      BY <1>2
    <3> QED
      BY <3>1, <3>2 DEF InHandlers
  <2>4. Ids(handlers'[u].ops) = Ids(handlers[u].ops) \cup {d} /\ Single(handlers'[u].ops)
    <3>1. Single(handlers[u].ops)
      BY DEF OpsInv
    <3> QED
      BY <1>0, <2>1, <2>2, <2>3, <3>1, IdsAppend
  <2>5. \A w \in Urls : InHandlers'[w] = IF w = u THEN InHandlers[u] \cup {downloads + 1} ELSE InHandlers[w]
    BY <1>2, <2>2, <2>4 DEF InHandlers
  <2>6. Apart(InHandlers', InJobs, Ids(main), downloads + 1, completed)
    BY <1>2, <1>4, <2>5, ApartJoined
  <2>7. \A w \in Urls : Single(handlers'[w].ops)
    BY <2>2, <2>4 DEF OpsInv
  <2>8. Apart(InHandlers', InJobs', Ids(main'), downloads', completed')
    BY <1>2, <1>3, <2>2, <2>6
  <2> QED
    BY <1>2, <2>2, <2>7, <2>8 DEF OpsInv
<1>6. CASE TakeCached(v, d, u)
  <2> DEFINE c == Completion([id |-> d, view |-> v], u, TRUE)
  <2>1. c \in Completions /\ c.id = d
    BY DEF Completion, Completions
  <2> HIDE DEF c
  <2>2. main' = Append(main, c) /\ handlers' = handlers
    BY <1>6 DEF TakeCached, c
  <2>3. d \notin Ids(main)
    <3>1. Ids(main) \subseteq 1..downloads
      BY <1>4 DEF Apart
    <3>2. d \notin 1..downloads
      BY <1>2
    <3> QED
      BY <3>1, <3>2
  <2>4. Ids(main') = Ids(main) \cup {d} /\ Single(main')
    <3>1. Single(main) /\ main \in Seq(Completions)
      BY <1>0 DEF OpsInv, Types
    <3> QED
      BY <2>1, <2>2, <2>3, <3>1, IdsAppend
  <2>5. Apart(InHandlers, InJobs, Ids(main) \cup {downloads + 1}, downloads + 1, completed)
    BY <1>2, <1>4, ApartCached
  <2>6. InHandlers' = InHandlers
    BY <2>2 DEF InHandlers
  <2>7. Apart(InHandlers', InJobs', Ids(main'), downloads', completed')
    BY <1>2, <1>3, <2>4, <2>5, <2>6
  <2> QED
    BY <1>2, <2>2, <2>4, <2>7 DEF OpsInv
<1> QED
  BY <1>1, <1>5, <1>6 DEF Downloading

LEMMA OpsComplete == ASSUME IInv, OpsInv, Complete PROVE OpsInv'
<1>0. Types /\ Bounds
  BY HaveTypes, InBounds
<1> DEFINE e == Head(main).id
<1>1. main \in Seq(Completions) /\ main # <<>> /\ Single(main)
  BY <1>0 DEF Complete, OpsInv, Types
<1>2. Head(main) \in Completions /\ Head(main) = main[1] /\ 1 \in 1..Len(main)
  BY <1>1
<1>3. e \in Ids(main) /\ e \in Downloads
  BY <1>2 DEF Ids, Completions
<1>4. Ids(Tail(main)) = Ids(main) \ {e} /\ Single(Tail(main))
  BY <1>1, IdsTail
<1> HIDE DEF e
<1>5. /\ main' = Tail(main) /\ completed' = [completed EXCEPT ![e] = @ + 1]
      /\ UNCHANGED <<downloads, handlers, job>>
  BY DEF Complete, downloader, e
<1>6. InHandlers' = InHandlers /\ InJobs' = InJobs
  BY <1>5 DEF InHandlers, InJobs
<1>7. Apart(InHandlers, InJobs, Ids(main), downloads, completed) /\ downloads \in Nat
  BY <1>0 DEF OpsInv, Bounds
<1>8. Apart(InHandlers, InJobs, Ids(main) \ {e}, downloads, [completed EXCEPT ![e] = @ + 1])
  BY <1>3, <1>7, ApartCompleted
<1>9. Apart(InHandlers', InJobs', Ids(main'), downloads', completed')
  BY <1>4, <1>5, <1>6, <1>8
<1> QED
  BY <1>4, <1>5, <1>9 DEF OpsInv

LEMMA OpsCancel ==
    ASSUME IInv, OpsInv, NEW v \in Views, NEW u \in Urls, NEW i \in 1..Len(handlers[u].ops),
           Cancels(v, u, i), SetFrame
    PROVE  OpsInv'
<1>0. Types /\ UNCHANGED <<downloads, job, completed>>
  BY HaveTypes DEF SetFrame
<1> DEFINE e == receipt[v].id
           c == Completion(handlers[u].ops[i], u, FALSE)
<1>1. /\ Ids(handlers'[u].ops) = Ids(handlers[u].ops) \ {e} /\ Single(handlers'[u].ops)
      /\ e \in Ids(handlers[u].ops) /\ handlers[u].ops[i] \in Operations
      /\ \A w \in Urls : w # u => handlers'[w] = handlers[w]
  BY CancelLeaves
<1>2. main' = Append(main, c) /\ handlers[u].ops[i].id = e
  BY DEF Cancels
<1>3. c \in Completions /\ c.id = e
  <2> DEFINE op == handlers[u].ops[i]
  <2>1. op.id \in Downloads /\ op.view \in Views /\ op.id = e
    BY <1>1, <1>2 DEF Operations
  <2> HIDE DEF op, e
  <2>2. Completion(op, u, FALSE) \in Completions /\ Completion(op, u, FALSE).id = e
    BY <2>1 DEF Completion, Completions
  <2> QED
    BY <2>2 DEF op
<1> HIDE DEF e, c
<1>4. Apart(InHandlers, InJobs, Ids(main), downloads, completed)
  BY DEF OpsInv
<1>5. InHandlers[u] = Ids(handlers[u].ops)
  BY DEF InHandlers
<1>6. e \notin Ids(main)
  BY <1>1, <1>4, <1>5 DEF Apart
<1>7. Ids(main') = Ids(main) \cup {e} /\ Single(main')
  <2>1. Single(main) /\ main \in Seq(Completions)
    BY <1>0 DEF OpsInv, Types
  <2> QED
    BY <1>2, <1>3, <1>6, <2>1, IdsAppend
<1>8. \A w \in Urls : InHandlers'[w] = IF w = u THEN InHandlers[u] \ {e} ELSE InHandlers[w]
  BY <1>1 DEF InHandlers
<1>9. Apart(InHandlers', InJobs, Ids(main) \cup {e}, downloads, completed)
  <2>1. e \in InHandlers[u]
    BY <1>1, <1>5
  <2> QED
    BY <1>4, <1>8, <2>1, ApartCancelled
<1>10. InJobs' = InJobs
  BY <1>0 DEF InJobs
<1>11. Apart(InHandlers', InJobs', Ids(main'), downloads', completed')
  BY <1>0, <1>7, <1>9, <1>10
<1>12. \A w \in Urls : Single(handlers'[w].ops)
  BY <1>1 DEF OpsInv
<1> QED
  BY <1>0, <1>7, <1>11, <1>12 DEF OpsInv

LEMMA OpsStep == IInv /\ FreshInv /\ RequestInv /\ OpsInv /\ [Next]_vars => OpsInv'
<1> SUFFICES ASSUME IInv, FreshInv, RequestInv, OpsInv, [Next]_vars PROVE OpsInv'
  OBVIOUS
<1>1. ASSUME UNCHANGED <<handlers, main, downloads, completed>>,
             \A s \in Downloads : job'[s].ops = job[s].ops
      PROVE  OpsInv'
  <2>1. InJobs' = InJobs /\ InHandlers' = InHandlers
    BY <1>1 DEF InJobs, InHandlers
  <2> QED
    BY <1>1, <2>1 DEF OpsInv
<1>2. CASE Quiet
  BY <1>1, <1>2 DEF Quiet, Work
<1>3. ASSUME NEW v \in Cells \cup (1..opened), NEW r \in Rows, SetImage(v, r), SetFrame
      PROVE  OpsInv'
  <2>1. v \in Views
    BY InBounds DEF Bounds
  <2>2. CASE UNCHANGED <<handlers, main>>
    BY <1>1, <1>3, <2>2 DEF SetFrame
  <2>3. CASE CancelRequest(v)
    BY <1>3, <2>1, <2>2, <2>3, CancelIs, OpsCancel
  <2> QED
    BY <1>3, <2>1, <2>2, <2>3, SetImageIs
<1>4. ASSUME NEW r \in Downloads, Answer(r) PROVE OpsInv'
  <2>1. PICK ok \in BOOLEAN : job[r] = NoJob /\ job' = [job EXCEPT ![r] = [at |-> "fetch", ok |-> ok, ops |-> <<>>]]
    BY <1>4 DEF Answer
  <2>2. \A s \in Downloads : job'[s].ops = job[s].ops
    BY <2>1, HaveTypes DEF Types, NoJob
  <2>3. UNCHANGED <<handlers, main, downloads, completed>>
    BY <1>4 DEF Answer, downloader
  <2> QED
    BY <1>1, <2>2, <2>3
<1> QED
  BY <1>2, <1>3, <1>4, OpsRespond, OpsDownload, OpsComplete, Kinds

-------------------------------------------------------------------------------
(* Receipts are for operations of their own views. *)

(* An operation that is somewhere.                                         *)
InWork(c) ==
    \/ \E j \in 1..Len(main) : main[j].id = c.id /\ main[j].view = c.view
    \/ \E r \in Downloads : \E j \in 1..Len(job[r].ops) : job[r].ops[j].id = c.id /\ job[r].ops[j].view = c.view
    \/ \E u \in Urls : \E j \in 1..Len(handlers[u].ops) :
          handlers[u].ops[j].id = c.id /\ handlers[u].ops[j].view = c.view

(* It stays so while operations only move, and receipts are only cleared.  *)
LEMMA OwnKept ==
    ASSUME OwnInv, Bounds,
           downloads' \in Nat /\ downloads <= downloads',
           \A v \in Views : Held(v)' => receipt'[v] = receipt[v] /\ receipt[v].id \in Nat,
           \A i \in 1..Len(main') : InWork(main'[i]) \/ main'[i].id = downloads + 1,
           \A r \in Downloads : \A i \in 1..Len(job'[r].ops) : InWork(job'[r].ops[i]),
           \A u \in Urls : \A i \in 1..Len(handlers'[u].ops) :
              /\ handlers'[u].request = handlers[u].request
              /\ \E j \in 1..Len(handlers[u].ops) : handlers'[u].ops[i] = handlers[u].ops[j],
           setting' # Idle => receipt'[setting'.view] = NoReceipt
    PROVE  OwnInv'
<1>1. ASSUME NEW v \in Views, Held(v)'
      PROVE  /\ Held(v) /\ receipt'[v] = receipt[v] /\ receipt[v].id \in Nat
             /\ receipt[v].id <= downloads /\ receipt[v].id # downloads + 1
             /\ receipt'[v].id <= downloads'
  <2>1. Held(v) /\ receipt'[v] = receipt[v] /\ receipt[v].id \in Nat
    BY <1>1 DEF Held
  <2>2. receipt[v].id <= downloads /\ downloads \in Nat
    BY <2>1 DEF OwnInv, Bounds
  <2> QED
    BY <2>1, <2>2
<1>2. ASSUME NEW v \in Views, Held(v), NEW c, InWork(c), c.id = receipt[v].id
      PROVE  c.view = v
  BY <1>2 DEF OwnInv, InWork
<1>3. ASSUME NEW v \in Views, Held(v)'
      PROVE  /\ \A i \in 1..Len(main') : main'[i].id = receipt'[v].id => main'[i].view = v
             /\ \A r \in Downloads : \A i \in 1..Len(job'[r].ops) :
                   job'[r].ops[i].id = receipt'[v].id => job'[r].ops[i].view = v
             /\ \A u \in Urls : \A i \in 1..Len(handlers'[u].ops) :
                   handlers'[u].ops[i].id = receipt'[v].id =>
                      handlers'[u].ops[i].view = v /\ handlers'[u].request = receipt'[v].request
  <2>0. Held(v) /\ receipt'[v] = receipt[v] /\ receipt[v].id # downloads + 1
    BY <1>1, <1>3
  <2>1. \A i \in 1..Len(main') : main'[i].id = receipt'[v].id => main'[i].view = v
    BY <1>2, <2>0
  <2>2. \A r \in Downloads : \A i \in 1..Len(job'[r].ops) :
           job'[r].ops[i].id = receipt'[v].id => job'[r].ops[i].view = v
    BY <1>2, <2>0
  <2>3. ASSUME NEW u \in Urls, NEW i \in 1..Len(handlers'[u].ops), handlers'[u].ops[i].id = receipt'[v].id
        PROVE  handlers'[u].ops[i].view = v /\ handlers'[u].request = receipt'[v].request
    <3>1. PICK j \in 1..Len(handlers[u].ops) : handlers'[u].ops[i] = handlers[u].ops[j]
      OBVIOUS
    <3>2. handlers'[u].request = handlers[u].request
      OBVIOUS
    <3> QED
      BY <2>0, <2>3, <3>1, <3>2 DEF OwnInv
  <2> QED
    BY <2>1, <2>2, <2>3
<1>4. \A v \in Views : Held(v)' => receipt'[v].id <= downloads'
  BY <1>1
<1>5. \A v, w \in Views : Held(v)' /\ Held(w)' /\ receipt'[v].id = receipt'[w].id => v = w
  BY <1>1 DEF OwnInv
<1> QED
  BY <1>3, <1>4, <1>5 DEF OwnInv

(* A receipt that is made, and its operation.                              *)
LEMMA OwnMade ==
    ASSUME IInv, OpsInv, OwnInv, NEW v \in Views, NEW d \in Downloads, NEW u \in Urls,
           Downloading(v, d, u), Join(v, d, u) \/ MakeRequest(v, d, u)
    PROVE  OwnInv'
<1>0. Types /\ Bounds /\ \A w \in Urls : handlers[w].ops \in Seq(Operations)
  BY HaveTypes, InBounds, OpsTypes
<1>1. d = downloads + 1 /\ downloads' = d /\ setting' = Idle /\ job' = job /\ downloads \in Nat
  BY <1>0 DEF Downloading, Bounds
<1> DEFINE op == [id |-> d, view |-> v]
<1>2. op.id = d /\ op.view = v /\ op \in Operations
  BY JoinIs
<1> HIDE DEF op
<1>3. /\ handlers'[u].ops = Append(handlers[u].ops, op)
      /\ \A w \in Urls : w # u => handlers'[w] = handlers[w]
      /\ main' = main
      /\ receipt' = [receipt EXCEPT ![v] = [id |-> d, request |-> handlers'[u].request]]
      /\ handlers[u] # NoHandler => handlers'[u].request = handlers[u].request
      /\ handlers[u] = NoHandler => handlers'[u].request = d
      /\ handlers'[u].request \in Downloads
  BY JoinIs DEF op
<1>4. /\ receipt'[v].id = d /\ receipt'[v].request = handlers'[u].request
      /\ \A w \in Views : w # v => receipt'[w] = receipt[w]
  BY <1>0, <1>3 DEF Types
<1>5. /\ \A w \in Urls : Ids(handlers[w].ops) \subseteq 1..downloads
      /\ \A r \in Downloads : Ids(job[r].ops) \subseteq 1..downloads
      /\ Ids(main) \subseteq 1..downloads
      /\ d \notin 1..downloads
  BY <1>1 DEF OpsInv, Apart, InHandlers, InJobs
<1>6. /\ \A w \in Urls : \A i \in 1..Len(handlers[w].ops) : handlers[w].ops[i].id # d
      /\ \A r \in Downloads : \A i \in 1..Len(job[r].ops) : job[r].ops[i].id # d
      /\ \A i \in 1..Len(main) : main[i].id # d
  BY <1>5 DEF Ids
<1>7. ASSUME NEW w \in Views, Held(w) PROVE receipt[w].id \in Nat /\ receipt[w].id # d /\ receipt[w].id <= downloads
  <2>1. receipt[w].id <= downloads /\ receipt[w].id \in Downloads
    BY <1>0, <1>7 DEF OwnInv, Types, Held
  <2> QED
    BY <1>0, <1>1, <2>1 DEF Bounds
<1>8. \A w \in Views : w # v /\ Held(w)' => Held(w) /\ receipt'[w] = receipt[w]
  BY <1>4 DEF Held
<1>9. /\ Len(handlers'[u].ops) = Len(handlers[u].ops) + 1 /\ Len(handlers[u].ops) \in Nat
      /\ handlers'[u].ops[Len(handlers[u].ops) + 1] = op
      /\ \A i \in 1..Len(handlers[u].ops) : handlers'[u].ops[i] = handlers[u].ops[i]
  <2> DEFINE ops == handlers[u].ops
  <2>1. ops \in Seq(Operations)
    BY <1>0
  <2> HIDE DEF ops
  <2>2. /\ Len(Append(ops, op)) = Len(ops) + 1 /\ Len(ops) \in Nat
        /\ Append(ops, op)[Len(ops) + 1] = op
        /\ \A i \in 1..Len(ops) : Append(ops, op)[i] = ops[i]
    BY <1>2, <2>1
  <2> QED
    BY <1>3, <2>2 DEF ops
<1>10. ASSUME NEW w \in Urls, NEW i \in 1..Len(handlers'[w].ops)
       PROVE  \/ /\ w = u /\ handlers'[w].ops[i] = op
              \/ /\ i \in 1..Len(handlers[w].ops)
                 /\ handlers'[w].ops[i] = handlers[w].ops[i]
                 /\ handlers'[w].request = handlers[w].request
  <2>1. CASE w # u
    BY <1>3, <2>1
  <2>2. CASE w = u
    <3>1. i = Len(handlers[u].ops) + 1 \/ i \in 1..Len(handlers[u].ops)
      BY <1>9, <2>2
    <3>2. handlers[u] = NoHandler => Len(handlers[u].ops) = 0
      BY DEF NoHandler
    <3> QED
      BY <1>3, <1>9, <2>2, <3>1, <3>2
  <2> QED
    BY <2>1, <2>2
<1>11. ASSUME NEW w \in Views, Held(w)'
       PROVE  /\ receipt'[w].id <= downloads'
              /\ \A x \in Views : Held(x)' /\ receipt'[x].id = receipt'[w].id => x = w
              /\ \A i \in 1..Len(main') : main'[i].id = receipt'[w].id => main'[i].view = w
              /\ \A r \in Downloads : \A i \in 1..Len(job'[r].ops) :
                    job'[r].ops[i].id = receipt'[w].id => job'[r].ops[i].view = w
              /\ \A y \in Urls : \A i \in 1..Len(handlers'[y].ops) :
                    handlers'[y].ops[i].id = receipt'[w].id =>
                       handlers'[y].ops[i].view = w /\ handlers'[y].request = receipt'[w].request
  <2>1. CASE w = v
    <3>1. receipt'[w].id <= downloads'
      BY <1>1, <1>4, <2>1
    <3>2. \A x \in Views : Held(x)' /\ receipt'[x].id = receipt'[w].id => x = w
      BY <1>4, <1>7, <1>8, <2>1
    <3>3. \A i \in 1..Len(main') : main'[i].id = receipt'[w].id => main'[i].view = w
      BY <1>3, <1>4, <1>6, <2>1
    <3>4. \A r \in Downloads : \A i \in 1..Len(job'[r].ops) :
             job'[r].ops[i].id = receipt'[w].id => job'[r].ops[i].view = w
      BY <1>1, <1>4, <1>6, <2>1
    <3>5. ASSUME NEW y \in Urls, NEW i \in 1..Len(handlers'[y].ops), handlers'[y].ops[i].id = receipt'[w].id
          PROVE  handlers'[y].ops[i].view = w /\ handlers'[y].request = receipt'[w].request
      BY <1>2, <1>4, <1>6, <1>10, <2>1, <3>5
    <3> QED
      BY <3>1, <3>2, <3>3, <3>4, <3>5
  <2>2. CASE w # v
    <3>0. Held(w) /\ receipt'[w] = receipt[w] /\ receipt[w].id # d /\ receipt[w].id <= downloads
          /\ receipt[w].id \in Nat
      BY <1>7, <1>8, <1>11, <2>2
    <3>1. receipt'[w].id <= downloads'
      BY <1>1, <3>0
    <3>2. \A x \in Views : Held(x)' /\ receipt'[x].id = receipt'[w].id => x = w
      BY <1>4, <1>8, <3>0 DEF OwnInv
    <3>3. \A i \in 1..Len(main') : main'[i].id = receipt'[w].id => main'[i].view = w
      BY <1>3, <3>0 DEF OwnInv
    <3>4. \A r \in Downloads : \A i \in 1..Len(job'[r].ops) :
             job'[r].ops[i].id = receipt'[w].id => job'[r].ops[i].view = w
      BY <1>1, <3>0 DEF OwnInv
    <3>5. ASSUME NEW y \in Urls, NEW i \in 1..Len(handlers'[y].ops), handlers'[y].ops[i].id = receipt'[w].id
          PROVE  handlers'[y].ops[i].view = w /\ handlers'[y].request = receipt'[w].request
      <4>1. /\ i \in 1..Len(handlers[y].ops)
            /\ handlers'[y].ops[i] = handlers[y].ops[i]
            /\ handlers'[y].request = handlers[y].request
        BY <1>2, <1>10, <3>0, <3>5
      <4> QED
        BY <3>0, <3>5, <4>1 DEF OwnInv
    <3> QED
      BY <3>1, <3>2, <3>3, <3>4, <3>5
  <2> QED
    BY <2>1, <2>2
<1> QED
  BY <1>1, <1>11 DEF OwnInv

(* What is there is somewhere.                                             *)
LEMMA WorkIs ==
    /\ \A i \in 1..Len(main) : InWork(main[i])
    /\ \A r \in Downloads : \A i \in 1..Len(job[r].ops) : InWork(job[r].ops[i])
    /\ \A u \in Urls : \A i \in 1..Len(handlers[u].ops) : InWork(handlers[u].ops[i])
BY DEF InWork

LEMMA HeldIds == IInv => \A v \in Views : Held(v) => receipt[v].id \in Nat
<1> SUFFICES ASSUME IInv, NEW v \in Views, Held(v) PROVE receipt[v].id \in Nat
  OBVIOUS
<1>1. receipt[v].id \in Downloads
  BY HaveTypes DEF Types, Held
<1> QED
  BY <1>1, InBounds DEF Bounds

LEMMA OwnRespond == ASSUME IInv, OwnInv, NEW r \in Downloads, Respond(r) PROVE OwnInv'
<1>0. /\ Types /\ Bounds /\ RespondFrame /\ url[r] \in Urls
      /\ \A u \in Urls : handlers[u].ops \in Seq(Operations)
  BY HaveTypes, InBounds, RespondIs, OpsTypes
<1>1. UNCHANGED <<downloads, receipt, setting>> /\ downloads \in Nat /\ downloads <= downloads'
  BY <1>0 DEF RespondFrame, Bounds
<1>2. \A v \in Views : Held(v)' => receipt'[v] = receipt[v] /\ receipt[v].id \in Nat
  BY <1>1, HeldIds DEF Held
<1>3. setting' # Idle => receipt'[setting'.view] = NoReceipt
  BY <1>1 DEF OwnInv
<1>4. ASSUME \A i \in 1..Len(main') : InWork(main'[i]),
             \A s \in Downloads : \A i \in 1..Len(job'[s].ops) : InWork(job'[s].ops[i]),
             \A u \in Urls : \A i \in 1..Len(handlers'[u].ops) : handlers'[u] = handlers[u]
      PROVE  OwnInv'
  BY <1>0, <1>1, <1>2, <1>3, <1>4, OwnKept
<1>5. ASSUME NEW from, NEW to, Moves(r, from, to, job[r].ops), UNCHANGED <<handlers, main>>
      PROVE  OwnInv'
  <2>1. \A s \in Downloads : job'[s].ops = job[s].ops
    BY <1>0, <1>5, MovesIs
  <2> QED
    BY <1>4, <1>5, <2>1, WorkIs
<1>6. CASE Fetching(r)
  BY <1>5, <1>6 DEF Fetching
<1>7. CASE FindingNone(r) \/ Decrementing(r) \/ StartingNone(r) \/ StartingNext(r)
  BY <1>5, <1>7 DEF FindingNone, Decrementing, StartingNone, StartingNext
<1>8. CASE Taking(r)
  <2>1. job'[r].ops = handlers[url[r]].ops /\ \A s \in Downloads : s # r => job'[s] = job[s]
    BY <1>0, <1>8, MovesIs DEF Taking
  <2>2. main' = main /\ handlers' = [handlers EXCEPT ![url[r]] = NoHandler]
    BY <1>8 DEF Taking
  <2>3. handlers'[url[r]].ops = <<>> /\ \A w \in Urls : w # url[r] => handlers'[w] = handlers[w]
    BY <1>0, <2>2 DEF Types, NoHandler
  <2>4. \A u \in Urls : \A i \in 1..Len(handlers'[u].ops) : handlers'[u] = handlers[u]
    BY <2>3
  <2>5. \A s \in Downloads : \A i \in 1..Len(job'[s].ops) : InWork(job'[s].ops[i])
    BY <1>0, <2>1, WorkIs
  <2> QED
    BY <1>4, <2>2, <2>4, <2>5, WorkIs
<1>9. CASE Serving(r)
  <2> DEFINE ops == job[r].ops
             done == [i \in 1..Len(ops) |-> Completion(ops[i], url[r], job[r].ok)]
  <2>1. /\ job'[r].ops = <<>> /\ \A s \in Downloads : s # r => job'[s] = job[s]
    BY <1>0, <1>9, MovesIs DEF Serving
  <2>2. handlers' = handlers /\ main' = main \o done
    BY <1>9 DEF Serving
  <2>3. ops \in Seq(Operations) /\ main \in Seq(Completions)
    BY <1>0 DEF Types
  <2>4. \A i \in 1..Len(ops) : InWork(ops[i])
    BY WorkIs
  <2> HIDE DEF ops
  <2>5. ASSUME NEW op, InWork(op), NEW u, NEW ok PROVE InWork(Completion(op, u, ok))
    BY <2>5 DEF InWork, Completion
  <2>6. done \in Seq({done[i] : i \in 1..Len(ops)}) /\ Len(ops) \in Nat /\ Len(done) = Len(ops)
    BY <2>3
  <2>7. \A i \in 1..Len(done) : InWork(done[i])
    <3>1. \A i \in 1..Len(ops) : done[i] = Completion(ops[i], url[r], job[r].ok)
      OBVIOUS
    <3> QED
      BY <2>4, <2>5, <2>6, <3>1
  <2> HIDE DEF done
  <2>8. ASSUME NEW i \in 1..Len(main') PROVE InWork(main'[i])
    <3>1. \/ i \in 1..Len(main) /\ main'[i] = main[i]
          \/ i - Len(main) \in 1..Len(done) /\ main'[i] = done[i - Len(main)]
      BY <2>2, <2>3, <2>6
    <3> QED
      BY <2>7, <3>1, WorkIs
  <2>9. \A s \in Downloads : \A i \in 1..Len(job'[s].ops) : InWork(job'[s].ops[i])
    BY <2>1, WorkIs
  <2> QED
    BY <1>4, <2>2, <2>8, <2>9
<1> QED
  BY <1>6, <1>7, <1>8, <1>9, RespondIs

LEMMA OwnCancel ==
    ASSUME IInv, OpsInv, OwnInv, NEW v \in Views, NEW u \in Urls, NEW i \in 1..Len(handlers[u].ops),
           Cancels(v, u, i), SetFrame, receipt' = [receipt EXCEPT ![v] = NoReceipt],
           setting' = [view |-> v, at |-> "cache"]
    PROVE  OwnInv'
<1>0. Types /\ Bounds /\ UNCHANGED <<downloads, job>> /\ downloads \in Nat /\ downloads <= downloads'
  BY HaveTypes, InBounds DEF SetFrame, Bounds
<1>1. \A w \in Views : Held(w)' => receipt'[w] = receipt[w] /\ receipt[w].id \in Nat
  BY <1>0, HeldIds DEF Held, Types
<1>2. setting' # Idle => receipt'[setting'.view] = NoReceipt
  BY <1>0 DEF Types
<1>3. ASSUME NEW w \in Urls, NEW k \in 1..Len(handlers'[w].ops)
      PROVE  /\ handlers'[w].request = handlers[w].request
             /\ \E j \in 1..Len(handlers[w].ops) : handlers'[w].ops[k] = handlers[w].ops[j]
  <2>1. CASE w # u
    BY <2>1, CancelLeaves
  <2>2. CASE w = u
    <3>1. \E j \in 1..Len(handlers[u].ops) : handlers'[u].ops[k] = handlers[u].ops[j]
      BY <2>2, CancelLeaves
    <3>2. \/ handlers' = [handlers EXCEPT ![u] = NoHandler]
          \/ handlers' = [handlers EXCEPT ![u] = [request |-> handlers[u].request, ops |-> RemoveAt(handlers[u].ops, i)]]
      BY DEF Cancels
    <3>3. CASE handlers' = [handlers EXCEPT ![u] = NoHandler]
      <4>1. Len(handlers'[u].ops) = 0
        BY <1>0, <3>3 DEF Types, NoHandler
      <4> QED
        BY <2>2, <4>1
    <3>4. CASE handlers' = [handlers EXCEPT ![u] = [request |-> handlers[u].request, ops |-> RemoveAt(handlers[u].ops, i)]]
      <4>1. handlers'[u].request = handlers[u].request
        BY <1>0, <3>4 DEF Types
      <4> QED
        BY <2>2, <3>1, <4>1
    <3> QED
      BY <3>2, <3>3, <3>4
  <2> QED
    BY <2>1, <2>2
<1>4. ASSUME NEW k \in 1..Len(main') PROVE InWork(main'[k])
  <2> DEFINE op == handlers[u].ops[i]
             c == Completion(op, u, FALSE)
  <2>1. main' = Append(main, c)
    BY DEF Cancels
  <2>2. InWork(op)
    BY WorkIs
  <2> HIDE DEF op
  <2>3. InWork(c)
    BY <2>2 DEF InWork, Completion
  <2> HIDE DEF c
  <2>4. main'[k] = c \/ (k \in 1..Len(main) /\ main'[k] = main[k])
    <3>1. main \in Seq(Completions)
      BY <1>0 DEF Types
    <3> QED
      BY <2>1, <3>1
  <2> QED
    BY <2>3, <2>4, WorkIs
<1>5. \A r \in Downloads : \A k \in 1..Len(job'[r].ops) : InWork(job'[r].ops[k])
  BY <1>0, WorkIs
<1> QED
  BY <1>0, <1>1, <1>2, <1>3, <1>4, <1>5, OwnKept

LEMMA OwnStep ==
    IInv /\ FreshInv /\ RequestInv /\ OpsInv /\ OwnInv /\ [Next]_vars => OwnInv'
<1> SUFFICES ASSUME IInv, FreshInv, RequestInv, OpsInv, OwnInv, [Next]_vars PROVE OwnInv'
  OBVIOUS
<1>0. Types /\ Bounds /\ downloads \in Nat
  BY HaveTypes, InBounds DEF Bounds
<1>1. ASSUME \A r \in Downloads : job'[r].ops = job[r].ops, UNCHANGED <<handlers, downloads>>,
             \A i \in 1..Len(main') : InWork(main'[i]) \/ main'[i].id = downloads + 1,
             \A v \in Views : Held(v)' => receipt'[v] = receipt[v],
             setting' # Idle => receipt'[setting'.view] = NoReceipt
      PROVE  OwnInv'
  <2>1. downloads' \in Nat /\ downloads <= downloads'
    BY <1>0, <1>1
  <2>2. \A v \in Views : Held(v)' => receipt'[v] = receipt[v] /\ receipt[v].id \in Nat
    BY <1>1, HeldIds DEF Held
  <2>3. \A r \in Downloads : \A i \in 1..Len(job'[r].ops) : InWork(job'[r].ops[i])
    BY <1>1, WorkIs
  <2> QED
    BY <1>0, <1>1, <2>1, <2>2, <2>3, OwnKept
<1>2. CASE Quiet
  BY <1>1, <1>2, WorkIs DEF Quiet, Work, OwnInv
<1>3. ASSUME NEW v \in Cells \cup (1..opened), NEW r \in Rows, MayLoad /\ SetImage(v, r) /\ SetFrame
      PROVE  OwnInv'
  <2>1. v \in Views
    BY <1>0 DEF Bounds
  <2>2. CASE UNCHANGED <<receipt, setting, handlers, main>>
    BY <1>1, <1>3, <2>2, WorkIs DEF SetFrame, MayLoad, MainFree
  <2>3. CASE CancelRequest(v) /\ receipt' = [receipt EXCEPT ![v] = NoReceipt]
             /\ setting' = [view |-> v, at |-> "cache"]
    <3>1. CASE UNCHANGED <<main, handlers, state>>
      <4>1. \A w \in Views : Held(w)' => receipt'[w] = receipt[w]
        BY <1>0, <2>3 DEF Types, Held
      <4>2. receipt'[setting'.view] = NoReceipt
        BY <1>0, <2>1, <2>3 DEF Types
      <4> QED
        BY <1>1, <1>3, <3>1, <4>1, <4>2, WorkIs DEF SetFrame
    <3>2. CASE \E u \in Urls : \E i \in 1..Len(handlers[u].ops) : Cancels(v, u, i)
      BY <1>3, <2>1, <2>3, <3>2, OwnCancel
    <3> QED
      BY <2>1, <2>3, <3>1, <3>2, CancelIs
  <2> QED
    BY <1>3, <2>1, <2>2, <2>3, SetImageIs
<1>4. ASSUME NEW r \in Downloads, Answer(r) PROVE OwnInv'
  <2>1. PICK ok \in BOOLEAN : job[r] = NoJob /\ job' = [job EXCEPT ![r] = [at |-> "fetch", ok |-> ok, ops |-> <<>>]]
    BY <1>4 DEF Answer
  <2>2. \A s \in Downloads : job'[s].ops = job[s].ops
    BY <1>0, <2>1 DEF Types, NoJob
  <2>3. UNCHANGED <<handlers, main, downloads, receipt, setting>>
    BY <1>4 DEF Answer, downloader, views
  <2> QED
    BY <1>1, <2>2, <2>3, WorkIs DEF OwnInv
<1>5. CASE Complete
  <2>1. /\ main \in Seq(Completions) /\ main # <<>> /\ main' = Tail(main) /\ setting = Idle
        /\ UNCHANGED <<handlers, job, downloads, setting>>
        /\ receipt' = receipt \/ receipt' = [receipt EXCEPT ![Head(main).view] = NoReceipt]
    BY <1>0, <1>5 DEF Complete, MainFree, downloader, Types
  <2>2. \A i \in 1..Len(main') : i + 1 \in 1..Len(main) /\ main'[i] = main[i + 1]
    BY <2>1
  <2>3. \A v \in Views : Held(v)' => receipt'[v] = receipt[v]
    BY <1>0, <2>1 DEF Types, Held
  <2> QED
    BY <1>1, <2>1, <2>2, <2>3, WorkIs
<1>6. CASE Download
  <2>1. PICK v \in Views, d \in Downloads, u \in Urls : Downloading(v, d, u)
    BY <1>6, DownloadIs
  <2>2. CASE Join(v, d, u) \/ MakeRequest(v, d, u)
    BY <2>1, <2>2, OwnMade
  <2>3. CASE TakeCached(v, d, u)
    <3>1. /\ d = downloads + 1 /\ downloads' = d /\ UNCHANGED <<job, handlers, receipt>> /\ setting' = Idle
          /\ main' = Append(main, Completion([id |-> d, view |-> v], u, TRUE))
          /\ main \in Seq(Completions)
      BY <1>0, <2>1, <2>3 DEF Downloading, TakeCached, Types
    <3> DEFINE c == Completion([id |-> d, view |-> v], u, TRUE)
    <3>2. c.id = d /\ main' = Append(main, c)
      BY <3>1 DEF Completion
    <3> HIDE DEF c
    <3>3. ASSUME NEW i \in 1..Len(main') PROVE InWork(main'[i]) \/ main'[i].id = downloads + 1
      <4>0. main \in Seq(Completions) /\ main' = Append(main, c)
        BY <3>1, <3>2
      <4>1. main'[i] = c \/ (i \in 1..Len(main) /\ main'[i] = main[i])
        BY <4>0
      <4> QED
        BY <3>1, <3>2, <4>1, WorkIs
    <3>4. downloads' \in Nat /\ downloads <= downloads'
      BY <1>0, <3>1
    <3>5. \A w \in Views : Held(w)' => receipt'[w] = receipt[w] /\ receipt[w].id \in Nat
      BY <3>1, HeldIds DEF Held
    <3>6. \A r \in Downloads : \A i \in 1..Len(job'[r].ops) : InWork(job'[r].ops[i])
      BY <3>1, WorkIs
    <3> QED
      BY <1>0, <3>1, <3>3, <3>4, <3>5, <3>6, OwnKept
  <2> QED
    BY <2>1, <2>2, <2>3 DEF Downloading
<1> QED
  BY <1>2, <1>3, <1>4, <1>5, <1>6, OwnRespond, Kinds

-------------------------------------------------------------------------------
(* No cell waits in vain. *)

LEMMA HeldIs ==
    ASSUME IInv, NEW v \in Views, Held(v)
    PROVE  /\ receipt[v] \in [id : Downloads, request : Downloads]
           /\ receipt[v].id \in Downloads /\ receipt[v].request \in Downloads
           /\ receipt[v].request <= downloads
           /\ row[v] \in Rows /\ url[receipt[v].request] = Picture[row[v]] /\ Picture[row[v]] \in Urls
<1>1. receipt[v] \in [id : Downloads, request : Downloads]
  BY HaveTypes DEF Types, Held
<1>2. /\ receipt[v].request <= downloads
      /\ row[v] \in Rows /\ url[receipt[v].request] = Picture[row[v]]
  BY DEF IInv, ReceiptInv, Held
<1> QED
  BY <1>1, <1>2, PictureAssumption

(* A cell that a step does not touch, if what is under way stays so.       *)
LEMMA CellKept ==
    ASSUME NEW c \in Cells, CellOk(c),
           row'[c] = row[c], receipt'[c] = receipt[c], image'[c] = image[c],
           stolen \subseteq stolen', c \in excused => c \in excused',
           Held(c) /\ InFlight(c) => InFlight(c)' \/ Picture[row[c]] \in stolen',
           setting' = Idle \/ setting'.view # c => setting = Idle \/ setting.view # c
    PROVE  CellOk(c)'
<1>1. Held(c)' <=> Held(c)
  BY DEF Held
<1>2. CASE Picture[row[c]] \in stolen
  BY <1>2 DEF CellOk
<1>3. CASE ~Held(c) /\ (image[c] = Picture[row[c]] \/ c \in excused)
  BY <1>1, <1>3 DEF CellOk
<1>4. CASE Held(c) /\ InFlight(c)
  BY <1>1, <1>4 DEF CellOk
<1>5. CASE ~((row[c] # Nothing \/ Held(c)) /\ (setting = Idle \/ setting.view # c))
  BY <1>1, <1>5 DEF CellOk
<1> QED
  BY <1>2, <1>3, <1>4, <1>5 DEF CellOk

(* It does while operations stay or more are added.                        *)
LEMMA FlightKept ==
    ASSUME NEW c, InFlight(c), receipt'[c] = receipt[c], tasks \subseteq tasks',
           url'[receipt[c].request] = url[receipt[c].request],
           receipt[c].id \in Ids(handlers[url[receipt[c].request]].ops)
              => receipt[c].id \in Ids(handlers'[url[receipt[c].request]].ops),
           receipt[c].id \in Ids(job[receipt[c].request].ops)
              => receipt[c].id \in Ids(job'[receipt[c].request].ops),
           \A i \in 1..Len(main) : i \in 1..Len(main') /\ main'[i] = main[i]
    PROVE  InFlight(c)'
BY DEF InFlight

LEMMA CellRespond ==
    ASSUME IInv, FreshInv, RequestInv, OwnInv, CellInv, NEW r \in Downloads, Respond(r), NEW c \in Cells
    PROVE  CellOk(c)'
<1>0. /\ Types /\ Bounds /\ RespondFrame /\ url[r] \in Urls /\ c \in Views
      /\ \A u \in Urls : handlers[u].ops \in Seq(Operations)
  BY HaveTypes, InBounds, RespondIs, OpsTypes DEF Bounds
<1>1. UNCHANGED <<row, receipt, image, setting, excused, url, tasks>>
  BY <1>0 DEF RespondFrame
<1>2. CellOk(c)
  BY DEF CellInv
<1> DEFINE d == receipt[c].id
           q == receipt[c].request
<1>3. ASSUME stolen \subseteq stolen', Held(c) /\ InFlight(c) => InFlight(c)' \/ Picture[row[c]] \in stolen'
      PROVE  CellOk(c)'
  BY <1>1, <1>2, <1>3, CellKept
<1>4. ASSUME NEW from, NEW to, Moves(r, from, to, job[r].ops), UNCHANGED <<handlers, main, stolen>>
      PROVE  CellOk(c)'
  <2>1. ASSUME Held(c), InFlight(c) PROVE InFlight(c)'
    <3>1. q \in Downloads
      BY <1>0, <2>1, HeldIs
    <3>2. job'[q].ops = job[q].ops
      BY <1>0, <1>4, <3>1, MovesIs
    <3> QED
      BY <1>1, <1>4, <2>1, <3>2, FlightKept
  <2> QED
    BY <1>3, <1>4, <2>1
<1>5. CASE Fetching(r)
  BY <1>4, <1>5 DEF Fetching
<1>6. CASE FindingNone(r) \/ Decrementing(r) \/ StartingNone(r) \/ StartingNext(r)
  BY <1>4, <1>6 DEF FindingNone, Decrementing, StartingNone, StartingNext
<1>7. CASE Taking(r)
  <2> DEFINE u == url[r]
  <2>1. /\ job[r].at = "remove" /\ job'[r].ops = handlers[u].ops
        /\ \A s \in Downloads : s # r => job'[s] = job[s]
    BY <1>0, <1>7, MovesIs DEF Taking
  <2>2. job[r].ops = <<>>
    BY <2>1 DEF FreshInv
  <2>3. /\ main' = main /\ stolen \subseteq stolen' /\ handlers[u] # NoHandler
        /\ handlers[u].request # r => u \in stolen'
        /\ \A w \in Urls : w # u => handlers'[w] = handlers[w]
    BY <1>0, <1>7 DEF Taking, Types
  <2>4. ASSUME Held(c), InFlight(c) PROVE InFlight(c)' \/ Picture[row[c]] \in stolen'
    <3>1. q \in Downloads /\ url[q] = Picture[row[c]] /\ url[q] \in Urls
      BY <1>0, <2>4, HeldIs
    <3>2. ASSUME d \in Ids(job[q].ops) PROVE d \in Ids(job'[q].ops)
      BY <2>1, <2>2, <3>1, <3>2, IdsEmpty
    <3>3. CASE url[q] # u
      BY <1>1, <2>3, <2>4, <3>1, <3>2, <3>3, FlightKept
    <3>4. CASE url[q] = u /\ d \notin Ids(handlers[u].ops)
      BY <1>1, <2>3, <2>4, <3>1, <3>2, <3>4, FlightKept
    <3>5. CASE url[q] = u /\ d \in Ids(handlers[u].ops)
      <4>1. CASE handlers[u].request # r
        BY <2>3, <3>1, <3>5, <4>1
      <4>2. CASE handlers[u].request = r
        <5>1. q = r
          <6>1. PICK i \in 1..Len(handlers[u].ops) : handlers[u].ops[i].id = d
            BY <3>5 DEF Ids
          <6> QED
            BY <1>0, <2>4, <4>2, <6>1 DEF OwnInv
        <5>2. r \in tasks
          BY <1>0, <2>1, <2>3, <4>2 DEF RequestInv
        <5>3. d \in Ids(job'[q].ops)
          BY <2>1, <3>5, <5>1
        <5> QED
          BY <1>1, <5>1, <5>2, <5>3 DEF InFlight
      <4> QED
        BY <4>1, <4>2
    <3> QED
      BY <3>3, <3>4, <3>5
  <2> QED
    BY <1>3, <2>3, <2>4
<1>8. CASE Serving(r)
  <2> DEFINE ops == job[r].ops
             done == [i \in 1..Len(ops) |-> Completion(ops[i], url[r], job[r].ok)]
  <2>1. /\ job'[r].ops = <<>> /\ \A s \in Downloads : s # r => job'[s] = job[s]
    BY <1>0, <1>8, MovesIs DEF Serving
  <2>2. handlers' = handlers /\ main' = main \o done /\ stolen' = stolen
    BY <1>8 DEF Serving
  <2>3. ops \in Seq(Operations) /\ main \in Seq(Completions)
    BY <1>0 DEF Types
  <2> HIDE DEF ops
  <2>4. ASSUME NEW op, NEW w, NEW ok PROVE Completion(op, w, ok).id = op.id /\ Completion(op, w, ok).url = w
    BY DEF Completion
  <2>5. /\ done \in Seq({done[i] : i \in 1..Len(ops)}) /\ Len(ops) \in Nat /\ Len(done) = Len(ops)
        /\ \A i \in 1..Len(ops) : done[i] = Completion(ops[i], url[r], job[r].ok)
    BY <2>3
  <2>6. ASSUME NEW i \in 1..Len(ops) PROVE done[i].id = ops[i].id /\ done[i].url = url[r]
    <3>1. done[i] = Completion(ops[i], url[r], job[r].ok)
      BY <2>5
    <3>2. Completion(ops[i], url[r], job[r].ok).id = ops[i].id /\ Completion(ops[i], url[r], job[r].ok).url = url[r]
      BY <2>4
    <3> HIDE DEF done
    <3> QED
      BY <3>1, <3>2
  <2> HIDE DEF done
  <2>a. PICK D : done \in Seq(D) /\ Len(done) = Len(ops)
    BY <2>5
  <2>7. /\ \A i \in 1..Len(main) : i \in 1..Len(main') /\ main'[i] = main[i]
        /\ \A i \in 1..Len(ops) : i + Len(main) \in 1..Len(main') /\ main'[i + Len(main)] = done[i]
    BY <2>2, <2>3, <2>a
  <2>8. ASSUME Held(c), InFlight(c) PROVE InFlight(c)'
    <3>1. q \in Downloads
      BY <1>0, <2>8, HeldIs
    <3>2. CASE q # r \/ d \notin Ids(job[q].ops)
      BY <1>1, <2>1, <2>2, <2>7, <2>8, <3>1, <3>2, FlightKept
    <3>3. CASE q = r /\ d \in Ids(job[q].ops)
      <4>1. PICK i \in 1..Len(ops) : ops[i].id = d
        BY <3>3 DEF Ids, ops
      <4>2. i + Len(main) \in 1..Len(main') /\ main'[i + Len(main)].id = d /\ main'[i + Len(main)].url = url[q]
        BY <2>6, <2>7, <3>3, <4>1
      <4>3. CASE r \in tasks
        BY <1>1, <3>3, <4>2, <4>3 DEF InFlight
      <4>4. CASE r \notin tasks
        BY <1>1, <2>2, <2>8, <3>3, <4>4 DEF InFlight
      <4> QED
        BY <4>3, <4>4
    <3> QED
      BY <3>2, <3>3
  <2> QED
    BY <1>3, <2>2, <2>8
<1> QED
  BY <1>5, <1>6, <1>7, <1>8, RespondIs

LEMMA CellDownload ==
    ASSUME IInv, FreshInv, OwnInv, CellInv, Download, NEW c \in Cells
    PROVE  CellOk(c)'
<1>0. /\ Types /\ Bounds /\ c \in Views
      /\ \A u \in Urls : handlers[u].ops \in Seq(Operations)
  BY HaveTypes, InBounds, OpsTypes DEF Bounds
<1>1. PICK v \in Views, d \in Downloads, u \in Urls : Downloading(v, d, u)
  BY DownloadIs
<1>2. /\ setting.view = v /\ setting # Idle /\ d = downloads + 1 /\ u = Picture[row[v]]
      /\ UNCHANGED <<row, image, tasks, job, stolen>> /\ setting' = Idle /\ row[v] \in Rows
      /\ receipt[v] = NoReceipt
  BY <1>1 DEF Downloading, Idle, OwnInv
<1>3. CellOk(c)
  BY DEF CellInv
<1>4. CASE TakeCached(v, d, u)
  <2> DEFINE e == Completion([id |-> d, view |-> v], u, TRUE)
  <2>1. /\ UNCHANGED <<receipt, url, handlers>> /\ excused' = excused \cup {v}
        /\ main' = Append(main, e)
    BY <1>4 DEF TakeCached
  <2> HIDE DEF e
  <2>2. CASE c = v
    BY <1>2, <2>1, <2>2 DEF CellOk, Held
  <2>3. CASE c # v
    <3>1. \A i \in 1..Len(main) : i \in 1..Len(main') /\ main'[i] = main[i]
      <4>1. main \in Seq(Completions)
        BY <1>0 DEF Types
      <4> QED
        BY <2>1, <4>1
    <3>2. Held(c) /\ InFlight(c) => InFlight(c)'
      BY <1>2, <2>1, <3>1, FlightKept
    <3> QED
      BY <1>2, <1>3, <2>1, <2>3, <3>2, CellKept
  <2> QED
    BY <2>2, <2>3
<1>5. CASE Join(v, d, u) \/ MakeRequest(v, d, u)
  <2> DEFINE op == [id |-> d, view |-> v]
  <2>1. op \in Operations /\ op.id = d
    BY <1>5, JoinIs
  <2> HIDE DEF op
  <2>2. /\ handlers'[u].ops = Append(handlers[u].ops, op)
        /\ \A w \in Urls : w # u => handlers'[w] = handlers[w]
        /\ main' = main
        /\ receipt' = [receipt EXCEPT ![v] = [id |-> d, request |-> handlers'[u].request]]
        /\ handlers[u] # NoHandler => handlers'[u].request = handlers[u].request
        /\ handlers[u] = NoHandler => handlers'[u].request = d
    BY <1>5, JoinIs DEF op
  <2>3. excused' = excused
    BY <1>5 DEF Join, MakeRequest
  <2>4. url' = url \/ url' = [url EXCEPT ![d] = u]
    BY <1>5 DEF Join, MakeRequest
  <2>5. url'[handlers'[u].request] = u
    <3>1. CASE Join(v, d, u)
      <4>1. handlers[u] # NoHandler /\ url' = url
        BY <3>1 DEF Join
      <4>2. url[handlers[u].request] = u
        BY <4>1, HandlerThere
      <4> QED
        BY <2>2, <4>1, <4>2
    <3>2. CASE MakeRequest(v, d, u)
      <4>1. handlers[u] = NoHandler /\ url' = [url EXCEPT ![d] = u]
        BY <3>2 DEF MakeRequest
      <4>2. handlers'[u].request = d
        BY <2>2, <4>1
      <4> QED
        BY <1>0, <4>1, <4>2 DEF Types
    <3> QED
      BY <1>5, <3>1, <3>2
  <2>6. Ids(handlers'[u].ops) = Ids(handlers[u].ops) \cup {d}
    <3>1. handlers[u].ops \in Seq(Operations)
      BY <1>0
    <3> QED
      BY <2>1, <2>2, <3>1, IdsAppend
  <2>7. CASE c = v
    <3>1. receipt'[c] = [id |-> d, request |-> handlers'[u].request]
      BY <1>0, <2>2, <2>7 DEF Types
    <3>2. receipt'[c].id = d /\ receipt'[c].request = handlers'[u].request
      BY <3>1
    <3>3. receipt'[c] # NoReceipt
      BY <1>0, <3>2 DEF NoReceipt, Bounds
    <3>4. InFlight(c)'
      BY <2>5, <2>6, <3>2 DEF InFlight
    <3> QED
      BY <3>3, <3>4 DEF CellOk, Held
  <2>8. CASE c # v
    <3>1. receipt'[c] = receipt[c]
      BY <1>0, <2>2, <2>8 DEF Types
    <3>2. ASSUME Held(c), InFlight(c) PROVE InFlight(c)'
      <4> DEFINE q == receipt[c].request
      <4>1. q \in Downloads /\ url[q] \in Urls /\ q # d
        BY <1>0, <1>2, <3>2, HeldIs, NextIsFresh
      <4>2. url'[q] = url[q]
        BY <1>0, <2>4, <4>1 DEF Types
      <4>3. receipt[c].id \in Ids(handlers[url[q]].ops) => receipt[c].id \in Ids(handlers'[url[q]].ops)
        BY <2>2, <2>6, <4>1
      <4> HIDE DEF q
      <4> QED
        BY <1>2, <2>2, <3>1, <3>2, <4>2, <4>3, FlightKept DEF q
    <3> QED
      BY <1>2, <1>3, <2>3, <2>8, <3>1, <3>2, CellKept
  <2> QED
    BY <2>7, <2>8
<1> QED
  BY <1>1, <1>4, <1>5 DEF Downloading

(* A completion that was in flight finds its view waiting.                 *)
LEMMA CellComplete ==
    ASSUME IInv, OpsInv, OwnInv, CellInv, Complete, NEW c \in Cells
    PROVE  CellOk(c)'
<1>0. /\ Types /\ c \in Views /\ c \in alive
  BY HaveTypes DEF IInv, ScreenInv, Views
<1> DEFINE e == Head(main)
<1>1. /\ setting = Idle /\ main # <<>> /\ main \in Seq(Completions) /\ main' = Tail(main) /\ Single(main)
      /\ UNCHANGED <<row, setting, url, tasks, handlers, job, stolen>>
  BY <1>0 DEF Complete, MainFree, Types, OpsInv, downloader, requests
<1>2. IF StillWaits(e)
      THEN /\ image' = IF e.ok THEN [image EXCEPT ![e.view] = e.url] ELSE image
           /\ receipt' = [receipt EXCEPT ![e.view] = NoReceipt]
           /\ excused' = IF e.ok THEN excused ELSE excused \cup {e.view}
      ELSE UNCHANGED <<image, receipt, excused>>
  BY DEF Complete
<1>3. e = main[1] /\ 1 \in 1..Len(main) /\ e \in Completions
      /\ \A i \in 1..Len(main) : i # 1 => i - 1 \in 1..Len(main') /\ main'[i - 1] = main[i]
  <2>1. e \in Completions
    BY <1>1
  <2> QED
    BY <1>1, <2>1, IdsTail
<1>4. e.url \in Urls /\ e.view \in Views
  BY <1>3 DEF Completions
<1> HIDE DEF e
<1>5. CellOk(c)
  BY DEF CellInv
<1>6. CASE StillWaits(e) /\ e.view = c
  <2>1. Held(c) /\ url[receipt[c].request] = e.url
    BY <1>4, <1>6, PictureAssumption DEF StillWaits, ActiveUrl, Held, Nothing
  <2>2. e.url = Picture[row[c]]
    BY <1>0, <2>1, HeldIs
  <2>3. receipt'[c] = NoReceipt
    BY <1>0, <1>2, <1>6 DEF Types
  <2>4. CASE e.ok
    <3>1. image'[c] = Picture[row[c]]
      BY <1>0, <1>2, <1>6, <2>2, <2>4 DEF IInv, ScreenInv
    <3> QED
      BY <1>1, <2>3, <3>1 DEF CellOk, Held
  <2>5. CASE ~e.ok
    <3>1. c \in excused'
      BY <1>2, <1>6, <2>5
    <3> QED
      BY <1>1, <2>3, <3>1 DEF CellOk, Held
  <2> QED
    BY <2>4, <2>5
<1>7. CASE ~(StillWaits(e) /\ e.view = c)
  <2>1. receipt'[c] = receipt[c] /\ image'[c] = image[c] /\ (c \in excused => c \in excused')
    BY <1>0, <1>2, <1>7 DEF Types, IInv, ScreenInv
  <2>2. ASSUME Held(c), InFlight(c) PROVE InFlight(c)'
    <3> DEFINE d == receipt[c].id
               q == receipt[c].request
    <3>1. url[q] \in Urls
      BY <1>0, <2>2, HeldIs
    <3>2. ASSUME q \in tasks, NEW i \in 1..Len(main), main[i].id = d, main[i].url = url[q]
          PROVE  \E k \in 1..Len(main') : main'[k].id = d /\ main'[k].url = url[q]
      <4>1. i # 1
        <5>1. SUFFICES ASSUME i = 1 PROVE FALSE
          OBVIOUS
        <5>2. e.id = d /\ e.url = url[q]
          BY <1>3, <3>2, <5>1
        <5>3. e.view = c
          BY <1>0, <1>3, <2>2, <5>2 DEF OwnInv
        <5>4. ActiveUrl(c) = url[q]
          BY <2>2, <3>2 DEF ActiveUrl, Held
        <5>5. StillWaits(e)
          BY <1>0, <5>2, <5>3, <5>4 DEF StillWaits
        <5> QED
          BY <1>7, <5>3, <5>5
      <4>2. i - 1 \in 1..Len(main') /\ main'[i - 1] = main[i]
        BY <1>3, <4>1
      <4> QED
        BY <3>2, <4>2
    <3> QED
      BY <1>1, <2>1, <2>2, <3>2 DEF InFlight
  <2> QED
    BY <1>1, <1>5, <2>1, <2>2, CellKept
<1> QED
  BY <1>6, <1>7

LEMMA CellSetImage ==
    ASSUME IInv, RequestInv, OpsInv, OwnInv, CellInv, NEW v \in Views, NEW r \in Rows,
           MayLoad, SetImage(v, r), SetFrame, NEW c \in Cells
    PROVE  CellOk(c)'
<1>0. /\ Types /\ c \in Views
  BY HaveTypes DEF Views
<1>1. setting = Idle /\ UNCHANGED <<url, tasks, job, stolen, image>>
  BY DEF MayLoad, MainFree, SetFrame
<1>2. row' = [row EXCEPT ![v] = r] /\ excused' = excused \ {v}
  BY SetImageIs
<1>3. row'[v] = r /\ (c # v => row'[c] = row[c])
  BY <1>0, <1>2 DEF Types
<1>4. CellOk(c)
  BY DEF CellInv
<1>5. CASE /\ Held(v) /\ url[receipt[v].request] = Picture[r]
           /\ UNCHANGED <<receipt, setting, main, handlers, state>>
  <2>1. InFlight(c)' <=> InFlight(c)
    BY <1>1, <1>5 DEF InFlight
  <2>2. Picture[row'[c]] = Picture[row[c]]
    BY <1>3, <1>5, HeldIs
  <2>3. Held(c)' <=> Held(c)
    BY <1>5 DEF Held
  <2>4. CASE c = v
    BY <1>1, <1>4, <1>5, <2>1, <2>2, <2>3, <2>4 DEF CellOk
  <2>5. CASE c # v
    BY <1>1, <1>2, <1>3, <1>4, <1>5, <2>1, <2>5, CellKept
  <2> QED
    BY <2>4, <2>5
<1>6. CASE /\ CancelRequest(v)
           /\ receipt' = [receipt EXCEPT ![v] = NoReceipt]
           /\ setting' = [view |-> v, at |-> "cache"]
  <2>1. receipt'[v] = NoReceipt /\ (c # v => receipt'[c] = receipt[c]) /\ setting'.view = v /\ setting' # Idle
    BY <1>0, <1>6 DEF Types, Idle
  <2>2. CASE c = v
    BY <2>1, <2>2 DEF CellOk
  <2>3. CASE c # v
    <3>1. ASSUME Held(c), InFlight(c) PROVE InFlight(c)'
      <4>1. CASE UNCHANGED <<main, handlers, state>>
        BY <1>1, <2>1, <2>3, <3>1, <4>1 DEF InFlight
      <4>2. ASSUME NEW u \in Urls, NEW i \in 1..Len(handlers[u].ops), Cancels(v, u, i)
            PROVE  InFlight(c)'
        <5>1. /\ Ids(handlers'[u].ops) = Ids(handlers[u].ops) \ {receipt[v].id}
              /\ \A w \in Urls : w # u => handlers'[w] = handlers[w]
          BY <4>2, CancelLeaves
        <5>2. receipt[c].id # receipt[v].id
          BY <1>0, <2>3, <3>1, <4>2 DEF Cancels, OwnInv
        <5>3. url[receipt[c].request] \in Urls
          BY <1>0, <3>1, HeldIs
        <5>4. \A k \in 1..Len(main) : k \in 1..Len(main') /\ main'[k] = main[k]
          <6> DEFINE e == Completion(handlers[u].ops[i], u, FALSE)
          <6>1. main' = Append(main, e) /\ main \in Seq(Completions)
            BY <1>0, <4>2 DEF Cancels, Types
          <6> HIDE DEF e
          <6> QED
            BY <6>1
        <5> QED
          BY <1>1, <2>1, <2>3, <3>1, <5>1, <5>2, <5>3, <5>4, FlightKept
      <4> QED
        BY <1>6, <4>1, <4>2, CancelIs
    <3> QED
      BY <1>1, <1>2, <1>3, <1>4, <2>1, <2>3, <3>1, CellKept
  <2> QED
    BY <2>2, <2>3
<1> QED
  BY <1>5, <1>6, SetImageIs

LEMMA CellStep ==
    IInv /\ FreshInv /\ RequestInv /\ OpsInv /\ OwnInv /\ CellInv /\ [Next]_vars => CellInv'
<1> SUFFICES ASSUME IInv, FreshInv, RequestInv, OpsInv, OwnInv, CellInv, [Next]_vars, NEW c \in Cells
             PROVE  CellOk(c)'
  BY DEF CellInv
<1>0. /\ Types /\ Bounds /\ c \in Views /\ CellOk(c) /\ Cells \cap Details = {}
      /\ image \in [Views -> Urls \cup {Nothing}]
  BY HaveTypes, InBounds, PictureAssumption DEF Bounds, CellInv, IInv, ScreenInv, Details
<1>1. ASSUME UNCHANGED <<receipt, image, excused, setting, url, handlers, main, stolen>>, row'[c] = row[c],
             tasks \subseteq tasks', \A r \in Downloads : job'[r].ops = job[r].ops
      PROVE  CellOk(c)'
  <2>1. ASSUME Held(c), InFlight(c) PROVE InFlight(c)'
    <3>1. receipt[c].request \in Downloads
      BY <1>0, <2>1, HeldIs
    <3> QED
      BY <1>1, <2>1, <3>1 DEF InFlight
  <2> QED
    BY <1>0, <1>1, <2>1, CellKept
<1>2. CASE LookUp
  <2> DEFINE v == setting.view
  <2>1. /\ setting \in [view : Cells \cup (1..opened), at : {"cache", "download"}]
        /\ setting # Idle /\ receipt[v] = NoReceipt /\ v \in Views /\ row[v] \in Rows
    BY <1>0, <1>2 DEF LookUp, IInv, SettingInv, Idle, OwnInv, Bounds
  <2>2. /\ UNCHANGED <<row, receipt, excused, url, handlers, main, stolen, tasks, job>>
        /\ \/ image' = [image EXCEPT ![v] = Picture[row[v]]] /\ setting' = Idle
           \/ image' = image /\ setting' = [setting EXCEPT !.at = "download"]
    BY <1>2 DEF LookUp, requests, downloader
  <2>3. CASE c = v
    <3>1. CASE image' = [image EXCEPT ![v] = Picture[row[v]]]
      <4>1. image'[c] = Picture[row'[c]] /\ receipt'[c] = NoReceipt
        BY <1>0, <2>1, <2>2, <2>3, <3>1
      <4> QED
        BY <4>1 DEF CellOk, Held
    <3>2. CASE setting' = [setting EXCEPT !.at = "download"]
      <4>1. setting' # Idle /\ setting'.view = c
        BY <2>1, <2>3, <3>2 DEF Idle
      <4> QED
        BY <4>1 DEF CellOk
    <3> QED
      BY <2>2, <3>1, <3>2
  <2>4. CASE c # v
    <3>1. image'[c] = image[c]
      BY <1>0, <2>2, <2>4
    <3>2. InFlight(c) => InFlight(c)'
      BY <2>2 DEF InFlight
    <3> QED
      BY <1>0, <2>2, <2>4, <3>1, <3>2, CellKept
  <2> QED
    BY <2>3, <2>4
<1>3. CASE Prepare
  <2>1. opened + 1 \in Details
    BY <1>0, <1>3 DEF Prepare, Bounds
  <2>2. row'[c] = row[c]
    BY <1>0, <1>3, <2>1 DEF Prepare, Types
  <2> QED
    BY <1>1, <1>3, <2>2 DEF Prepare, requests, downloader
<1>4. CASE InfoFails \/ Back \/ DidCreateTask \/ RemoveAllImages \/ UNCHANGED vars
  BY <1>1, <1>4 DEF InfoFails, Back, DidCreateTask, RemoveAllImages, vars, views, requests, downloader
<1>5. ASSUME NEW r \in Downloads, Answer(r) PROVE CellOk(c)'
  <2>1. PICK ok \in BOOLEAN : job[r] = NoJob /\ job' = [job EXCEPT ![r] = [at |-> "fetch", ok |-> ok, ops |-> <<>>]]
    BY <1>5 DEF Answer
  <2>2. \A s \in Downloads : job'[s].ops = job[s].ops
    BY <1>0, <2>1 DEF Types, NoJob
  <2> QED
    BY <1>1, <1>5, <2>2 DEF Answer, requests, downloader, views
<1>6. ASSUME NEW v \in Cells \cup (1..opened), NEW r \in Rows, MayLoad, SetImage(v, r), SetFrame
      PROVE  CellOk(c)'
  <2>1. v \in Views
    BY <1>0 DEF Bounds
  <2> QED
    BY <1>6, <2>1, CellSetImage
<1>7. CASE CellForItemAt
  BY <1>6, <1>7 DEF CellForItemAt, SetFrame
<1>8. CASE UpdateInfo
  BY <1>6, <1>8 DEF UpdateInfo, SetFrame, IInv, ScreenInv
<1>9. CASE Download \/ Complete \/ \E r \in Downloads : Respond(r)
  BY <1>9, CellDownload, CellComplete, CellRespond
<1> QED
  BY <1>2, <1>3, <1>4, <1>5, <1>7, <1>8, <1>9 DEF Next, User

-------------------------------------------------------------------------------
(* Together. *)

RestInv == cache \subseteq Urls /\ tasks \subseteq Downloads

WorkInv == FreshInv /\ RequestInv /\ SlotInv /\ OpsInv /\ OwnInv /\ CellInv /\ RestInv

LEMMA RestStep == IInv /\ RestInv /\ [Next]_vars => RestInv'
<1> SUFFICES ASSUME IInv, RestInv, [Next]_vars PROVE RestInv'
  OBVIOUS
<1>1. CASE UNCHANGED <<cache, tasks>>
  BY <1>1 DEF RestInv
<1>2. ASSUME NEW r \in Downloads, Respond(r) PROVE RestInv'
  <2>1. RespondFrame /\ url[r] \in Urls
    BY <1>2, RespondIs
  <2>2. cache' \in {cache, cache \cup {url[r]}}
    BY <1>2, RespondIs DEF Fetching, FindingNone, Taking, Serving, Decrementing, StartingNone, StartingNext
  <2> QED
    BY <2>1, <2>2 DEF RespondFrame, RestInv
<1>3. CASE DidCreateTask \/ RemoveAllImages
  BY <1>3 DEF DidCreateTask, RemoveAllImages, requests, RestInv
<1> QED
  BY <1>1, <1>2, <1>3
  DEF Next, User, LookUp, Download, Complete, CellForItemAt, Prepare, UpdateInfo, InfoFails, Back,
      Answer, requests, vars

LEMMA WorkInit == Init => WorkInv
<1> SUFFICES ASSUME Init PROVE WorkInv
  OBVIOUS
<1>0. Downloads = 1..MaxDownloads /\ MaxDownloads \in Nat
  BY PictureAssumption DEF Downloads
<1>1. FreshInv /\ RequestInv
  BY DEF Init, FreshInv, RequestInv, Pending, NoJob
<1>2. SlotInv
  <2>1. Made = {} /\ Freed = {} /\ queued = <<>> /\ active = 0
    BY DEF Init, Made, Freed, NoJob
  <2>2. Cardinality({}) = 0
    BY FS_EmptySet
  <2>3. \A r \in Downloads : state[r] = "none"
    BY DEF Init
  <2> QED
    BY <2>1, <2>2, <2>3 DEF SlotInv
<1>3. OpsInv
  <2>1. /\ \A u \in Urls : handlers[u].ops = <<>>
        /\ \A r \in Downloads : job[r].ops = <<>>
        /\ main = <<>> /\ downloads = 0 /\ completed = [d \in Downloads |-> 0]
    BY DEF Init, NoHandler, NoJob
  <2>2. /\ \A u \in Urls : InHandlers[u] = {}
        /\ \A r \in Downloads : InJobs[r] = {}
        /\ Ids(main) = {}
    BY <2>1, IdsEmpty DEF InHandlers, InJobs
  <2>3. completed \in [Downloads -> 0..1] /\ \A d \in Downloads : completed[d] = 0 /\ d > downloads
    BY <1>0, <2>1
  <2>4. Apart(InHandlers, InJobs, Ids(main), downloads, completed)
    BY <2>2, <2>3 DEF Apart
  <2> QED
    BY <2>1, <2>4, IdsEmpty DEF OpsInv
<1>4. OwnInv
  BY DEF Init, OwnInv, Held
<1>5. CellInv
  BY DEF Init, CellInv, CellOk, Held, Views
<1>6. RestInv
  BY DEF Init, RestInv
<1> QED
  BY <1>1, <1>2, <1>3, <1>4, <1>5, <1>6 DEF WorkInv

(* Both invariants hold in every reachable state, for any bounds.          *)
THEOREM WorkInvariant == Spec => [](IInv /\ WorkInv)
<1>1. IInv /\ WorkInv /\ [Next]_vars => (IInv /\ WorkInv)'
  <2> SUFFICES ASSUME IInv, WorkInv, [Next]_vars PROVE (IInv /\ WorkInv)'
    OBVIOUS
  <2>1. IInv'
    BY ScreenStep, SettingStep, ReceiptStep, HandlerStep, JobStep DEF IInv
  <2>2. FreshInv /\ RequestInv /\ SlotInv /\ OpsInv /\ OwnInv /\ CellInv /\ RestInv
    BY DEF WorkInv
  <2>3. FreshInv' /\ RequestInv' /\ SlotInv' /\ OpsInv' /\ OwnInv' /\ CellInv' /\ RestInv'
    BY <2>2, FreshStep, RequestStep, SlotStep, OpsStep, OwnStep, CellStep, RestStep
  <2> QED
    BY <2>1, <2>3 DEF WorkInv
<1> QED
  BY InitInv, WorkInit, <1>1, PTL DEF Spec

-------------------------------------------------------------------------------
(* What follows when all was handled. *)

LEMMA InvTypes == IInv /\ WorkInv => TypeOK
<1> SUFFICES ASSUME IInv, WorkInv PROVE TypeOK
  OBVIOUS
<1>0. Types /\ Bounds /\ ScreenInv /\ SettingInv /\ SlotInv /\ RestInv /\ OpsInv
  BY HaveTypes, InBounds DEF IInv, WorkInv
<1>1. /\ row \in [Views -> Rows \cup {Nothing}] /\ alive \subseteq Views
      /\ image \in [Views -> Urls \cup {Nothing}]
      /\ screen \in 0..MaxDetails /\ opened \in 0..MaxDetails /\ asking \subseteq Details
      /\ downloads \in 0..MaxDownloads
  BY <1>0 DEF ScreenInv, Bounds
<1>2. setting \in [view : Views, at : {"cache", "download"}] \cup {Idle}
  BY <1>0 DEF SettingInv, Bounds
<1>3. active \in Int /\ queued \in Seq(Downloads)
  BY <1>0, SlotNumbers DEF SlotInv
<1>4. completed \in [Downloads -> 0..1]
  BY <1>0 DEF OpsInv, Apart
<1> QED
  BY <1>0, <1>1, <1>2, <1>3, <1>4 DEF TypeOK, Types, RestInv, States, Stages, Completions

LEMMA OneRequest == RequestInv => OneRequestPerUrl
BY DEF RequestInv, OneRequestPerUrl

(* Nothing is anywhere: the requests that were not handled wait in the     *)
(* queue, and while they do no more slots are taken than MaxActive.        *)
LEMMA Handled ==
    ASSUME IInv, WorkInv, AllHandled
    PROVE  /\ active = 0 /\ queued = <<>>
           /\ \A u \in Urls : handlers[u] = NoHandler
           /\ \A r \in Downloads : job[r].ops = <<>>
<1>0. /\ Types /\ Bounds /\ FreshInv /\ RequestInv /\ SlotInv /\ queued \in Seq(Downloads)
  BY HaveTypes, InBounds DEF WorkInv, SlotInv
<1>1. ASSUME NEW r \in Downloads
      PROVE  /\ state[r] \in {"none", "initialized"} <=> job[r] = NoJob
             /\ state[r] \in {"resumed", "cancelled"} <=> job[r].at = "done"
             /\ job[r].ops = <<>> /\ job[r].at # "next"
  <2>1. state[r] \in {"resumed", "cancelled"} => job[r].at = "done"
    BY DEF AllHandled, Stage
  <2>2. job[r] = NoJob \/ (job[r].at # "none" /\ state[r] \in {"resumed", "cancelled"})
    BY <1>0 DEF FreshInv
  <2>3. state[r] \in States
    BY <1>0 DEF Types
  <2>4. job[r].at # "serve" => job[r].ops = <<>>
    BY <1>0 DEF FreshInv
  <2> QED
    BY <2>1, <2>2, <2>3, <2>4 DEF NoJob, States
<1> DEFINE Waiting == {r \in Downloads : state[r] = "initialized"}
<1>2. /\ Made = Waiting \cup Freed /\ Waiting \cap Freed = {} /\ Starting = {}
  BY <1>0, <1>1 DEF Made, Freed, Starting, Types, States, NoJob
<1>3. IsFiniteSet(Waiting) /\ IsFiniteSet(Freed)
  <2>1. IsFiniteSet(Downloads)
    BY PictureAssumption, FS_Interval DEF Downloads
  <2>2. Waiting \in SUBSET Downloads /\ Freed \in SUBSET Downloads
    BY DEF Freed
  <2> HIDE DEF Waiting
  <2> QED
    BY <2>1, <2>2, FS_Subset
<1>4. Cardinality(Waiting) <= Len(queued)
  <2> DEFINE T == 1..Len(queued)
             f == [r \in Waiting |-> CHOOSE i \in T : queued[i] = r]
  <2>1. \A r \in Waiting : \E i \in T : queued[i] = r
    BY <1>0 DEF SlotInv
  <2>2. \A r \in Waiting : f[r] \in T /\ queued[f[r]] = r
    BY <2>1
  <2>3. f \in Injection(Waiting, T)
    <3>1. f \in [Waiting -> T]
      BY <2>2
    <3>2. \A r, s \in Waiting : f[r] = f[s] => r = s
      BY <2>2
    <3> HIDE DEF f, T, Waiting
    <3> QED
      BY <3>1, <3>2 DEF Injection, IsInjective
  <2>4. IsFiniteSet(T) /\ Cardinality(T) = Len(queued)
    <3>1. Len(queued) \in Nat
      BY <1>0
    <3> QED
      BY <3>1, FS_Interval
  <2> HIDE DEF f, T, Waiting
  <2> QED
    BY <2>3, <2>4, FS_Injection
<1>5. Cardinality(Made) = Cardinality(Waiting) + Cardinality(Freed)
  <2>1. Cardinality(Waiting \cup Freed) = Cardinality(Waiting) + Cardinality(Freed) - Cardinality({})
    <3> HIDE DEF Waiting
    <3> QED
      BY <1>2, <1>3, FS_Union
  <2>2. Cardinality({}) = 0 /\ Cardinality(Waiting) \in Nat /\ Cardinality(Freed) \in Nat
    <3> HIDE DEF Waiting
    <3> QED
      BY <1>3, FS_EmptySet, FS_CardinalityType
  <2> QED
    BY <1>2, <2>1, <2>2
<1>6. /\ Cardinality(Waiting) \in Nat /\ Cardinality(Starting) = 0
  <2> HIDE DEF Waiting
  <2> QED
    BY <1>2, <1>3, FS_EmptySet, FS_CardinalityType
<1> HIDE DEF Waiting
<1>7. queued = <<>>
  <2>1. active = Cardinality(Waiting) - Len(queued)
    BY <1>5, <1>6, SlotNumbers, <1>0
  <2>2. queued # <<>> => active + Cardinality(Starting) >= MaxActive
    BY <1>0 DEF SlotInv
  <2>3. Len(queued) \in Nat /\ MaxActive \in Nat \ {0}
    BY <1>0, PictureAssumption
  <2> QED
    BY <1>4, <1>6, <2>1, <2>2, <2>3
<1>8. active = 0 /\ Waiting = {}
  <2>1. Len(queued) = 0
    BY <1>7
  <2>2. Cardinality(Waiting) = 0
    BY <1>4, <1>6, <2>1
  <2>3. Waiting = {}
    BY <1>3, <2>2, FS_EmptySet
  <2>4. active = 0
    BY <1>0, <1>5, <1>6, <2>1, <2>2, SlotNumbers
  <2> QED
    BY <2>3, <2>4
<1>9. ASSUME NEW u \in Urls PROVE handlers[u] = NoHandler
  <2>1. SUFFICES ASSUME handlers[u] # NoHandler PROVE FALSE
    OBVIOUS
  <2>2. handlers[u].request \in Downloads
    BY <2>1, HandlerThere
  <2>3. state[handlers[u].request] = "resumed" /\ job[handlers[u].request].at # "done"
    <3>1. /\ state[handlers[u].request] \in {"initialized", "resumed"}
          /\ job[handlers[u].request].at \in {"none", "fetch", "remove"}
      BY <1>0, <2>1 DEF RequestInv
    <3>2. state[handlers[u].request] # "initialized"
      BY <1>8, <2>2 DEF Waiting
    <3> QED
      BY <3>1, <3>2
  <2> QED
    BY <1>1, <2>2, <2>3
<1> QED
  BY <1>1, <1>7, <1>8, <1>9

LEMMA Served == IInv /\ WorkInv => DownloadsAreServed
<1> SUFFICES ASSUME IInv, WorkInv PROVE DownloadsAreServed
  OBVIOUS
<1>0. Bounds /\ OpsInv /\ CellInv
  BY InBounds DEF WorkInv
<1>1. TypeOK /\ OneRequestPerUrl
  BY InvTypes, OneRequest DEF WorkInv
<1>2. ASSUME AllHandled
      PROVE  /\ active = 0 /\ queued = <<>> /\ main = <<>> /\ setting = Idle
             /\ \A u \in Urls : Ids(handlers[u].ops) = {}
             /\ \A r \in Downloads : Ids(job[r].ops) = {}
             /\ Ids(main) = {}
  BY <1>2, Handled, IdsEmpty DEF AllHandled, MainFree, NoHandler
<1>3. NothingIsLeftOver
  <2> SUFFICES ASSUME AllHandled, NEW d \in 1..downloads PROVE completed[d] = 1
    BY <1>2 DEF NothingIsLeftOver
  <2>1. d \in Downloads /\ ~(d > downloads)
    BY <1>0 DEF Bounds
  <2>2. Apart(InHandlers, InJobs, Ids(main), downloads, completed)
    BY <1>0 DEF OpsInv
  <2>3. /\ d \notin Ids(main) /\ ~(\E u \in Urls : d \in InHandlers[u])
        /\ ~(\E r \in Downloads : d \in InJobs[r])
    BY <1>2 DEF InHandlers, InJobs
  <2>4. completed[d] \in 0..1 /\ completed[d] # 0
    BY <2>1, <2>2, <2>3 DEF Apart
  <2> QED
    BY <2>4
<1>4. ShownInTheEnd
  <2> SUFFICES ASSUME AllHandled, NEW c \in Cells, row[c] # Nothing
               PROVE  \/ receipt[c] = NoReceipt /\ (image[c] = Picture[row[c]] \/ c \in excused)
                      \/ Picture[row[c]] \in stolen
    BY DEF ShownInTheEnd
  <2>1. CellOk(c) /\ c \in Views /\ setting = Idle
    BY <1>0, <1>2 DEF CellInv, Bounds
  <2>2. ~(Held(c) /\ InFlight(c))
    <3>1. SUFFICES ASSUME Held(c), InFlight(c) PROVE FALSE
      OBVIOUS
    <3>2. receipt[c].request \in Downloads /\ url[receipt[c].request] \in Urls
      BY <2>1, <3>1, HeldIs
    <3>3. \A i \in 1..Len(main) : FALSE
      BY <1>2
    <3> QED
      BY <1>2, <3>1, <3>2, <3>3 DEF InFlight
  <2> QED
    BY <2>1, <2>2 DEF CellOk, Held
<1> QED
  BY <1>1, <1>3, <1>4 DEF DownloadsAreServed

(* Every download is served: but for a job that was overtaken, a URL has   *)
(* one request at a time, since the downloader appends a completion to     *)
(* "the already existing request"; and once all requests were handled no   *)
(* slot of the downloader is lost or made up and nobody is left in its     *)
(* queue, every download was completed once, and each cell shows the       *)
(* picture of its person, unless that failed or came out of the cache.     *)
THEOREM DownloadsServed == Spec => []DownloadsAreServed
BY WorkInvariant, Served, PTL

===============================================================================
