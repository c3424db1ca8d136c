---------------------------- MODULE PersonPictures ----------------------------
(***************************************************************************)
(* AlamofireExample: a grid whose cells are reused for other people while  *)
(* their pictures load, and a detail screen with a picture of its own,     *)
(* over AlamofireImage's image views and the downloader they share.        *)
(*                                                                         *)
(* The main thread runs the app, setImage and the completions; each answer *)
(* of the network is handled by a job on the downloader's concurrent       *)
(* response queue.  The two meet in blocks on the downloader's             *)
(* synchronization queue: one such block is one step here.                 *)
(***************************************************************************)
EXTENDS Integers, SequencesExt

CONSTANTS Rows, Cells, Urls,
          Picture,         \* [Rows -> Urls]: the picture of a person
          MaxActive,       \* maximumActiveDownloads
          MaxDownloads,    \* bound: calls of download
          MaxDetails       \* bound: openings of the detail screen

ASSUME PictureAssumption == /\ Picture \in [Rows -> Urls] /\ "nothing" \notin Urls
                            /\ MaxActive \in Nat \ {0}
                            /\ MaxDownloads \in Nat /\ MaxDetails \in Nat
                            /\ Cells \cap (1..MaxDetails) = {}

Nothing == "nothing"
Details == 1..MaxDetails   \* each opening has a controller of its own
Views == Cells \cup Details
Downloads == 1..MaxDownloads
Idle == [view |-> 0, at |-> "idle"]
NoReceipt == [id |-> 0, request |-> 0]
NoHandler == [request |-> 0, ops |-> <<>>]

VARIABLES row,        \* the person a view is for
          alive,      \* image views not deallocated
          image,      \* the picture a view shows
          receipt,    \* activeRequestReceipt: a download's id and its request
          setting,    \* the setImage the main thread is in
          screen,     \* the detail controller in front, 0 for the grid
          asking,     \* detail controllers that wait for their person
          opened,     \* how many there were
          main,       \* completions dispatched to the main queue
          downloads,  \* how many calls of download there were
          url,        \* of a request, named after the download that made it
          state,      \* of a request: "none", "initialized", "resumed", "cancelled"
          tasks,      \* requests whose URLSessionTask was created
          handlers,   \* responseHandlers: a request and its operations, by URL
          active,     \* activeRequestCount
          queued,     \* queuedRequests
          job,        \* of a request: its response handler's progress
          cache,      \* pictures in the image cache
          completed,  \* history: how often each download was completed
          stolen,     \* history: where a job took the handler of another request
          excused     \* history: views whose picture failed, or came into the cache
                      \* after they looked there and before they asked for it

views == <<row, alive, image, receipt>>
app == <<screen, asking, opened>>
requests == <<url, state, tasks>>
downloader == <<handlers, active, queued>>
vars == <<views, setting, app, main, downloads, requests, downloader, job, cache, completed, stolen, excused>>

NoJob == [at |-> "none", ok |-> FALSE, ops |-> <<>>]

Init == /\ row = [v \in Views |-> Nothing] /\ alive = Cells
        /\ image = [v \in Views |-> Nothing] /\ receipt = [v \in Views |-> NoReceipt]
        /\ setting = Idle /\ screen = 0 /\ asking = {} /\ opened = 0
        /\ main = <<>> /\ downloads = 0
        /\ url = [d \in Downloads |-> Nothing] /\ state = [d \in Downloads |-> "none"] /\ tasks = {}
        /\ handlers = [u \in Urls |-> NoHandler] /\ active = 0 /\ queued = <<>>
        /\ job = [d \in Downloads |-> NoJob] /\ cache = {}
        /\ completed = [d \in Downloads |-> 0] /\ stolen = {} /\ excused = {}

-------------------------------------------------------------------------------
(* The downloader's requests. *)

(* start: resuming does nothing to a cancelled request; it counts anyway. *)
Start(states, request) ==
    /\ state' = [states EXCEPT ![request] = IF @ = "initialized" THEN "resumed" ELSE @]
    /\ active' = active + 1

(* The session creates a request's task on its own queue. *)
DidCreateTask == \E r \in Downloads \ tasks :
    /\ state[r] # "none"
    /\ tasks' = tasks \cup {r}
    /\ UNCHANGED <<views, setting, app, main, downloads, url, state, downloader, job, cache, completed, stolen, excused>>

(* A request has finished, or was cancelled: once, on the response queue.  *)
(* A cancelled one fails even if it was never resumed.                     *)
Answer(r) ==
    /\ job[r] = NoJob
    /\ \E ok \in BOOLEAN :
          /\ \/ state[r] = "resumed" /\ r \in tasks
             \/ state[r] = "cancelled" /\ ~ok
          /\ job' = [job EXCEPT ![r] = [at |-> "fetch", ok |-> ok, ops |-> <<>>]]
    /\ UNCHANGED <<views, setting, app, main, downloads, requests, downloader, cache, completed, stolen, excused>>

-------------------------------------------------------------------------------
(* The completion handler of a request, on the response queue. *)

Stage(r, stage) == job[r].at = stage
Goes(r, stage) == job' = [job EXCEPT ![r].at = stage]

(* A mutant: the early return comes before the deferred steps. *)
FetchReturning(r) ==
    /\ Stage(r, "fetch")
    /\ \/ handlers[url[r]].request # r /\ Goes(r, "done") /\ UNCHANGED handlers
       \/ handlers[url[r]].request = r /\ Goes(r, "remove") /\ UNCHANGED handlers
    /\ UNCHANGED <<main, active, queued, state, cache, stolen>>

(* "Early out if the request has changed out from under us": either way    *)
(* the deferred steps follow.  The handler that was fetched is looked up   *)
(* again to be removed.                                                    *)
Fetch(r) == /\ Stage(r, "fetch")
            /\ IF handlers[url[r]].request # r THEN Goes(r, "decrement") ELSE Goes(r, "remove")
            /\ UNCHANGED <<main, handlers, active, queued, state, cache, stolen>>

TakeHandler(r) ==
    /\ Stage(r, "remove")
    /\ handlers' = [handlers EXCEPT ![url[r]] = NoHandler]
    /\ IF handlers[url[r]] = NoHandler THEN Goes(r, "decrement")
       ELSE job' = [job EXCEPT ![r].at = "serve", ![r].ops = handlers[url[r]].ops]
    /\ stolen' = IF handlers[url[r]].request \in {0, r} THEN stolen
                 ELSE stolen \cup {url[r]}
    /\ UNCHANGED <<main, active, queued, state, cache>>

Completion(op, u, ok) == [id |-> op.id, view |-> op.view, url |-> u, ok |-> ok]

(* Each operation's completion goes to the main queue, a picture into the  *)
(* cache first.                                                            *)
Serve(r) == /\ Stage(r, "serve")
            /\ job' = [job EXCEPT ![r].at = "decrement", ![r].ops = <<>>]
            /\ cache' = IF job[r].ok THEN cache \cup {url[r]} ELSE cache
            /\ main' = main \o [i \in DOMAIN job[r].ops |->
                                  Completion(job[r].ops[i], url[r], job[r].ok)]
            /\ UNCHANGED <<downloader, state, stolen>>

(* safelyDecrementActiveRequestCount *)
Decrement(r) == /\ Stage(r, "decrement")
                /\ active' = active - 1
                /\ Goes(r, "next")
                /\ UNCHANGED <<main, handlers, queued, state, cache, stolen>>

(* safelyStartNextRequestIfNecessary *)
StartNext(r) == /\ Stage(r, "next")
                /\ Goes(r, "done")
                /\ IF active < MaxActive /\ queued # <<>>
                   THEN Start(state, Head(queued)) /\ queued' = Tail(queued)
                   ELSE UNCHANGED <<state, active, queued>>
                /\ UNCHANGED <<main, handlers, cache, stolen>>

Respond(r) == /\ Fetch(r) \/ TakeHandler(r) \/ Serve(r) \/ Decrement(r) \/ StartNext(r)
              /\ UNCHANGED <<views, setting, app, downloads, url, tasks, completed, excused>>

-------------------------------------------------------------------------------
(* setImage, on the main thread. *)

ActiveUrl(v) == IF receipt[v] # NoReceipt /\ receipt[v].request \in tasks
                THEN url[receipt[v].request] ELSE Nothing

(* cancelRequest: the operation is completed at once, and a request that   *)
(* nobody else waits for is cancelled, unless its handler has gone.        *)
CancelRequest(v) ==
    LET u == url[receipt[v].request]
        ops == handlers[u].ops
        mine == {i \in DOMAIN ops : ops[i].id = receipt[v].id}
        index == CHOOSE i \in mine : TRUE
        left == IF mine = {} THEN ops ELSE RemoveAt(ops, index)
    IN IF receipt[v] = NoReceipt \/ handlers[u] = NoHandler THEN UNCHANGED <<main, handlers, state>>
       ELSE /\ main' = IF mine = {} THEN main ELSE Append(main, Completion(ops[index], u, FALSE))
            /\ handlers' = [handlers EXCEPT ![u] = IF left = <<>> THEN NoHandler ELSE [@ EXCEPT !.ops = left]]
            /\ state' = IF left = <<>> THEN [state EXCEPT ![receipt[v].request] = "cancelled"] ELSE state

(* The rest of the main thread waits while setImage runs. *)
MainFree == setting = Idle

(* What is being loaded already is left to load. *)
SetImage(v, r) ==
    /\ row' = [row EXCEPT ![v] = r]
    /\ excused' = excused \ {v}
    /\ IF ActiveUrl(v) = Picture[r]
       THEN UNCHANGED <<receipt, setting, main, handlers, state>>
       ELSE /\ CancelRequest(v)
            /\ receipt' = [receipt EXCEPT ![v] = NoReceipt]
            /\ setting' = [view |-> v, at |-> "cache"]

(* A controller that was left goes when the last closure that holds it does. *)
WithoutLeft(v, at) == IF v \in Details /\ v # at THEN alive \ {v} ELSE alive

LookUp ==
    /\ setting.at = "cache"
    /\ LET v == setting.view IN
       IF Picture[row[v]] \in cache
       THEN /\ image' = [image EXCEPT ![v] = Picture[row[v]]]
            /\ setting' = Idle /\ alive' = WithoutLeft(v, screen)
       ELSE setting' = [setting EXCEPT !.at = "download"] /\ UNCHANGED <<image, alive>>
    /\ UNCHANGED <<row, receipt, app, main, downloads, requests, downloader, job, cache, completed, stolen, excused>>

(* download: joins a request that is there, or takes the cached picture,   *)
(* or makes a request.  Only then, and when it joined, is there a receipt. *)
Join(v, d, u) == /\ handlers[u] # NoHandler
                 /\ handlers' = [handlers EXCEPT ![u].ops = Append(@, [id |-> d, view |-> v])]
                 /\ receipt' = [receipt EXCEPT ![v] = [id |-> d, request |-> handlers[u].request]]
                 /\ UNCHANGED <<main, url, state, active, queued, excused>>

TakeCached(v, d, u) ==
    /\ handlers[u] = NoHandler /\ u \in cache
    /\ main' = Append(main, Completion([id |-> d, view |-> v], u, TRUE))
    /\ excused' = excused \cup {v}
    /\ UNCHANGED <<receipt, url, state, handlers, active, queued>>

MakeRequest(v, d, u) ==
    /\ handlers[u] = NoHandler /\ u \notin cache
    /\ url' = [url EXCEPT ![d] = u]
    /\ handlers' = [handlers EXCEPT ![u] = [request |-> d, ops |-> <<[id |-> d, view |-> v]>>]]
    /\ receipt' = [receipt EXCEPT ![v] = [id |-> d, request |-> d]]
    /\ IF active < MaxActive
       THEN Start([state EXCEPT ![d] = "initialized"], d) /\ UNCHANGED queued
       ELSE /\ state' = [state EXCEPT ![d] = "initialized"]
            /\ queued' = Append(queued, d)
            /\ UNCHANGED active
    /\ UNCHANGED <<main, excused>>

Download ==
    /\ setting.at = "download"
    /\ LET v == setting.view
           d == downloads + 1
           u == Picture[row[v]]
       IN /\ Join(v, d, u) \/ TakeCached(v, d, u) \/ MakeRequest(v, d, u)
          /\ alive' = WithoutLeft(v, screen)
    /\ downloads' = downloads + 1
    /\ setting' = Idle
    /\ UNCHANGED <<row, image, app, tasks, job, cache, completed, stolen>>

(* A mutant: the view is there. *)
IsThere(c) == c.view \in alive

(* A completion sets the picture of a view that is still there and still   *)
(* waits for this download.                                                *)
StillWaits(c) == /\ c.view \in alive
                 /\ ActiveUrl(c.view) = c.url
                 /\ receipt[c.view].id = c.id

Complete ==
    /\ MainFree /\ main # <<>>
    /\ LET c == Head(main) IN
       /\ IF StillWaits(c)
          THEN /\ image' = IF c.ok THEN [image EXCEPT ![c.view] = c.url] ELSE image
               /\ receipt' = [receipt EXCEPT ![c.view] = NoReceipt]
               /\ excused' = IF c.ok THEN excused ELSE excused \cup {c.view}
          ELSE UNCHANGED <<image, receipt, excused>>
       /\ completed' = [completed EXCEPT ![c.id] = @ + 1]
    /\ main' = Tail(main)
    /\ UNCHANGED <<row, alive, setting, app, downloads, requests, downloader, job, cache, stolen>>

-------------------------------------------------------------------------------
(* The app. *)

MayLoad == MainFree /\ downloads < MaxDownloads

(* The grid gives a cell to a row, another one or, reloaded, the same. *)
CellForItemAt == /\ MayLoad
                 /\ \E c \in Cells, r \in Rows : SetImage(c, r)
                 /\ UNCHANGED <<alive, image, app, downloads, url, tasks, active, queued, job, cache, completed, stolen>>

(* A tap opens the detail screen, which asks for its person. *)
Prepare == /\ MainFree /\ screen = 0 /\ opened < MaxDetails
           /\ \E r \in Rows : row' = [row EXCEPT ![opened + 1] = r]
           /\ opened' = opened + 1 /\ screen' = opened + 1
           /\ asking' = asking \cup {opened + 1} /\ alive' = alive \cup {opened + 1}
           /\ UNCHANGED <<image, receipt, setting, main, downloads, requests, downloader, job, cache, completed, stolen, excused>>

(* The person arrives, and the closure keeps the controller until then;    *)
(* or an error does.                                                       *)
UpdateInfo == \E n \in asking :
    /\ MayLoad
    /\ SetImage(n, row[n])
    /\ asking' = asking \ {n}
    /\ UNCHANGED <<alive, image, screen, opened, downloads, url, tasks, active, queued, job, cache, completed, stolen>>

InfoFails == \E n \in asking :
    /\ MainFree
    /\ asking' = asking \ {n}
    /\ alive' = WithoutLeft(n, screen)
    /\ UNCHANGED <<row, image, receipt, setting, screen, opened, main, downloads, requests, downloader, job, cache, completed, stolen, excused>>

Back == /\ MainFree /\ screen # 0
        /\ screen' = 0
        /\ alive' = IF screen \in asking THEN alive ELSE alive \ {screen}
        /\ UNCHANGED <<row, image, receipt, setting, asking, opened, main, downloads, requests, downloader, job, cache, completed, stolen, excused>>

(* A memory warning, or the cache's own limit, empties the image cache. *)
RemoveAllImages == /\ cache # {}
                   /\ cache' = {}
                   /\ UNCHANGED <<views, setting, app, main, downloads, requests, downloader, job, completed, stolen, excused>>

User == CellForItemAt \/ Prepare \/ Back
Next == \/ LookUp \/ Download \/ Complete \/ User \/ DidCreateTask \/ RemoveAllImages \/ UpdateInfo \/ InfoFails
        \/ \E r \in Downloads : Answer(r) \/ Respond(r)

Spec == Init /\ [][Next]_vars

-------------------------------------------------------------------------------
(* Properties. *)

Operations == [id : Downloads, view : Views]
Handler == [request : Downloads, ops : Seq(Operations)]

(* What the variables hold. *)
TypeOK ==
    /\ row \in [Views -> Rows \cup {Nothing}] /\ alive \subseteq Views
    /\ image \in [Views -> Urls \cup {Nothing}]
    /\ receipt \in [Views -> [id : Downloads, request : Downloads] \cup {NoReceipt}]
    /\ setting \in [view : Views, at : {"cache", "download"}] \cup {Idle}
    /\ screen \in 0..MaxDetails /\ opened \in 0..MaxDetails /\ asking \subseteq Details
    /\ main \in Seq([id : Downloads, view : Views, url : Urls, ok : BOOLEAN])
    /\ downloads \in 0..MaxDownloads
    /\ url \in [Downloads -> Urls \cup {Nothing}]
    /\ state \in [Downloads -> {"none", "initialized", "resumed", "cancelled"}]
    /\ tasks \subseteq Downloads
    /\ handlers \in [Urls -> Handler \cup {NoHandler}]
    /\ active \in Int /\ queued \in Seq(Downloads)
    /\ job \in [Downloads -> [at : {"none", "fetch", "remove", "serve", "decrement", "next", "done"},
                              ok : BOOLEAN, ops : Seq(Operations)]]
    /\ cache \subseteq Urls
    /\ completed \in [Downloads -> 0..1]

(* "Check whether the active request has changed while downloading": a     *)
(* picture that arrives is the one of the person the view is for now,      *)
(* however often the cell was reused, and no view that is gone is drawn.   *)
LatePicturesIgnored ==
    [][\A v \in Views : image'[v] # image[v] => image'[v] = Picture[row'[v]] /\ v \in alive]_vars

(* "If the same download request is already in the queue or currently      *)
(* being downloaded, the filter and completion handler are appended to the *)
(* already existing request": so a URL has one request at a time - unless  *)
(* a job, between the blocks in which it looks its handler up and takes    *)
(* it, was overtaken by a view that cancelled and asked again.             *)
Pending(r) == state[r] \in {"initialized", "resumed"} /\ job[r] = NoJob
OneRequestPerUrl ==
    \A r, s \in Downloads : Pending(r) /\ Pending(s) /\ url[r] = url[s] /\ url[r] \notin stolen
                                => r = s

(* When all requests were handled nothing is left over: no slot is lost    *)
(* and none was made up, although a cancelled request takes a slot back    *)
(* that it never held and holds one when it is dequeued later; nobody is   *)
(* left in the queue; and every download was completed once.               *)
AllHandled == /\ \A r \in Downloads : state[r] \in {"resumed", "cancelled"} => Stage(r, "done")
              /\ main = <<>> /\ MainFree
NothingIsLeftOver == AllHandled => /\ active = 0 /\ queued = <<>>
                                   /\ \A d \in 1..downloads : completed[d] = 1

(* "If the image is cached locally, the image is set immediately.          *)
(* Otherwise [...] the remote image will be set once the image request is  *)
(* finished": then no cell waits in vain, and each shows its own picture,  *)
(* not that of the person before - with the exception above, and unless    *)
(* its request failed or it is excused.                                    *)
ShownInTheEnd ==
    AllHandled => \A c \in {v \in Cells : row[v] # Nothing} :
                     \/ receipt[c] = NoReceipt /\ (image[c] = Picture[row[c]] \/ c \in excused)
                     \/ Picture[row[c]] \in stolen

DownloadsAreServed == TypeOK /\ OneRequestPerUrl /\ NothingIsLeftOver /\ ShownInTheEnd
===============================================================================
