# A verification development for SWU_guru_IOS_Practice

The repository holds twenty-eight small iOS practice projects in Swift, most
of them one or two view controllers, next to the third-party pods they use.
This directory models the apps that keep state a user would miss - lottery
columns in SQLite, notes in Core Data, memos in UserDefaults - or that talk to
something that answers late - observers of a database, a login, pictures -
together with those parts of the pods on which what they promise rests. It
checks the models with TLC on small instances and proves the central facts
about them with TLAPS for every instance.

## 1. Inventory

| component (under `src/`) | state it keeps | operations | what is hard | status |
| --- | --- | --- | --- | --- |
| `LottoDraw` view controller | `lottoNumbers`; rows the table counted; the file `lotto.db` | launch (`initDB`), Draw, Load, Save, drawing a cell | death between two statements, statements that fail, rows older than the array | modelled |
| `doDraw` of `LottoDraw` | the pool, the column, the columns | random pick, removal, sort | indices into a shrinking array | modelled |
| FMDB (`LottoDraw/Pods/FMDB`) | the connection, one open result set | open, close, update, query, next | errors that look like ends | the calls the app makes |
| `MemoApp` | Core Data store, view context, global `noteList`, screen | list, new, edit, delete, background flush, disconnect and reconnect | pending changes after a failed save, a second load in one process, ids by counting | modelled |
| `TableViewExample` | `datasource`, table rows, UserDefaults | add, move, swipe, edit in an alert, delete, relaunch | closures that remember a row; three copies | the memo list; not navigation |
| `RealTimeDataBasic` | observers at the database, an alert | register at every appearance, one-shot read, remove | observers that pile up, events and answers on two queues | the database part |
| Realtime Database client (`FirebaseDatabase` pod) | registrations, cache, overlay of pending writes, outstanding puts | listen, put, reconnect, answers held back | lost and late answers, a pending removal over newer data | what the app uses |
| `FirebaseBasic`, `AuthUIExample`, `FBLoginBasic` | the listener's handle, what is presented, Facebook's token | appear, disappear, listener, sign-out, login, cancel | callbacks racing appearance, presentation and the keychain; sign-ins that end late or fail | modelled; of `FBLoginBasic` its one handler |
| `AlamofireExample` | people, reused cells, detail screens | setting a cell, opening and leaving a detail | late answers, reused cells, controllers kept alive by closures | all but the list's own load |
| AlamofireImage (pod) | receipts of views, handlers by URL, queue and count of requests | download, cancel, answer | jobs on a concurrent queue against the main thread | what the app uses |
| `FrieStoreBasic` | - | writes without waiting | order of asynchronous writes | its writes |
| Firestore write pipeline (pod) | queue of batches per user in leveldb, callbacks, pipeline, stream | write, wait, user change, network off and on, timers, answers, crash | re-entrant close, resends, backoff, answers without ids | modelled but for documents and the watch stream |
| Firestore's gRPC streams (pod) | completions, buffered writer | start, write, finish, callbacks | a blocking wait, cancelled callbacks, failures that overlap | modelled |
| `FireStorageBasic`, `sendMessage`, `BasicSequence`, `UIControlBasic`, `ScreenChangeExample` | little | - | no statement to check against, or one fixed sequence | not modelled, see section 5 |
| the other apps | none beyond layout, or one floating-point formula | - | - | not modelled, see `PROJECT.json` |
| the rest of the pods | - | - | - | third-party code |

The apps do not talk to each other: each is a process of its own. In LottoDraw,
MemoApp and TableViewExample everything runs on the main thread, one handler
after the other, so the interleavings that matter are those of user actions,
system events (kill, background, a scene released) and the outcome of each call
into a store. In the other apps the main queue shares state with a library's
queue: FIRAuth's work queue, the database client's queue, the image
downloader's synchronization and response queues, Firestore's worker queue and
gRPC's thread.

What makes each component correct:

* **LottoDraw**: what `lotto.db` holds is explained by the last save and
  nothing else; a load shows what is stored; the table never asks for a row
  that is not there; every handler ends.
* **number picking**: different numbers, all in range, in order; no pick from
  an empty array.
* **MemoApp**: whatever is listed is stored, nothing is pending once the user
  has left, a deletion stays, the rows the table counted are there, ids are
  unique.
* **TableViewExample**: the three copies agree; a remembered row still is the
  memo the user meant; one action changes one memo.
* **RealTimeDataBasic**: observers are told what the server held, never an older
  value after a newer one; a removal is answered, truly, and stays.
* **FirebaseBasic and its kin**: a login over the screen when nobody is signed
  in, gone again once it has signed somebody in; a listener exactly while the
  screen shows.
* **AlamofireExample**: a view shows the picture of the person it is for now;
  every download is completed once; slots of the downloader come back.
* **Firestore**: writes are committed in order, none is lost, the app hears of
  each once and truthfully, across errors, user changes and crashes; no
  assertion of the client fails; a stream's end is told and blocks nobody.

`PROJECT.json` lists every hazard of the code at its line with the properties
that watch it.

## 2. Modules

```
FMDatabase, LottoColumns <- Lotto <- MCLotto   (TLC)
                            Lotto -- INSTANCE DrawStore
            LottoColumns <- LottoPick          (TLC)
       Lotto, LottoPick  <- LottoProofs        (TLAPS)
NoteStore     -- instantiated by MemoNotes     <- MCMemoNotes, MemoNotesProofs
MemoStore     -- instantiated by MemoList      <- MCMemoList, MemoListProofs
DurableWrites -- instantiated by WritePipeline <- MCWritePipeline, WritePipelineProofs
AuthListener   <- MCAuthListener,   AuthListenerProofs
PersonPictures <- MCPersonPictures, PersonPicturesProofs
GrpcStream     <- GrpcStreamProofs
Observers      <- ObserversProofs
```

**FMDatabase** is one SQLite file with one table as FMDB shows it. Its
operators (`Open`, `Close`, `CreateTable`, `ExecuteUpdate`, `ExecuteQuery`,
`NextRow`, `NoNextRow`) are not actions: the caller conjoins one with its own
step, the BOOL the method returns being a parameter, so a step of `Lotto` is a
step of both. SQLite below FMDB is external. Assumed of it: opening makes the
file, a statement is atomic and durable, a statement that names a missing table
is an error, and (if `IOErrors`) any call may fail and change nothing.

**Lotto** is `ViewController.swift` of LottoDraw. `pc` says where in which
handler the main thread is: `FileExists`, `CreateOpen`, `CreateLotto` are
`initDB`; `DoLoad`, `LoadOpen`, `LoadQuery`, `LoadRow`, `LoadEnd` are `doLoad`;
`DoSave`, `SaveOpen`, `SaveDelete`, `TryTrap`, `SaveInsert`, `SaveEnd` are
`doSave`. A handler is cut exactly at its calls into the database, because only
there can a death leave something different on disk. `Return` is the end of a
handler, where the local `db` is deallocated and thereby closed. `shownRows`
is the row count UIKit took at the last `reloadData`; `CellForRow` is the trap
of `lottoNumbers[indexPath.row]` when it is out of date. `saved` and `origin`
are history variables, read by properties only.

**DrawStore** is the abstract store behind Save: a save empties it and hands
columns over in order; columns may be skipped (errors) and the rest abandoned
(death). It makes explicit that Save is *not* atomic.

**LottoPick** refines the one step `DoDraw` of Lotto into its picks; the array
and the number of columns both work on are declared in **LottoColumns**.
`Int.random(in:)` is a choice among all indices, so what holds in the model
holds for every outcome of the generator. The sort is any ordered
rearrangement.

**MemoNotes** composes `NoteTableView`, `NoteDetailVC`,
`AppDelegate.saveContext` and `SceneDelegate`. A note exists in `store` (disk),
`ctx` (the view context) and `noteList`. `ContextSave(ok)` is `context.save()`:
atomic, writing *everything* pending, or throwing and leaving the changes
pending; the code that sets attributes before calling it therefore has two
outcomes in one action. `popViewController` and the `reloadData` of
viewDidAppear are two steps: in between the screen is `popped` (or `swiped`, a
pop the user began with a swipe and may give up), the table still has the rows
it `counted`, and `nonDeleteNotes()` may already be shorter
(`CellForRowTraps`). `EnterBackground` calls `saveContext`; `SaveContextTraps`
is its `fatalError`. `SceneDisconnect` and `SceneReconnect` are the system
releasing the scene and connecting it again in the same process, whereupon a
new `NoteTableView` appends everything to the global list again. A process that
was killed in the background is `Kill` followed by `Launch`. **NoteStore** is
its abstract store.

**MemoList** is `ViewController.swift` of TableViewExample: `datasource`,
`stored` (UserDefaults) and `shown` (the text each row was last given). A swipe
remembers its row in `swiped`, the alert in `editRow`; `meant` is the history
of which memo that was. **MemoStore** is its abstract store.

**Observers** composes the screen of RealTimeDataBasic with the client. Both
have a queue (`mainQueue`, `dbQueue`), and a step is one block of one of them,
one message of the connection, or one step of the service. `conn` holds what is
per connection: puts that are outstanding, listens not yet answered, and the
answers held back (`toAck`) until they are; when it drops, everything under way
is lost and the client sends its listens and puts again.

**AuthListener** is one screen with an authentication listener. `screen` is its
life (viewWillAppear to viewDidDisappear), `shown` what is presented over it,
`main` the blocks dispatched to the main queue: the first call of a new
listener, the notification of a changed user, the dismissal of the login. A
sign-in is a call of the network. `SignIn`, and `DidComplete` when Facebook's
`dialog` (opened by `FacebookLogIn`) ends with a token, only put the one who
asked into `signingIn`: a login by its number, or the button, one sign-in of
each at a time. `SignInEnds` and `SignInFails` come at any later time, whether
the login that asked is up, was cancelled, or was followed by another;
`SignedIn` then dismisses it only if it is the one presented, as line 332 of
FUIAuth.m does. `signedInBy` is the history of who asked for the sign-in of the
current user. Which app it is, is the variable `app`, chosen at the beginning
from the constant `Apps`; `MCAuthListener` gives the two there are:
FirebaseBasic hides the cancel button, has a sign-out button and removes its
listener in viewDidDisappear, AuthUIExample removes it earlier and has the
Facebook button that is all FBLoginBasic consists of. FIRAuth's work queue may
read the keychain at any moment (`Load`), also after a listener was called
first; `misled` is the history of a first call that told of nobody while the
keychain held somebody.

**PersonPictures** is the grid and the detail screen of AlamofireExample over
`UIImageView.af.setImage` and `ImageDownloader`. One block on the downloader's
synchronization queue is one step. `setImage` is cut into its cancellation,
its look at the cache and its call of `download`, because answers are handled
on a concurrent queue in between; a response job is cut into its blocks.
Two histories name what the code lets happen in those gaps: `stolen`, the URLs
at which a job took the handler of another request, and `excused`, the views
whose picture failed or came into the cache between the two looks at it.

**WritePipeline** is the way of a write from the app into leveldb, the
pipeline, the stream and the server, and of the answer back. All handlers of
the client run on one worker queue, so each is one step; but they call one
another (`Stream::Close` calls `OnWriteStreamClose`, which fills the pipeline,
which may start the stream again), so they are operators from a client state to
the next, composed in the order of the code, with every HARD_ASSERT on the way
recorded in `sound`. A crash ends the process between two operations or in the
middle of one that settles a batch: after a result is stored and the app has
heard (`NotifyUser`), after waiters were told too but before the batch has left
the queue (`TriggerPendingWriteCallbacks`), and after a rejection. leveldb's
queues stay. An answer that is committed at the server may be unreadable
(`AnswerUnreadable`): the stream closes with an error, as stream.cc does.
**DurableWrites** is the abstract queue behind it: only the front of the
current user's queue is decided, the app hears of a write at most once, perhaps
never if a crash came, and perhaps just before it.

**GrpcStream** is the bidirectional call below that stream. `grpc` counts the
tags of each type that gRPC holds, `posted` the completions on the worker queue
that are not cancelled; `worker` is where a handler waits for tags: while it
does, no callback runs and what comes back is dropped.

In every module the definitions introduced by "A mutant:" are not part of the
system. Each is the definition below it with one plausible slip, and
`PROJECT.json` says which property finds it.

## 3. What is checked

| run | module, cfg | instance | shows |
| --- | --- | --- | --- |
| `lotto_failing` | `MCLotto`, `LottoFailing.cfg` | 3 columns, 3 per draw, errors and kills | `TypeOK`, `SavedIsSubsequence`, `StaleOnlyAfterFailedLoad`, `HalfMadeForever`, `ImplementsStore` |
| `lotto_sound` | `MCLotto`, `LottoSound.cfg` | the same without SQLite errors, fair | `SavedIsPrefix`, `TrapsNeedHalfMadeFile`, `LoadedMirrorsFile`, `HandlersEnd` |
| `lotto_try` | `MCLotto`, `LottoTry.cfg` | the same, safety only | `NoTryTrap` is **violated** |
| `lotto_pick` | `LottoPick`, `LottoPick.cfg` | 1..5, 3 per column, 2 columns, fair | `PickTypeOK`, `ColumnsAreRight`, `PoolIsComplement`, `PoolNeverEmpty`, `DrawEnds` |
| `memo_notes` | `MCMemoNotes`, `MemoNotes.cfg` | 3 notes, 2 texts, a list of at most 4 after a reconnect, Core Data may throw | `TypeOK`, `BackgroundIsSaved`, `CountedRowsAreThere`, `ListedIsStored`, `ListMirrorsStore`, `IdsAreUnique`, `DeletionIsFinal`, `ImplementsNoteStore` |
| `memo_list` | `MCMemoList`, `MemoList.cfg` | 2 texts and the empty one, 3 memos | `TypeOK`, `CopiesAgree`, `CapturedRowIsMeant`, `ImplementsMemoStore` |
| `write` | `MCWritePipeline`, `Write.cfg` | 2 users, 3 writes, pipeline of 2, 2 disruptions, 1 waiter, fair | `PipelineInStep`, `OutcomesAreTrue`, `ImplementsDurableWrites`, `QueueIsServed` |
| `grpc_stream` | `GrpcStream`, `Grpc.cfg` | 3 writes, 3 messages, fair | `TagsFollowTheRules`, `ObserverIsServed` |
| `observers` | `Observers`, `Observers.cfg` | 2 appearances, a read, a removal, 2 writes of others, a break, fair | `ShownIsTrue`, `NeverOlder`, `TapsAnswered` |
| `observers_left` | `Observers`, `ObserversLeft.cfg` | the same, safety only | `ObserverGoesWithScreen` is **violated** |
| `auth` | `MCAuthListener`, `Auth.cfg` | both apps, 2 users, 4 appearances, fair | `ListensWhileVisible`, `LoginFollowsUser`, `LoginComesAndLeaves` |
| `pictures` | `MCPersonPictures`, `Pictures.cfg` | 2 people, a cell, a detail screen, 3 downloads, 1 slot | `LatePicturesIgnored`, `DownloadsAreServed` |

The comment over each property says what it means. In the later modules a
property is a conjunction of named parts, each with its own comment: one run
asks one question of one component.

**Two disagreements with the text** are runs of their own, and `PROJECT.json`
quotes the lines. `lotto_try`: the comment in `doSave` says the delete cannot
fail, so `try!` is safe; launch, `sqlite3_open`, death, launch, Save is a run
in which it does, because `initDB` looks for the file and not for the table
(`HalfMadeForever` proves that nothing ever repairs it). `observers_left`: the
comment in viewDidDisappear of RealTimeDataBasic says that the observer is
deleted once the screen has gone; the deletion is commented out, so it stays
registered, and the next appearance adds another one and overwrites the only
handle.

**Exceptions the properties name.** Elsewhere the code does less than its text
says, and the property is stated with the exception, so that a reader finds it
and a run shows that there is no other:

* MemoNotes: `CountedRowsAreThere` excepts the time of a pop, in which the rows
  of the note just deleted may be asked for although they are gone (a trap if
  the table is laid out just then), and a row may have come that is not
  counted.
* AuthListener: "if nobody is signed in, show the login whatever happens".
  `LoginFollowsUser` excepts a listener whose first call came before the
  keychain was read and whose user signs out before the next notification
  (`misled`), and, where the login can be cancelled, a presentation that UIKit
  drops. The converse, no login over a user, is not promised by the code: a
  sign-in that the button or a cancelled login asked for may end while another
  login is up, which stays. So the property says only that such a user never
  came by the login that is up. A Facebook login that was cancelled without an
  error crashes at `AccessToken.current!`: `DidComplete` sets `crashed`, and
  every property is about the time until then.
* PersonPictures: `OneRequestPerUrl` and `ShownInTheEnd` except the URLs in
  `stolen` and the views in `excused`. `maximumActiveDownloads` is not an upper
  bound - a cancelled queued request takes back a slot it never held - so
  `NothingIsLeftOver` says only that the count comes back to zero.
* WritePipeline: `FailureIsTrue` lets the app hear of a failure also when the
  write was committed and only its answer could not be read; a comment in
  `HandleWriteError` speaks of a problem with the request alone. And it needs
  every answer the server gave before its status to have been handled, or a
  permanent error is put down to the wrong batch. `AcksBeforeStatus` assumes
  it. It is what gRPC's read loop does in the common case, but
  `GrpcStream::OnOperationFailed` finishes the call at the first completion
  that fails, be it a write's, and drops a read under way.
* GrpcStream: the buffered writer may still be given a write after Finish, in
  the window before the owner hears of the end; no rule of gRPC's that
  `TagsFollowTheRules` states is broken by it.
* MemoList: an empty memo cannot be added, but Modify with an emptied text
  field stores one; `ImplementsMemoStore` allows it.

**Bounds.** Three columns out of three make every order and every repetition
possible, and three inserts give a save a first, a middle and a last one to
lose. In LottoPick, 5 numbers and 3 picks leave fewer than a column needs, so a
pool that is not refilled shows; the code's 45, 6 and 5 are covered by the
proofs. In MemoNotes two notes suffice for a failed save next to a successful
one; three let two ids collide; `MaxListed` only stops scenes that reconnect
again and again and leaves room for one doubled list of two notes, or several
of one. In MemoList three rows are the least for which swapping and moving
differ; `MaxMemos` stops additions. In WritePipeline three writes and a
pipeline of two leave one batch outside it, and two users and two disruptions
allow an error, a change of user or a crash while another one is being dealt
with. Three writes in GrpcStream leave two buffered behind the active one. In
Observers two appearances make two observers, and two writes of others a newer
value over which an older one could be told. In AuthListener four appearances
are a launch, a login and two returns, room for a sign-in that outlives its
login; `MaxPending` only limits how many blocks may wait when the user asks for
a sign-in. In PersonPictures three downloads over one slot are one that runs,
one that waits and one that joins or cancels, and the two views are a cell,
which is reused, and a detail screen, which goes. Symmetry is used only for
safety, over columns, notes, texts, cells and people, none of which any module
tells apart. The bounds can be used up with nothing left to do, and a stream
may be gone: those cfgs switch the deadlock check off. The theorems of section
4 hold without these bounds.

**Fairness.** `FairSpec` of Lotto is weak fairness of `MainThread`, the steps a
handler takes by itself: once UIKit has called a handler, synchronous code runs
on. Nothing is assumed of the user, the system, or the outcome of calls. In
LottoPick the loop body is the whole program, so `WF(Next)` says the same.
`LottoPick.cfg` switches the deadlock check off because a finished draw stops.
The memo modules claim no liveness: every handler is a single step there. In
Observers both queues run what they hold, a broken connection is made again and
the service answers; in AuthListener the work queue and the main queue run and
UIKit ends the transitions it began, but no sign-in need ever end; in
GrpcStream gRPC gives the tags of an ended call back, the wait for them ends,
and the worker queue runs. In WritePipeline the worker queue handles what is
there, a reachable server answers, and the app that switched the network off
switches it on; the idle and health timers owe nothing, and disruptions are
finite. Its fairness is written out as `[]<>~enabled \/ []<><<step>>_vars`,
which is weak fairness with the enabling condition spelled out. PersonPictures
claims no liveness: with its cells reused at will nothing forces a picture to
arrive, so what should come in the end is stated of the states in which every
request has been handled. In no module does the user owe anything.

**What is assumed of code that is not here.** UIKit gives no touch to a screen
that is being pushed or popped, so that nobody taps Save twice; it presents
over a screen that shows nothing, ignores a presentation over another one, and
may do either while one is being dismissed. The Facebook SDK reports a
cancelled login with neither error nor token. The Realtime Database takes
requests in order, may answer a listen late, and pushes the change of a put
before it answers the put. The Firestore service handles the requests of a call
in order and ends it only with an error; a request that is under way when a
call breaks is lost or has been handled. gRPC gives back every tag of a call
that has ended.

## 4. What is proved

`LottoProofs` proves, for every set of columns, number of columns, and setting
of errors and kills, every safety property of both Lotto runs: `TypeCorrect`,
`HalfMadeStays`, `SavedColumns`, `StaleScreen`, `SavedPrefix`,
`TrapsOnlyHalfMade`, `LoadedIsStored`, and `StoreImplemented`. The assumptions
are the named ASSUMEs of `Lotto` and `FMDatabase` (`NumColumns` a positive
natural number, the switches Booleans).

The argument is one inductive invariant `IInv`, because none of the properties
is inductive alone. `ConnectionInv` ties `pc` to the connection: which steps
run with the database open, with the file or table known to exist, with a
result set open. `SaveInv` relates the table to the save under way: the history
`saved` is the array being saved, and the rows are a subsequence of what has
been offered so far. `ScreenInv` bounds the rows shown by the array except
during and after a load. Three more parts hold without errors only: `TrapInv`
(a death by trap means a half-made file), `PrefixInv` (the rows are exactly
what has been offered) and `LoadInv` (the array is what the cursor has passed).
The preservation proof has one step per action.

It ends with LottoPick: `PickTypeCorrect`, `ColumnsRight`, `PoolComplement` and
`PoolFilled`, for every `MaxNumber`, `PicksPerColumn` up to it, and
`NumColumns`; the invariant adds that pool and column are injective sequences
whose lengths add up to `MaxNumber`. `DrawMakesColumns` joins the two modules: a
draw that ended has made a value that `DoDraw` of Lotto may assign.

`MemoListProofs` proves `TypeCorrect`, `CopiesAlwaysAgree`, `CapturedRowsHold`
and `MemoStoreImplemented`, for any texts and any bound on the list. What the
properties lack to be inductive is `RowsHold`: a row is remembered only outside
editing mode, where no row moves. `moveRowAt` needs lemmas about `RemoveAt` and
`InsertAt` of `SequencesExt` (`RemovedType`, `InsertedType`, `CarriedRest`).

`MemoNotesProofs` proves `BackgroundSaved`, `ListedStored`, `DeletionsFinal`
and `RowsThere` (`CountedRowsAreThere`), with Core Data free to throw. The
invariant is that the context `Grows` from the store - it holds every stored
note with its id and its deletion - and equals it when nothing is pending; so a
save that succeeds, however late, only adds. `AfterSave` and `DetailSaves`
state this once for all handlers that save. `RowsThere` follows the rows from
the handler that changes them to the appearance that counts them again: a
deletion takes the selected note's own (`RowsDeleted`), a new note is the last
(`RowsInserted`), anything else, a save that throws included, changes none
(`RowsKept`).

`ListMirrored` and `IdsUnique` are about what has not thrown (`thrown`, a
history). The invariant is `Mirror`: as long as nothing throws, nothing is
pending, the list holds all that is stored, and each once until a scene comes
back (`FetchedAll`, `ListedCount`), so that the length of the list, which
`saveAction` takes for the new id, is above every id given out.
`NoteStoreImplemented` has no such condition: a save writes the one note it is
about, and the first that succeeds after one that threw is `CatchUp`
(`StoreCatchesUp`), which by `Grows` takes nothing back.

`AuthListenerProofs` proves `OnlyVisibleListens` and `LoginFollows`, that is
`LoginFollowsUser` (with `TypeCorrect`), for any users, any mixture of what the
apps' screens may do and any number of appearances. The invariant ties the
registered listeners to the life of the screen (`ScreenInv`), says that over a
user the login that is up has a block that will dismiss it, or did not ask for
that user's sign-in, and that a login has such a block only once its
presentation is complete (`LoginInv`), and that nothing is told before the
keychain is read but to the first listener (`LoadInv`). `HearInv` is the core:
while nobody is signed in and the screen shows nothing, a block on the main
queue will tell the listener, and the listener has not been told of nobody
before - the reason why it will then present the login rather than take the
block for an old one.

`GrpcStreamProofs` proves `TagsRight`, that is `TagsFollowTheRules`, for any
number of writes and messages. `SingleInv`: a tag is in gRPC or its completion
is posted, never both, never twice; so whoever runs a completion may issue its
tag again (`TakeHead`, `IssueSingle`, `BackSingle`). `WaitInv`: a worker that
waits for gRPC has cancelled what was posted, and a wait that ends the stream
follows a finished call or finds nothing out; `Release` therefore finds no
completion left. `MessageInv`: what gRPC has read is handed over, or is the one
message posted, or was cancelled with the call, whence the order of messages.

`PersonPicturesProofs` proves `OnlyItsPicture`, that is `LatePicturesIgnored`,
for any people, cells, pictures, detail screens and bounds. AlamofireImage's
completion compares URLs and not downloads; that this suffices rests on
`ReceiptInv` - through every reuse of its cell a receipt's request is for the
picture of the person the cell is for - which in turn needs `HandlerInv` for
the requests a view joins, `SettingInv` for the time inside `setImage`, and
`ScreenInv` for the controllers kept alive by a closure. `PictureAssumption`
says what a picture is and that a detail screen is no cell. `DownloadsServed`
proves `DownloadsAreServed` from a second invariant, `WorkInv`, kept beside the
first (`WorkInvariant`). Requests are numbered in the order they are made and
only an answered one has a job (`FreshInv`); a pending request has its handler
unless a job took it, and a handler's request has not been through its job
(`RequestInv`). The slots are a count over all requests (`SlotInv`): those taken
are the requests made, less those that wait and those freed, and while some
wait, the slots in use with the jobs about to start one are all there are -
which is why, with every job done, none can still wait. An operation is with
a handler, with a job or on the main queue, once, and otherwise completed
(`OpsInv`, through `Apart`); a receipt's operation is its view's own, which is
why a view cancels nothing else (`OwnInv`). `CellInv`: a cell has its picture,
is excused, or its operation is in flight, and where nothing is in flight any
more the first two remain.

`WritePipelineProofs` proves all that the run `write` checks of safety, for any
users, any number of writes, waits and disruptions and a pipeline of any size:
`PipelineStaysInStep` (`PipelineInStep`), `OutcomesStayTrue`
(`OutcomesAreTrue`), `WaitersAreToldTheTruth` (`WokenWhenDone`) and
`PipelineImplementsQueue` (`ImplementsDurableWrites`). The argument has four
parts. A set of batches with different ids has one order (`OrderExists`,
`OrderUnique`), to which a new id appends (`ByIdAdd`) and from whose front the
oldest is taken (`ByIdRemoveFirst`). Each operator on the client is given by
the fields it changes, in a state in which no assertion fails (`FillDoes`,
`SettleDoes`, `CloseQuietly`, `CloseRetries`, `CloseRefuses`); that the
handlers call one another is then a matter of composing these. `ClientOK`, the
invariant of the process, adds what `PipelineInStep` lacks to be inductive: ids
are not used again (`NumbersOK`, which a crash between two halves of a handler
must not break: `NextIdIsNew`), a token is awaited exactly while the stream
starts (`StreamOK`), before the handshake at most the handshake is under way
(`Greeting`), and nothing is under way unless the stream is open (`Joined`).
Every step keeps it and has one of four effects on the rest (`StepHasEffect`):
it leaves the queues alone, adds a batch, settles the front of the pipeline
(`FrontStep`: a result, a refusal, or the half of either before a crash), or is
the server's. Each effect keeps what makes `OutcomesAreTrue` inductive: the
order of ids is the order of the writes (`QueueOK`), an answer under way is
true (`AnswersTrue`), whoever is blamed for the end of a stream was refused or
had an answer that could not be read (`BlameIsTrue`), and no queued write has
been overtaken at the server or in the app (`NoneOvertaken`). The last also
says why the app hears of the front only while it has not heard of it, which
the refinement needs; `WaitersOK`, by which a waiter has a number of its own
and waits for the highest of the ids of its writes, all made by the user whose
queue is in use, is what `WokenWhenDone` needs - also where the process dies
between the waking and the removal of the batch, since the server has decided
on it by then. `AcksBeforeStatus` is used for `FailureIsTrue` alone: everything
else holds whichever way the status comes.

`ObserversProofs` proves `ShownIsTrue` (`ShownTrue`) and `NeverOlder`
(`ToldNeverOlder`) for any number of appearances, taps, writes of other clients
and broken connections, from `BoundsAssumption` alone. Neither says anything of
what is under way, so the invariant (`IInv`) is about the queues.
`PutInv`: a pending removal is outstanding or its answer is held back, and on a
connection its put or the answer is under way, one of them and once - what
`RestorePuts` must send again and no more. `SessionInv`: the listen of a
connection is with the service or answered behind the data it asked for, which
is what `unacked` counts. `LatestInv`: what arrives last is the server's value.
`ErasedInv` is why holding back answers works: behind the answer to a removal
there is no older data, and data from after the removal comes before the
answer, or else the answer to the listen, for which the answer is held back,
still comes and brings it. `FlowInv` and `Reported` say that values arrive in
the order they were written in, over reconnections too; `RisingInv` carries
that order through the main queue to the observers, and `ToldInv` that each
observer will know what the client shows once that queue has run. When nothing
is under way the four conclude `ToldTheTruth`. Every operator on the connection
is first given by the fields it changes (the lemmas called `...Does`), then the
step keeps the connection's invariants (`...Keeps`), raises only what it may
(`...Raises`), and keeps the whole (`...Step`). The loop over the answers passed
on together, `Acked`, is right for a list of any length by the first turn at
which it would fail (`AckLoopExists`, `AckedDoes`).

Every invariant proved was checked with TLC first.

Only model-checked are the liveness properties, which are out of this prover's
reach: `HandlersEnd`, `DrawEnds`, `QueueIsServed`, `ObserverIsServed` (of
GrpcStream), `TapsAnswered` and `LoginComesAndLeaves`. Everything else that a
passing run checks is proved.

## 5. What is not modelled

* Layout and static content (`NaverWebtoon*`, `TravelApp`, `MusicApp`,
  `CollectionViewExample`, ...), the two calculators (one floating-point formula
  each), empty skeletons.
* `sendMessage`, `FireStorageBasic`: each has a handler whose outcome is
  surprising (a newline at every multiple of 25 characters, deletions included;
  an upload under the last known name; downloads into one image view), but
  nothing in the repository says what the outcome should be, so there is no
  property to state, and they are not among the hazards of `PROJECT.json`.
* `BasicSequence` and `UIControlBasic` show an intro once, whose timer presents
  a main view nothing dismisses; `ScreenChangeExample` and `NavigationBarBasic`
  are screens without data.
* The rest of the pods: BoringSSL, gRPC-Core, Abseil, leveldb's own files, the
  watch stream and the views of Firestore, Firebase's other products. They are
  1.9 million lines of vendored third-party C and C++, several copies of each,
  against a few thousand lines of app code in Swift; the map therefore covers a
  vanishing share of the repository's lines, whatever is modelled of the apps.
* Abstracted from what is modelled: the digits of numbers, titles as distinct
  from the texts of notes, dates as distinct from whether they are set, log
  output, what documents hold, the stream token, lengths of delays, revoked
  listens, the write and the ordered query of RealTimeDataBasic's viewDidLoad,
  token refresh, the providers' own screens inside the login and its linking of
  accounts. UserDefaults is taken to survive the death of the process.
