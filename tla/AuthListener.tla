----------------------------- MODULE AuthListener -----------------------------
(***************************************************************************)
(* FirebaseBasic and AuthUIExample: a screen that listens for the user of  *)
(* FIRAuth while it is visible, greets who is signed in and presents the   *)
(* login over itself when nobody is.  Handlers and listeners run on the    *)
(* main queue; FIRAuth loads and changes its user on a work queue and      *)
(* tells the listeners through blocks on the main queue.  A sign-in is a   *)
(* call of the network: it ends or fails at any later time, whatever has   *)
(* become of the login that asked for it.                                  *)
(*                                                                         *)
(* Which of the apps it is, is chosen at the beginning.                    *)
(***************************************************************************)
EXTENDS Integers, Sequences, FiniteSets

CONSTANTS Users, Named,       \* who can sign in; who of them has a displayName
          Nobody,             \* no user
          Apps,               \* the apps, by what their screens do
          MaxAppearances,     \* bound: how often the screen comes up
          MaxPending          \* bound: blocks waiting when a sign-in is asked for

(* removesEarly: the listener goes in viewWillDisappear; hidesCancel: the  *)
(* extension that removes the cancel button; the two buttons.              *)
AppKinds == [removesEarly : BOOLEAN, hidesCancel : BOOLEAN,
             hasSignOut : BOOLEAN, hasFacebook : BOOLEAN]

ASSUME AuthAssumption == /\ Named \subseteq Users /\ Nobody \notin Users
                         /\ MaxAppearances \in Nat /\ MaxPending \in Nat
                         /\ Apps \subseteq AppKinds

Handles == 1..MaxAppearances

(* Who asks for a sign-in: a login by its number, or the Facebook button.  *)
Button == 0

VARIABLES app,         \* which of the apps this is
          currentUser, \* of FIRAuth, in memory
          saved,       \* the user in the keychain
          loaded,      \* the keychain was read
          lastNotified,\* whose token the listeners were told last
          listeners,   \* handles registered with the notification center
          heard,       \* per handle: called before, and with whom
          handle,      \* the screen's handle, 0 before the first
          signingIn,   \* who waits for a sign-in to end: one of each at a time
          signedInBy,  \* history: who asked for the sign-in of the current user
          main,        \* blocks on the main queue
          screen,      \* "gone", "appearing", "visible", "disappearing"
          shown,       \* over the screen: "nothing", "welcome", "login", "leaving"
          waiting,     \* what UIKit presents once the login has left
          logins,      \* how many logins were presented; the number of the last
          dialog,      \* Facebook's own dialog is up
          accessToken, \* Facebook's AccessToken.current is there
          crashed,
          misled       \* history: the first call told of nobody while the keychain
                       \* held a user, and no notification has run since: "told",
                       \* and if the user signed out meanwhile, "signed out"

auth == <<currentUser, saved, loaded, lastNotified, signedInBy>>
center == <<listeners, heard, handle>>
ui == <<screen, shown, waiting, logins>>
facebook == <<dialog, accessToken, crashed>>
vars == <<app, auth, signingIn, center, main, ui, facebook, misled>>

Init == /\ app \in Apps /\ misled = "no"
        /\ saved \in Users \cup {Nobody}
        /\ currentUser = Nobody /\ loaded = FALSE /\ lastNotified = Nobody
        /\ signingIn = {} /\ signedInBy = {}
        /\ listeners = {} /\ heard = [h \in Handles |-> [called |-> FALSE, who |-> Nobody]]
        /\ handle = 0 /\ main = <<>>
        /\ screen = "gone" /\ shown = "nothing" /\ waiting = "nothing" /\ logins = 0
        /\ dialog = FALSE /\ accessToken = FALSE /\ crashed = FALSE

-------------------------------------------------------------------------------
(* FIRAuth, on its work queue. *)

(* updateCurrentUser: the user changes, and if the token did, a block that *)
(* posts the notification goes to the main queue, before then.  Whoever    *)
(* comes has a token of his own.                                           *)
UpdateCurrentUser(user, by, then) ==
    /\ currentUser' = user
    /\ signedInBy' = by
    /\ lastNotified' = user
    /\ main' = main \o (IF user = Nobody /\ lastNotified = Nobody THEN <<>>
                         ELSE <<[kind |-> "post"]>>) \o then

Load == /\ ~loaded /\ ~crashed
        /\ loaded' = TRUE
        /\ UpdateCurrentUser(saved, {}, <<>>)
        /\ UNCHANGED <<app, saved, signingIn, center, ui, facebook, misled>>

(* signInWithCredential: the call waits for the keychain to be read.  The  *)
(* server or the keychain may refuse, which is reported and nothing more;  *)
(* or FIRAuth has a user, and then the login that asked learns of it.      *)
SignInFails(by) == /\ by \in signingIn /\ loaded /\ ~crashed
                   /\ signingIn' = signingIn \ {by}
                   /\ UNCHANGED <<app, auth, center, main, ui, facebook, misled>>

SignInEnds(by) ==
    /\ by \in signingIn /\ loaded /\ ~crashed
    /\ signingIn' = signingIn \ {by}
    /\ \E u \in Users :
          /\ saved' = u
          /\ UpdateCurrentUser(u, {by}, IF by = Button THEN <<>>
                                       ELSE <<[kind |-> "signedIn", login |-> by]>>)
    /\ UNCHANGED <<app, loaded, center, ui, facebook, misled>>

-------------------------------------------------------------------------------
(* The main queue. *)

(* UIKit presents over a screen that shows nothing.  While the login is    *)
(* being dismissed it may present afterwards or not at all; over something *)
(* else it ignores the call.                                               *)
Present(what) ==
    \/ /\ shown = "nothing"
       /\ shown' = what
       /\ screen' = IF what = "login" THEN "disappearing" ELSE screen
       /\ logins' = IF what = "login" THEN logins + 1 ELSE logins
       /\ UNCHANGED waiting
    \/ /\ shown = "leaving"
       /\ waiting' \in {waiting} \cup (IF waiting = "nothing" THEN {what} ELSE {})
       /\ UNCHANGED <<screen, shown, logins>>
    \/ shown \in {"welcome", "login"} /\ UNCHANGED ui

(* The app's listener, which asks for the user itself. *)
Listener(user) == CASE user = Nobody -> Present("login")
                    [] user \in Named -> Present("welcome")
                    [] OTHER -> UNCHANGED ui

(* addAuthStateDidChangeListener wraps it: it is called the first time and *)
(* when the user is another one.                                           *)
ShouldCall(called, user) == {h \in called : ~heard[h].called \/ heard[h].who # user}

(* A mutant: the app goes by the user it is passed. *)
CallTrusting(called, told, user) ==
    /\ heard' = [h \in Handles |-> IF h \in called THEN [called |-> TRUE, who |-> told] ELSE heard[h]]
    /\ IF ShouldCall(called, told) # {} THEN Listener(told) ELSE UNCHANGED ui

Call(called, told, user) ==
    /\ heard' = [h \in Handles |-> IF h \in called THEN [called |-> TRUE, who |-> told] ELSE heard[h]]
    /\ IF ShouldCall(called, told) # {} THEN Listener(user) ELSE UNCHANGED ui

Block(kind) == main # <<>> /\ Head(main).kind = kind /\ ~crashed

(* The first call, whether or not the listener was removed.  It passes     *)
(* _currentUser without waiting for the work queue; the listener's own     *)
(* question waits, so that a keychain not yet read is read in between.     *)
InitialCall ==
    /\ Block("initial")
    /\ Call({Head(main).handle}, currentUser, IF loaded THEN currentUser ELSE saved)
    /\ loaded' = TRUE
    /\ IF loaded THEN main' = Tail(main) /\ UNCHANGED <<currentUser, lastNotified, signedInBy>>
       ELSE /\ currentUser' = saved /\ lastNotified' = saved /\ signedInBy' = {}
            /\ main' = Tail(main) \o (IF saved = Nobody THEN <<>> ELSE <<[kind |-> "post"]>>)
    /\ misled' = IF ~loaded /\ saved # Nobody THEN "told" ELSE misled
    /\ UNCHANGED <<app, saved, signingIn, listeners, handle, facebook>>

Post == /\ Block("post")
        /\ Call(listeners, currentUser, currentUser)
        /\ main' = Tail(main)
        /\ misled' = IF misled = "told" THEN "no" ELSE misled
        /\ UNCHANGED <<app, auth, signingIn, listeners, handle, facebook>>

(* A mutant: the login is not dismissed. *)
SignedInStays == /\ Block("signedIn") /\ main' = Tail(main)
                 /\ UNCHANGED <<app, auth, signingIn, center, ui, facebook, misled>>

(* completeSignInWithResult dismisses the login that asked, if it is still *)
(* presented: another one stays.                                           *)
SignedIn == /\ Block("signedIn")
            /\ main' = Tail(main)
            /\ shown' = IF shown = "login" /\ Head(main).login = logins THEN "leaving" ELSE shown
            /\ UNCHANGED <<app, auth, signingIn, center, screen, waiting, logins, facebook, misled>>

-------------------------------------------------------------------------------
(* The screen's callbacks. *)

ViewWillAppear ==
    /\ screen = "gone" /\ shown \in {"nothing", "leaving"}
    /\ handle < MaxAppearances /\ ~crashed
    /\ screen' = "appearing"
    /\ handle' = handle + 1
    /\ listeners' = listeners \cup {handle + 1}
    /\ main' = Append(main, [kind |-> "initial", handle |-> handle + 1])
    /\ UNCHANGED <<app, auth, signingIn, heard, shown, waiting, logins, facebook, misled>>

(* The login has gone, and with it goes what UIKit put off. *)
ViewDidAppear ==
    /\ screen = "appearing" /\ ~crashed
    /\ shown' = IF shown = "leaving" THEN waiting ELSE shown
    /\ screen' = IF shown' = "login" THEN "disappearing" ELSE "visible"
    /\ logins' = IF shown' = "login" THEN logins + 1 ELSE logins
    /\ waiting' = "nothing"
    /\ UNCHANGED <<app, auth, signingIn, center, main, facebook, misled>>

(* A mutant: the listener stays registered when its screen has gone. *)
RemovedNever(early) == UNCHANGED listeners

(* removeStateDidChangeListener(handle!), in the callback the app chose. *)
Removed(early) == listeners' = IF early = app.removesEarly THEN listeners \ {handle} ELSE listeners

ViewWillDisappear == /\ screen = "disappearing" /\ ~crashed
                     /\ Removed(TRUE)
                     /\ screen' = "disappearing, told"
                     /\ UNCHANGED <<app, auth, signingIn, heard, handle, main, shown, waiting, logins,
                                    facebook, misled>>

ViewDidDisappear == /\ screen = "disappearing, told" /\ ~crashed
                    /\ Removed(FALSE)
                    /\ screen' = "gone"
                    /\ UNCHANGED <<app, auth, signingIn, heard, handle, main, shown, waiting, logins,
                                    facebook, misled>>

-------------------------------------------------------------------------------
(* The user. *)

Idle == screen = "visible" /\ shown = "nothing" /\ ~dialog /\ ~crashed

DismissWelcome == /\ shown = "welcome" /\ screen = "visible" /\ ~crashed
                  /\ shown' = "nothing"
                  /\ UNCHANGED <<app, auth, signingIn, center, main, screen, waiting, logins,
                                 facebook, misled>>

(* try? authUI?.signOut(); when the keychain refuses, nothing happens. *)
doSignOut == /\ app.hasSignOut /\ Idle /\ loaded /\ currentUser # Nobody
             /\ saved' = Nobody /\ UpdateCurrentUser(Nobody, {}, <<>>)
             /\ misled' = IF misled = "told" THEN "signed out" ELSE misled
             /\ UNCHANGED <<app, loaded, signingIn, center, ui, facebook>>

(* The bound on appearances leaves room for the screen to come back.       *)
LoginIsUp == shown = "login" /\ screen = "gone" /\ handle < MaxAppearances /\ ~crashed

(* A provider of the login has got a credential and hands it to FIRAuth.   *)
SignIn == /\ LoginIsUp /\ logins \notin signingIn /\ Len(main) < MaxPending
          /\ signingIn' = signingIn \cup {logins}
          /\ UNCHANGED <<app, auth, center, main, ui, facebook, misled>>

LeftBarButtonItem == IF app.hidesCancel THEN "none" ELSE "cancel"

CancelAuthorization == /\ LoginIsUp /\ LeftBarButtonItem = "cancel"
                       /\ shown' = "leaving"
                       /\ UNCHANGED <<app, auth, signingIn, center, main, screen, waiting, logins,
                                      facebook, misled>>

(* The Facebook button logs out when there is a token, and otherwise opens *)
(* the dialog, behind which everything else goes on.                       *)
FacebookLogOut == /\ app.hasFacebook /\ Idle /\ accessToken
                  /\ accessToken' = FALSE
                  /\ UNCHANGED <<app, auth, signingIn, center, main, ui, dialog, crashed, misled>>

FacebookLogIn == /\ app.hasFacebook /\ Idle /\ ~accessToken
                 /\ Button \notin signingIn /\ Len(main) < MaxPending
                 /\ dialog' = TRUE
                 /\ UNCHANGED <<app, auth, signingIn, center, main, ui, accessToken, crashed, misled>>

(* The dialog ends.  Cancelled, the SDK reports no error and leaves no     *)
(* token, and AccessToken.current! traps.                                  *)
DidComplete(token, error) ==
    /\ dialog /\ ~crashed /\ dialog' = FALSE
    /\ accessToken' = token
    /\ crashed' = (~error /\ ~token)
    /\ signingIn' = IF ~error /\ token THEN signingIn \cup {Button} ELSE signingIn
    /\ UNCHANGED <<app, auth, center, main, ui, misled>>

(* The process ends and is started again; the keychain stays. *)
Relaunch == /\ currentUser' = Nobody /\ loaded' = FALSE /\ lastNotified' = Nobody
            /\ signingIn' = {} /\ signedInBy' = {}
            /\ listeners' = {} /\ heard' = [h \in Handles |-> [called |-> FALSE, who |-> Nobody]]
            /\ handle' = 0 /\ main' = <<>>
            /\ screen' = "gone" /\ shown' = "nothing" /\ waiting' = "nothing" /\ logins' = 0
            /\ dialog' = FALSE /\ crashed' = FALSE /\ misled' = "no"
            /\ UNCHANGED <<saved, app, accessToken>>

Lifecycle == ViewWillAppear \/ ViewDidAppear \/ ViewWillDisappear \/ ViewDidDisappear
RunMain == InitialCall \/ Post \/ SignedIn
User == \/ DismissWelcome \/ doSignOut \/ SignIn \/ CancelAuthorization
        \/ FacebookLogOut \/ FacebookLogIn
Facebook == \E token, error \in BOOLEAN : ~(error /\ token) /\ DidComplete(token, error)
Network == \E by \in signingIn : SignInFails(by) \/ SignInEnds(by)
Next == Load \/ Network \/ RunMain \/ Lifecycle \/ User \/ Facebook \/ Relaunch

Spec == Init /\ [][Next]_vars

(* The work queue and the main queue run what they hold, and UIKit         *)
(* finishes the transitions it has begun.  The user owes nothing, and that *)
(* a sign-in ever ends is not needed.                                      *)
FairSpec == Spec /\ WF_vars(Load) /\ WF_vars(RunMain) /\ WF_vars(Lifecycle)

-------------------------------------------------------------------------------
(* Properties. *)

Blocks == [kind : {"initial"}, handle : Handles] \cup [kind : {"post"}]
            \cup [kind : {"signedIn"}, login : Nat \ {Button}]

(* What the variables hold. *)
TypeOK == /\ {currentUser, saved, lastNotified} \subseteq Users \cup {Nobody}
          /\ loaded \in BOOLEAN
          /\ listeners \subseteq Handles /\ handle \in 0..MaxAppearances
          /\ heard \in [Handles -> [called : BOOLEAN, who : Users \cup {Nobody}]]
          /\ signingIn \subseteq Nat /\ signedInBy \subseteq Nat
          /\ main \in Seq(Blocks)
          /\ screen \in {"gone", "appearing", "visible", "disappearing", "disappearing, told"}
          /\ shown \in {"nothing", "welcome", "login", "leaving"}
          /\ waiting \in {"nothing", "welcome", "login"} /\ logins \in Nat
          /\ dialog \in BOOLEAN /\ accessToken \in BOOLEAN /\ crashed \in BOOLEAN
          /\ app \in Apps /\ misled \in {"no", "told", "signed out"}

(* "The listener is needed only while the screen shows": none is left when *)
(* it has gone, and while it is visible there is the last one alone, or a  *)
(* change would be reported to screens that are covered.                   *)
ListensWhileVisible == /\ screen = "gone" => listeners = {}
                       /\ screen = "visible" => listeners = {handle}

(* Nothing is left to happen by itself. *)
Settled == /\ main = <<>> /\ loaded /\ handle > 0 /\ ~crashed
           /\ screen \in {"visible", "gone"} /\ shown # "leaving"

(* "If nobody is signed in, show the login whatever happens": once all     *)
(* that was under way on the main queue has run, the login is up if nobody *)
(* is signed in - no presentation of it was ignored, no change was taken   *)
(* for one the listener had been told.  Two exceptions: where the login    *)
(* can be cancelled UIKit may drop the next one, and who signs out between *)
(* the first call and the notification of a keychain that was read late is *)
(* not missed.  Where it stands over a user it is never the login that     *)
(* signed that user in, nor one presented over a user: his sign-in was     *)
(* asked for by the button, or by an earlier login, and ended meanwhile,   *)
(* and line 332 of FUIAuth.m dismisses only the login that asked.          *)
LoginFollowsUser ==
    Settled => /\ currentUser # Nobody /\ shown = "login" => \E by \in signedInBy : by # logins
               /\ currentUser = Nobody /\ app.hidesCancel /\ misled # "signed out"
                     => shown = "login"

(* With the same exceptions the login comes up in the end after a sign-out *)
(* or at a launch; and the one that signed somebody in leaves, whatever    *)
(* other sign-ins end and whoever they bring - unless the process has      *)
(* crashed in DidComplete.                                                 *)
LoginComesAndLeaves ==
    /\ (currentUser = Nobody /\ handle > 0 /\ app.hidesCancel)
          ~> (shown = "login" \/ currentUser # Nobody \/ handle = 0 \/ misled = "signed out")
    /\ (shown = "login" /\ logins \in signedInBy) ~> (shown # "login" \/ crashed)

===============================================================================
