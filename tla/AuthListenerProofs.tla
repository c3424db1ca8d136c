-------------------------- MODULE AuthListenerProofs --------------------------
(***************************************************************************)
(* The two safety properties of AuthListener, for every set of users, any  *)
(* mixture of the apps' choices and any number of appearances.  That the   *)
(* login is up when nobody is signed in rests on what is still to come:    *)
(* while it is not up, a block on the main queue will tell the listener,   *)
(* and the listener was not told of nobody before.  That it does not stand *)
(* over the user it signed in rests on the block that will dismiss it.     *)
(***************************************************************************)
EXTENDS AuthListener, SequenceTheorems, TLAPS

(* The elements of a queue.                                                *)
Elements(s) == {s[i] : i \in 1..Len(s)}

(* One more element at the end.                                            *)
LEMMA ElementsAppend ==
    ASSUME NEW S, NEW s \in Seq(S), NEW x \in S
    PROVE  /\ Append(s, x) \in Seq(S)
           /\ Elements(Append(s, x)) = Elements(s) \cup {x}
BY DEF Elements

(* The two ways to write an addition.                                      *)
LEMMA ConcatOne ==
    ASSUME NEW S, NEW s \in Seq(S), NEW x \in S
    PROVE  s \o <<x>> = Append(s, x) /\ s \o <<>> = s
<1>1. s \o <<>> = s
  BY ConcatEmptySeq
<1>2. s \o <<x>> = Append(s, x)
  OBVIOUS
<1> QED
  BY <1>1, <1>2

(* The first, and those behind it.                                         *)
LEMMA ElementsTail ==
    ASSUME NEW S, NEW s \in Seq(S), s # <<>>
    PROVE  /\ Head(s) \in S
           /\ Tail(s) \in Seq(S)
           /\ Elements(s) = {Head(s)} \cup Elements(Tail(s))
<1>1. Len(s) \in Nat \ {0} /\ Len(Tail(s)) = Len(s) - 1 /\ Head(s) = s[1]
  OBVIOUS
<1>2. \A i \in 1..Len(Tail(s)) : Tail(s)[i] = s[i + 1] /\ i + 1 \in 1..Len(s)
  BY <1>1
<1>3. ASSUME NEW x \in Elements(s) PROVE x = Head(s) \/ x \in Elements(Tail(s))
  <2>1. PICK i \in 1..Len(s) : x = s[i]
    BY <1>3 DEF Elements
  <2>2. CASE i = 1
    BY <2>1, <2>2, <1>1
  <2>3. CASE i # 1
    <3>1. i - 1 \in 1..Len(Tail(s)) /\ Tail(s)[i - 1] = x
      BY <2>1, <2>3, <1>1, <1>2
    <3> QED
      BY <3>1 DEF Elements
  <2> QED
    BY <2>2, <2>3
<1>4. Elements(Tail(s)) \subseteq Elements(s)
  BY <1>2 DEF Elements
<1>5. Head(s) \in Elements(s)
  BY <1>1 DEF Elements
<1> QED
  BY <1>1, <1>3, <1>4, <1>5

In(kind) == \E b \in Elements(main) : b.kind = kind
SignedInBlock(n) == [kind |-> "signedIn", login |-> n]
Dismissed(n) == SignedInBlock(n) \in Elements(main)
InitialIn(h) == \E b \in Elements(main) : b.kind = "initial" /\ b.handle = h

(* The listener is registered from one callback to the other.              *)
Held == \/ screen \in {"appearing", "visible", "disappearing"}
        \/ screen = "disappearing, told" /\ ~app.removesEarly

(* What is over the screen follows the screen's own life.                  *)
ScreenInv ==
    /\ listeners = IF Held THEN {handle} ELSE {}
    /\ handle = 0 => screen = "gone" /\ shown = "nothing"
    /\ screen = "gone" /\ handle > 0 => shown \in {"login", "leaving"}
    /\ screen \in {"disappearing", "disappearing, told"} => shown = "login"
    /\ shown = "login" => screen \in {"disappearing", "disappearing, told", "gone"}
    /\ shown = "leaving" => screen \in {"gone", "appearing"}
    /\ waiting # "nothing" => shown = "leaving"

(* Who is signed in under the login came by somebody else, or a block will *)
(* dismiss it, which a login gets only when its presentation is complete.  *)
LoginInv ==
    /\ In("post") \/ In("signedIn") \/ shown # "nothing" => loaded
    /\ \A by \in signingIn \cup signedInBy : by <= logins
    /\ \A b \in Elements(main) : b.kind = "signedIn" => b.login <= logins
    /\ shown = "login" => logins > 0
    /\ shown = "login" /\ (logins \in signingIn \/ Dismissed(logins)) => screen = "gone"
    /\ shown = "login" /\ Dismissed(logins) => currentUser # Nobody
    /\ shown = "login" /\ currentUser # Nobody
         => Dismissed(logins) \/ \E by \in signedInBy : by # logins
    /\ waiting = "login" /\ currentUser # Nobody => signedInBy # {}

(* Before the keychain is read, at most one appearance has begun.          *)
LoadInv ==
    /\ lastNotified = currentUser
    /\ ~loaded => currentUser = Nobody /\ misled = "no" /\ handle <= 1
    /\ ~loaded /\ handle > 0 => InitialIn(handle) /\ ~heard[handle].called
    /\ \A b \in Elements(main) : b.kind = "initial" => b.handle <= handle
    /\ \A h \in Handles : h > handle => ~heard[h].called

KnowsOfNobody == heard[handle].called /\ heard[handle].who = Nobody

(* A change the listener has not heard of is on its way.                   *)
HearInv ==
    /\ shown = "welcome" \/ waiting = "welcome" => currentUser # Nobody
    /\ app.hidesCancel /\ shown = "leaving" => currentUser # Nobody
    /\ misled = "told" => loaded /\ currentUser # Nobody
    /\ app.hidesCancel /\ handle > 0 /\ screen \in {"appearing", "visible"} /\ KnowsOfNobody
         => misled # "no"
    /\ app.hidesCancel /\ misled # "signed out" /\ loaded
         /\ handle > 0 /\ shown = "nothing" /\ currentUser = Nobody
         => (InitialIn(handle) \/ In("post")) /\ ~KnowsOfNobody

IInv == TypeOK /\ ScreenInv /\ LoginInv /\ LoadInv /\ HearInv

-------------------------------------------------------------------------------
(* What the steps do to the queue and to what is told. *)

(* The elements of the queue are blocks.                                   *)
LEMMA AreBlocks ==
    ASSUME TypeOK
    PROVE  /\ main \in Seq(Blocks)
           /\ \A b \in Elements(main) : b \in Blocks
<1>1. main \in Seq(Blocks)
  BY DEF TypeOK
<1> QED
  BY <1>1 DEF Elements

(* What a block of each kind is.                                           *)
LEMMA BlockKinds ==
    /\ [kind |-> "post"] \in Blocks
    /\ \A n \in Nat \ {0} : SignedInBlock(n) \in Blocks
    /\ \A b \in Blocks : /\ b.kind = "signedIn" => b.login \in Nat \ {0} /\ b = SignedInBlock(b.login)
                         /\ b.kind = "initial" => b.handle \in Handles
    /\ \A n : SignedInBlock(n).kind = "signedIn" /\ SignedInBlock(n).login = n
<1>1. [kind |-> "post"] \in Blocks
  BY DEF Blocks
<1>2. \A n \in Nat \ {0} : SignedInBlock(n) \in Blocks
  BY DEF Blocks, SignedInBlock, Button
<1>3. ASSUME NEW b \in Blocks
      PROVE  /\ b.kind = "signedIn" => b.login \in Nat \ {0} /\ b = SignedInBlock(b.login)
             /\ b.kind = "initial" => b.handle \in Handles
  BY DEF Blocks, SignedInBlock, Button
<1>4. \A n : SignedInBlock(n).kind = "signedIn" /\ SignedInBlock(n).login = n
  BY DEF SignedInBlock
<1> QED
  BY <1>1, <1>2, <1>3, <1>4

(* A change of token adds its notification.                                *)
Told(user) == ~(user = Nobody /\ lastNotified = Nobody)
Posted(user) == main \o (IF Told(user) THEN <<[kind |-> "post"]>> ELSE <<>>)

LEMMA PostedMain ==
    ASSUME TypeOK, NEW user
    PROVE  /\ Posted(user) \in Seq(Blocks)
           /\ \A b : b \in Elements(Posted(user))
                     <=> b \in Elements(main) \/ (Told(user) /\ b = [kind |-> "post"])
<1> DEFINE post == [kind |-> "post"]
<1>1. main \in Seq(Blocks) /\ post \in Blocks
  BY AreBlocks, BlockKinds
<1>2. Posted(user) = IF Told(user) THEN main \o <<post>> ELSE main \o <<>>
  BY DEF Posted
<1> HIDE DEF post
<1>3. Posted(user) = IF Told(user) THEN Append(main, post) ELSE main
  BY <1>1, <1>2, ConcatOne
<1>4. Append(main, post) \in Seq(Blocks) /\ Elements(Append(main, post)) = Elements(main) \cup {post}
  BY <1>1, ElementsAppend
<1>5. CASE Told(user)
  BY <1>3, <1>4, <1>5 DEF post
<1>6. CASE ~Told(user)
  BY <1>1, <1>3, <1>6
<1> QED
  BY <1>5, <1>6

(* A user who comes without a login's asking, or goes.                     *)
LEMMA UpdatedAlone ==
    ASSUME TypeOK, NEW user, NEW by, UpdateCurrentUser(user, by, <<>>)
    PROVE  /\ main' \in Seq(Blocks)
           /\ \A b : b.kind # "post" => (b \in Elements(main') <=> b \in Elements(main))
           /\ In("post") \/ Told(user) => In("post")'
           /\ currentUser' = user /\ lastNotified' = user /\ signedInBy' = by
<1>1. main' = Posted(user) \o <<>> /\ currentUser' = user /\ lastNotified' = user /\ signedInBy' = by
  BY DEF UpdateCurrentUser, Posted, Told
<1>2. /\ Posted(user) \in Seq(Blocks)
      /\ \A b : b \in Elements(Posted(user))
                <=> b \in Elements(main) \/ (Told(user) /\ b = [kind |-> "post"])
  BY PostedMain
<1>3. main' = Posted(user)
  BY <1>1, <1>2, ConcatEmptySeq
<1>4. \A b : b.kind # "post" => (b \in Elements(main') <=> b \in Elements(main))
  BY <1>2, <1>3
<1>5. In("post") \/ Told(user) => In("post")'
  <2>1. Told(user) => [kind |-> "post"] \in Elements(main') /\ [kind |-> "post"].kind = "post"
    BY <1>2, <1>3
  <2>2. \A b \in Elements(main) : b \in Elements(main')
    BY <1>2, <1>3
  <2> QED
    BY <2>1, <2>2, Zenon DEF In
<1> QED
  BY <1>1, <1>2, <1>3, <1>4, <1>5

(* A user whom a login asked for, which will be dismissed.                 *)
LEMMA UpdatedMain ==
    ASSUME TypeOK, NEW user, NEW by, NEW n \in Nat \ {0},
           UpdateCurrentUser(user, by, <<SignedInBlock(n)>>)
    PROVE  /\ main' \in Seq(Blocks)
           /\ \A b : b.kind # "post"
                   => (b \in Elements(main') <=> b \in Elements(main) \/ b = SignedInBlock(n))
           /\ currentUser' = user /\ lastNotified' = user /\ signedInBy' = by
<1>1. main' = Posted(user) \o <<SignedInBlock(n)>>
      /\ currentUser' = user /\ lastNotified' = user /\ signedInBy' = by
  BY DEF UpdateCurrentUser, Posted, Told
<1>2. /\ Posted(user) \in Seq(Blocks)
      /\ \A b : b \in Elements(Posted(user))
                <=> b \in Elements(main) \/ (Told(user) /\ b = [kind |-> "post"])
  BY PostedMain
<1>3. SignedInBlock(n) \in Blocks
  BY BlockKinds
<1>4. main' \in Seq(Blocks) /\ Elements(main') = Elements(Posted(user)) \cup {SignedInBlock(n)}
  <2>1. main' = Append(Posted(user), SignedInBlock(n))
    BY <1>1, <1>2, <1>3, ConcatOne
  <2>2. /\ Append(Posted(user), SignedInBlock(n)) \in Seq(Blocks)
        /\ Elements(Append(Posted(user), SignedInBlock(n))) = Elements(Posted(user)) \cup {SignedInBlock(n)}
    BY <1>2, <1>3, ElementsAppend
  <2> QED
    BY <2>1, <2>2, Zenon
<1>5. \A b : b.kind # "post"
            => (b \in Elements(main') <=> b \in Elements(main) \/ b = SignedInBlock(n))
  BY <1>2, <1>4
<1> QED
  BY <1>1, <1>4, <1>5

(* A sign-in that ends: its user, and a block for the login that asked.    *)
LEMMA UserComes ==
    ASSUME TypeOK, NEW by \in Nat, SignInEnds(by)
    PROVE  \E u \in Users :
             /\ saved' = u /\ currentUser' = u /\ lastNotified' = u /\ signedInBy' = {by}
             /\ main' \in Seq(Blocks)
             /\ \A b : b.kind # "post"
                     => (b \in Elements(main')
                            <=> b \in Elements(main) \/ (by # 0 /\ b = SignedInBlock(by)))
<1>1. PICK u \in Users : /\ saved' = u
                         /\ UpdateCurrentUser(u, {by}, IF by = 0 THEN <<>> ELSE <<SignedInBlock(by)>>)
  BY DEF SignInEnds, Button, SignedInBlock
<1>2. CASE by = 0
  <2>1. UpdateCurrentUser(u, {by}, <<>>)
    BY <1>1, <1>2
  <2>2. /\ main' \in Seq(Blocks)
        /\ \A b : b.kind # "post" => (b \in Elements(main') <=> b \in Elements(main))
        /\ currentUser' = u /\ lastNotified' = u /\ signedInBy' = {by}
    BY <2>1, UpdatedAlone
  <2> QED
    BY <1>1, <1>2, <2>2
<1>3. CASE by # 0
  <2>1. UpdateCurrentUser(u, {by}, <<SignedInBlock(by)>>) /\ by \in Nat \ {0}
    BY <1>1, <1>3
  <2>2. /\ main' \in Seq(Blocks)
        /\ \A b : b.kind # "post"
                => (b \in Elements(main') <=> b \in Elements(main) \/ b = SignedInBlock(by))
        /\ currentUser' = u /\ lastNotified' = u /\ signedInBy' = {by}
    BY <2>1, UpdatedMain
  <2> QED
    BY <1>1, <1>3, <2>2
<1> QED
  BY <1>2, <1>3

(* The block that runs leaves the queue.                                   *)
LEMMA HeadRuns ==
    ASSUME TypeOK, main # <<>>
    PROVE  /\ Head(main) \in Blocks
           /\ Tail(main) \in Seq(Blocks)
           /\ \A b : b \in Elements(main) <=> b = Head(main) \/ b \in Elements(Tail(main))
<1>1. main \in Seq(Blocks)
  BY DEF TypeOK
<1> QED
  BY <1>1, ElementsTail

(* The block that has a login dismissed is that login's own.               *)
LEMMA SignsIn ==
    ASSUME TypeOK, SignedIn
    PROVE  /\ main' = Tail(main)
           /\ shown' # shown => shown = "login" /\ shown' = "leaving" /\ Dismissed(logins)
           /\ \A b : b \in Elements(main') => b \in Elements(main)
           /\ \A b : b.kind # "signedIn" => (b \in Elements(main') <=> b \in Elements(main))
           /\ shown = "login" /\ shown' = shown => (Dismissed(logins)' <=> Dismissed(logins))
           /\ In("signedIn")
<1>1. main # <<>> /\ Head(main).kind = "signedIn" /\ main' = Tail(main) /\ logins' = logins
      /\ shown' = IF shown = "login" /\ Head(main).login = logins THEN "leaving" ELSE shown
  BY DEF SignedIn, Block
<1>2. /\ Head(main) \in Blocks
      /\ \A b : b \in Elements(main) <=> b = Head(main) \/ b \in Elements(Tail(main))
  BY <1>1, HeadRuns
<1>3. Head(main) = SignedInBlock(Head(main).login) /\ \A n : SignedInBlock(n).login = n
  BY <1>1, <1>2, BlockKinds
<1>4. shown' # shown => shown = "login" /\ shown' = "leaving" /\ Dismissed(logins)
  BY <1>1, <1>2, <1>3 DEF Dismissed
<1>5. shown = "login" /\ shown' = shown => (Dismissed(logins)' <=> Dismissed(logins))
  BY <1>1, <1>2, <1>3 DEF Dismissed
<1>6. In("signedIn")
  BY <1>1, <1>2 DEF In
<1> QED
  BY <1>1, <1>2, <1>4, <1>5, <1>6

(* The first call takes its block, and may add the notification of a       *)
(* keychain that is read in it.                                            *)
LEMMA InitialMain ==
    ASSUME TypeOK, InitialCall
    PROVE  /\ main' \in Seq(Blocks)
           /\ \A b : b.kind # "post" => (b \in Elements(main') <=> b \in Elements(Tail(main)))
           /\ In("post") => In("post")'
<1>1. main # <<>> /\ Head(main).kind = "initial"
  BY DEF InitialCall, Block
<1>2. /\ Tail(main) \in Seq(Blocks)
      /\ \A b : b \in Elements(main) <=> b = Head(main) \/ b \in Elements(Tail(main))
  BY <1>1, HeadRuns
<1>3. CASE main' = Tail(main)
  BY <1>1, <1>2, <1>3 DEF In
<1>4. CASE ~loaded /\ main' # Tail(main)
  <2> DEFINE q == Tail(main)
             post == [kind |-> "post"]
  <2>1. main' = q \o <<post>>
    <3>1. main' = q \o (IF saved = Nobody THEN <<>> ELSE <<post>>)
      BY <1>4 DEF InitialCall
    <3>2. q \o <<>> = q
      BY <1>2, ConcatEmptySeq
    <3> QED
      BY <1>4, <3>1, <3>2
  <2>2. post \in Blocks
    BY BlockKinds
  <2>3. main' \in Seq(Blocks) /\ Elements(main') = Elements(q) \cup {post}
    <3>1. q \in Seq(Blocks)
      BY <1>2
    <3> HIDE DEF q, post
    <3>2. q \o <<post>> = Append(q, post)
      BY <2>2, <3>1, ConcatOne
    <3>3. Append(q, post) \in Seq(Blocks) /\ Elements(Append(q, post)) = Elements(q) \cup {post}
      BY <2>2, <3>1, ElementsAppend
    <3> QED
      BY <2>1, <3>2, <3>3, Zenon
  <2>4. \A b : b.kind # "post" => (b \in Elements(main') <=> b \in Elements(q))
    BY <2>3
  <2> QED
    BY <1>1, <1>2, <2>3, <2>4 DEF In
<1> QED
  BY <1>3, <1>4 DEF InitialCall

-------------------------------------------------------------------------------
(* The types. *)

(* Only what it is called with changes: the screen's view of a call.       *)
LEMMA CallType ==
    ASSUME TypeOK, NEW called, NEW told \in Users \cup {Nobody}, NEW user, Call(called, told, user)
    PROVE  /\ heard' \in [Handles -> [called : BOOLEAN, who : Users \cup {Nobody}]]
           /\ screen' \in {"gone", "appearing", "visible", "disappearing", "disappearing, told"}
           /\ shown' \in {"nothing", "welcome", "login", "leaving"}
           /\ waiting' \in {"nothing", "welcome", "login"} /\ logins' \in Nat
<1>1. heard' \in [Handles -> [called : BOOLEAN, who : Users \cup {Nobody}]]
  BY DEF Call, TypeOK
<1>2. \/ UNCHANGED ui
      \/ \E what \in {"login", "welcome"} : Present(what)
  BY DEF Call, Listener, ui
<1>3. CASE UNCHANGED ui
  BY <1>1, <1>3 DEF ui, TypeOK
<1>4. ASSUME NEW what \in {"login", "welcome"}, Present(what)
      PROVE  /\ screen' \in {"gone", "appearing", "visible", "disappearing", "disappearing, told"}
             /\ shown' \in {"nothing", "welcome", "login", "leaving"}
             /\ waiting' \in {"nothing", "welcome", "login"} /\ logins' \in Nat
  <2>1. logins' \in Nat
    <3>1. logins \in Nat
      BY Zenon DEF TypeOK
    <3> QED
      BY <1>4, <3>1 DEF Present, ui
  <2>2. shown \in {"nothing", "welcome", "login", "leaving"} /\ waiting \in {"nothing", "welcome", "login"}
        /\ screen \in {"gone", "appearing", "visible", "disappearing", "disappearing, told"}
    BY DEF TypeOK
  <2> QED
    BY <1>4, <2>1, <2>2 DEF Present, ui
<1> QED
  BY <1>1, <1>2, <1>3, <1>4

(* Every step keeps the types.                                             *)
LEMMA TypeStep == IInv /\ [Next]_vars => TypeOK'
<1> SUFFICES ASSUME IInv, [Next]_vars PROVE TypeOK'
  OBVIOUS
<1> USE AuthAssumption
<1>0. TypeOK
  BY DEF IInv
<1>a. /\ main \in Seq(Blocks) /\ handle \in 0..MaxAppearances /\ MaxAppearances \in Nat
      /\ listeners \subseteq Handles
  BY <1>0, Zenon DEF TypeOK, AuthAssumption
<1>b. logins \in Nat /\ signingIn \subseteq Nat
  BY <1>0, Zenon DEF TypeOK
<1>1. CASE Load
  <2>1. main' \in Seq(Blocks) /\ currentUser' = saved /\ lastNotified' = saved /\ signedInBy' = {}
    BY <1>0, <1>1, UpdatedAlone DEF Load
  <2> QED
    BY <1>0, <1>1, <2>1 DEF Load, TypeOK, center, ui, facebook
<1>2. CASE InitialCall
  <2>1. main # <<>> /\ Call({Head(main).handle}, currentUser, IF loaded THEN currentUser ELSE saved)
    BY <1>2 DEF InitialCall, Block
  <2>3. main' \in Seq(Blocks)
    BY <1>0, <1>2, InitialMain
  <2>4. {currentUser', saved', lastNotified'} \subseteq Users \cup {Nobody} /\ signedInBy' \subseteq Nat
    BY <1>0, <1>2 DEF InitialCall, TypeOK
  <2> QED
    BY <1>0, <1>2, <2>1, <2>3, <2>4, CallType DEF InitialCall, TypeOK, facebook
<1>3. CASE Post
  <2>1. main # <<>> /\ Call(listeners, currentUser, currentUser)
    BY <1>3 DEF Post, Block
  <2>2. Tail(main) \in Seq(Blocks)
    BY <1>0, <2>1, HeadRuns
  <2> QED
    BY <1>0, <1>3, <2>1, <2>2, CallType DEF Post, TypeOK, auth, facebook
<1>4. CASE SignedIn
  <2>1. Tail(main) \in Seq(Blocks)
    BY <1>0, <1>4, HeadRuns DEF SignedIn, Block
  <2> QED
    BY <1>0, <1>4, <2>1 DEF SignedIn, TypeOK, auth, center, facebook
<1>5. CASE ViewWillAppear
  <2>1. handle + 1 \in Handles
    BY <1>a, <1>5 DEF ViewWillAppear, Handles
  <2>2. [kind |-> "initial", handle |-> handle + 1] \in Blocks
    BY <2>1 DEF Blocks
  <2>3. main' \in Seq(Blocks)
    BY <1>a, <1>5, <2>2 DEF ViewWillAppear
  <2>4. handle' \in 0..MaxAppearances /\ listeners' \subseteq Handles
    BY <1>a, <1>5, <2>1 DEF ViewWillAppear, Handles
  <2> QED
    BY <1>0, <1>5, <2>3, <2>4 DEF ViewWillAppear, TypeOK, auth, facebook
<1>6. CASE ViewDidAppear
  <2>1. logins' \in Nat
    BY <1>b, <1>6 DEF ViewDidAppear
  <2> QED
    BY <1>0, <1>6, <2>1 DEF ViewDidAppear, TypeOK, auth, center, facebook
<1>7. CASE ViewWillDisappear
  BY <1>0, <1>7 DEF ViewWillDisappear, Removed, TypeOK, auth, facebook
<1>8. CASE ViewDidDisappear
  BY <1>0, <1>8 DEF ViewDidDisappear, Removed, TypeOK, auth, facebook
<1>9. CASE DismissWelcome
  BY <1>0, <1>9 DEF DismissWelcome, TypeOK, auth, center, facebook
<1>10. CASE doSignOut
  <2>1. main' \in Seq(Blocks) /\ currentUser' = Nobody /\ lastNotified' = Nobody /\ signedInBy' = {}
    BY <1>0, <1>10, UpdatedAlone DEF doSignOut
  <2> QED
    BY <1>0, <1>10, <2>1 DEF doSignOut, TypeOK, center, ui, facebook
<1>11. CASE SignIn
  <2>1. signingIn' \subseteq Nat
    BY <1>b, <1>11 DEF SignIn
  <2> QED
    BY <1>0, <1>11, <2>1 DEF SignIn, TypeOK, auth, center, ui, facebook
<1>12. CASE CancelAuthorization
  BY <1>0, <1>12 DEF CancelAuthorization, TypeOK, auth, center, facebook
<1>13. CASE FacebookLogOut
  BY <1>0, <1>13 DEF FacebookLogOut, TypeOK, auth, center, ui
<1>14. CASE FacebookLogIn
  BY <1>0, <1>14 DEF FacebookLogIn, TypeOK, auth, center, ui
<1>15. ASSUME NEW token \in BOOLEAN, NEW error \in BOOLEAN, DidComplete(token, error) PROVE TypeOK'
  <2>1. signingIn' \subseteq Nat
    BY <1>b, <1>15 DEF DidComplete, Button
  <2>2. crashed' \in BOOLEAN /\ accessToken' \in BOOLEAN /\ dialog' \in BOOLEAN
    BY <1>15, Zenon DEF DidComplete
  <2> QED
    BY <1>0, <1>15, <2>1, <2>2 DEF DidComplete, TypeOK, auth, center, ui
<1>16. ASSUME NEW by \in signingIn, SignInFails(by) PROVE TypeOK'
  BY <1>0, <1>16 DEF SignInFails, TypeOK, auth, center, ui, facebook
<1>17. ASSUME NEW by \in signingIn, SignInEnds(by) PROVE TypeOK'
  <2>1. PICK u \in Users : /\ saved' = u /\ main' \in Seq(Blocks)
                           /\ currentUser' = u /\ lastNotified' = u /\ signedInBy' = {by}
    BY <1>0, <1>b, <1>17, UserComes
  <2>2. signedInBy' \subseteq Nat /\ signingIn' \subseteq Nat
    BY <1>b, <1>17, <2>1 DEF SignInEnds
  <2> QED
    BY <1>0, <1>17, <2>1, <2>2 DEF SignInEnds, TypeOK, center, ui, facebook
<1>18. CASE Relaunch
  <2>1. /\ main' \in Seq(Blocks) /\ handle' \in 0..MaxAppearances /\ listeners' \subseteq Handles
        /\ heard' \in [Handles -> [called : BOOLEAN, who : Users \cup {Nobody}]]
    BY <1>a, <1>18 DEF Relaunch
  <2> QED
    BY <1>0, <1>18, <2>1 DEF Relaunch, TypeOK
<1>19. CASE UNCHANGED vars
  BY <1>0, <1>19 DEF vars, auth, center, ui, facebook, TypeOK
<1> QED
  BY <1>1, <1>2, <1>3, <1>4, <1>5, <1>6, <1>7, <1>8, <1>9, <1>10, <1>11, <1>12, <1>13,
     <1>14, <1>15, <1>16, <1>17, <1>18, <1>19 DEF Next, RunMain, Lifecycle, User, Facebook, Network

-------------------------------------------------------------------------------
(* The screen. *)

(* Who is called presents what the user asks for, or nothing.              *)
LEMMA CallPresents ==
    ASSUME NEW called, NEW told, NEW user, Call(called, told, user)
    PROVE  \/ UNCHANGED ui
           \/ called # {} /\ user = Nobody /\ Present("login")
           \/ called # {} /\ user # Nobody /\ Present("welcome")
<1>1. CASE ShouldCall(called, told) = {}
  BY <1>1 DEF Call
<1>2. CASE ShouldCall(called, told) # {}
  <2>1. called # {}
    BY <1>2 DEF ShouldCall
  <2>2. Listener(user)
    BY <1>2 DEF Call
  <2>3. CASE user = Nobody
    BY <2>1, <2>2, <2>3, AuthAssumption DEF Listener
  <2>4. CASE user # Nobody
    BY <2>1, <2>2, <2>4, AuthAssumption DEF Listener
  <2> QED
    BY <2>3, <2>4
<1> QED
  BY <1>1, <1>2

(* What a listener presents fits the life of the screen.                   *)
LEMMA CallScreen ==
    ASSUME TypeOK, ScreenInv, NEW called, NEW told, NEW user, Call(called, told, user),
           called # {} => handle > 0, UNCHANGED <<app, listeners, handle>>
    PROVE  ScreenInv'
<1>1. CASE UNCHANGED ui
  BY <1>1 DEF ui, ScreenInv, Held
<1>2. ASSUME NEW what \in {"login", "welcome"}, called # {}, Present(what)
      PROVE  ScreenInv'
  <2>1. CASE shown = "nothing"
    <3>1. screen \in {"appearing", "visible"}
      BY <1>2, <2>1 DEF ScreenInv, TypeOK
    <3> QED
      BY <1>2, <2>1, <3>1 DEF Present, ScreenInv, Held, ui
  <2>2. CASE shown # "nothing"
    BY <1>2, <2>2 DEF Present, ScreenInv, Held, ui
  <2> QED
    BY <2>1, <2>2
<1> QED
  BY <1>1, <1>2, CallPresents

(* The listeners follow the appearances of the screen.                     *)
LEMMA ScreenStep == IInv /\ [Next]_vars => ScreenInv'
<1> SUFFICES ASSUME IInv, [Next]_vars PROVE ScreenInv'
  OBVIOUS
<1>0. TypeOK /\ ScreenInv
  BY DEF IInv
<1>a. handle \in Nat
  <2>1. handle \in 0..MaxAppearances
    BY <1>0, Zenon DEF TypeOK
  <2> QED
    BY <2>1, AuthAssumption
<1>1. CASE Load
  BY <1>0, <1>1 DEF Load, ScreenInv, Held, center, ui
<1>2. CASE InitialCall
  <2>1. handle > 0
    <3>1. main # <<>> /\ Head(main).kind = "initial"
      BY <1>2 DEF InitialCall, Block
    <3>2. Head(main) \in Blocks /\ Head(main) \in Elements(main)
      BY <1>0, <3>1, HeadRuns
    <3>3. Head(main).handle \in Handles
      BY <3>1, <3>2 DEF Blocks
    <3>4. Head(main).handle <= handle
      BY <3>1, <3>2, Zenon DEF IInv, LoadInv
    <3> QED
      BY <1>a, <3>3, <3>4, AuthAssumption DEF Handles
  <2>2. UNCHANGED <<app, listeners, handle>>
    BY <1>2 DEF InitialCall
  <2> QED
    BY <1>0, <1>2, <2>1, <2>2, CallScreen DEF InitialCall
<1>3. CASE Post
  <2>1. listeners # {} => handle > 0
    <3>1. handle = 0 => screen = "gone"
      BY <1>0, Zenon DEF ScreenInv
    <3>2. screen = "gone" => listeners = {}
      BY <1>0 DEF ScreenInv, Held
    <3> QED
      BY <3>1, <3>2, <1>a
  <2>2. UNCHANGED <<app, listeners, handle>>
    BY <1>3 DEF Post
  <2> QED
    BY <1>0, <1>3, <2>1, <2>2, CallScreen DEF Post
<1>4. CASE SignedIn
  <2>1. shown' # shown => shown = "login" /\ Dismissed(logins)
    BY <1>0, <1>4, SignsIn
  <2>2. shown' # shown => screen = "gone" /\ shown = "login" /\ shown' = "leaving"
    BY <1>4, <2>1 DEF IInv, LoginInv, SignedIn
  <2> QED
    BY <1>0, <1>4, <2>2 DEF SignedIn, ScreenInv, Held, center
<1>5. CASE ViewWillAppear
  BY <1>0, <1>a, <1>5 DEF ViewWillAppear, ScreenInv, Held
<1>6. CASE ViewDidAppear
  BY <1>0, <1>6 DEF ViewDidAppear, ScreenInv, Held, TypeOK, center
<1>7. CASE ViewWillDisappear
  <2>1. app.removesEarly \in BOOLEAN
    BY <1>0, AuthAssumption DEF TypeOK, AppKinds
  <2> QED
    BY <1>0, <1>7, <2>1 DEF ViewWillDisappear, Removed, ScreenInv, Held
<1>8. CASE ViewDidDisappear
  <2>1. app.removesEarly \in BOOLEAN
    BY <1>0, AuthAssumption DEF TypeOK, AppKinds
  <2> QED
    BY <1>0, <1>8, <2>1 DEF ViewDidDisappear, Removed, ScreenInv, Held
<1>9. CASE DismissWelcome
  BY <1>0, <1>9 DEF DismissWelcome, ScreenInv, Held, center
<1>10. CASE doSignOut \/ SignIn
  BY <1>0, <1>10 DEF doSignOut, SignIn, ScreenInv, Held, center, ui
<1>11. CASE CancelAuthorization
  BY <1>0, <1>11 DEF CancelAuthorization, LoginIsUp, ScreenInv, Held, center
<1>12. CASE FacebookLogOut \/ FacebookLogIn
  BY <1>0, <1>12 DEF FacebookLogOut, FacebookLogIn, ScreenInv, Held, center, ui
<1>13. ASSUME NEW token \in BOOLEAN, NEW error \in BOOLEAN, DidComplete(token, error) PROVE ScreenInv'
  BY <1>0, <1>13 DEF DidComplete, ScreenInv, Held, center, ui
<1>14. ASSUME NEW by \in signingIn, SignInFails(by) \/ SignInEnds(by) PROVE ScreenInv'
  BY <1>0, <1>14 DEF SignInFails, SignInEnds, ScreenInv, Held, center, ui
<1>15. CASE Relaunch
  BY <1>15 DEF Relaunch, ScreenInv, Held
<1>16. CASE UNCHANGED vars
  BY <1>0, <1>16 DEF vars, center, ui, ScreenInv, Held
<1> QED
  BY <1>1, <1>2, <1>3, <1>4, <1>5, <1>6, <1>7, <1>8, <1>9, <1>10, <1>11, <1>12, <1>13, <1>14, <1>15, <1>16
     DEF Next, RunMain, Lifecycle, User, Facebook, Network

-------------------------------------------------------------------------------
(* The login. *)

(* A call of the listener neither brings a login over a user nor loses the *)
(* block that dismisses one.                                               *)
LEMMA CallLogin ==
    ASSUME TypeOK, ScreenInv, LoginInv,
           NEW called, NEW told, NEW user, Call(called, told, user),
           user = currentUser', loaded => currentUser' = currentUser /\ signedInBy' = signedInBy,
           loaded' = TRUE, ~loaded => signedInBy' = {}, signingIn' = signingIn,
           \A b : b.kind = "signedIn" => (b \in Elements(main') <=> b \in Elements(main))
    PROVE  LoginInv'
<1>1. logins \in Nat /\ signingIn \subseteq Nat /\ signedInBy \subseteq Nat
  BY Zenon DEF TypeOK
<1>2. \A n : Dismissed(n)' <=> Dismissed(n)
  BY BlockKinds DEF Dismissed
<1>3. /\ \A n \in signingIn \cup signedInBy : n <= logins
      /\ \A b \in Elements(main) : b.kind = "signedIn" => b.login <= logins
      /\ shown # "nothing" => loaded
      /\ waiting # "nothing" => shown = "leaving"
  BY Zenon DEF LoginInv, ScreenInv
<1>4. \A b \in Elements(main) : b.kind = "signedIn" => b.login \in Nat
  BY AreBlocks, BlockKinds
<1>5. /\ \A n \in signingIn' \cup signedInBy' : n \in signingIn \cup signedInBy /\ n \in Nat
      /\ \A b \in Elements(main') : b.kind = "signedIn" => b \in Elements(main)
  BY <1>1
<1>6. CASE logins' = logins + 1 /\ shown' = "login" /\ currentUser' = Nobody /\ UNCHANGED waiting /\ shown = "nothing"
  <2>1. \A n \in signingIn' \cup signedInBy' : n < logins'
    BY <1>1, <1>3, <1>5, <1>6
  <2>2. \A b \in Elements(main') : b.kind = "signedIn" => b.login < logins'
    BY <1>1, <1>3, <1>4, <1>5, <1>6
  <2>3. logins' \notin signingIn' /\ ~Dismissed(logins)'
    <3>1. logins' \in Nat /\ SignedInBlock(logins').kind = "signedIn" /\ SignedInBlock(logins').login = logins'
      BY <1>1, <1>6, BlockKinds
    <3> QED
      BY <2>1, <2>2, <3>1 DEF Dismissed
  <2>4. waiting' = "nothing"
    BY <1>3, <1>6
  <2>5. logins' > 0
    BY <1>1, <1>6
  <2>6. \A n \in signingIn' \cup signedInBy' : n <= logins'
    BY <1>1, <1>5, <1>6, <2>1
  <2>7. \A b \in Elements(main') : b.kind = "signedIn" => b.login <= logins'
    BY <1>1, <1>4, <1>5, <1>6, <2>2
  <2> QED
    BY <1>6, <2>3, <2>4, <2>5, <2>6, <2>7 DEF LoginInv
<1>7. CASE /\ logins' = logins /\ (shown' = "login" <=> shown = "login")
           /\ shown = "login" => screen' = screen
           /\ waiting' = "login" => waiting = "login" \/ currentUser' = Nobody
  <2>1. shown = "login" => UNCHANGED <<currentUser, signedInBy, screen, signingIn>>
    BY <1>3, <1>7
  <2>2. waiting = "login" => UNCHANGED <<currentUser, signedInBy>>
    BY <1>3
  <2>3. /\ \A n \in signingIn' \cup signedInBy' : n <= logins'
        /\ \A b \in Elements(main') : b.kind = "signedIn" => b.login <= logins'
    BY <1>3, <1>5, <1>7
  <2>4. /\ shown' = "login" => logins' > 0
        /\ shown' = "login" /\ (logins' \in signingIn' \/ Dismissed(logins)') => screen' = "gone"
        /\ shown' = "login" /\ Dismissed(logins)' => currentUser' # Nobody
        /\ shown' = "login" /\ currentUser' # Nobody
             => Dismissed(logins)' \/ \E by \in signedInBy' : by # logins'
    <3>1. Dismissed(logins)' <=> Dismissed(logins)
      BY <1>7, BlockKinds DEF Dismissed
    <3> QED
      BY <1>7, <2>1, <3>1 DEF LoginInv
  <2>5. waiting' = "login" /\ currentUser' # Nobody => signedInBy' # {}
    BY <1>7, <2>2 DEF LoginInv
  <2> QED
    BY <2>3, <2>4, <2>5 DEF LoginInv
<1>8. CASE UNCHANGED ui
  BY <1>7, <1>8 DEF ui
<1>9. CASE user = Nobody /\ Present("login")
  <2>1. CASE shown = "nothing"
    BY <1>6, <1>9, <2>1 DEF Present
  <2>2. CASE shown # "nothing"
    BY <1>7, <1>9, <2>2 DEF Present, ui
  <2> QED
    BY <2>1, <2>2
<1>10. CASE user # Nobody /\ Present("welcome")
  BY <1>7, <1>10 DEF Present, ui
<1> QED
  BY <1>8, <1>9, <1>10, CallPresents

(* What leaves the login and its blocks as they are keeps what is said.    *)
LEMMA LoginKept ==
    ASSUME TypeOK, LoginInv, UNCHANGED <<loaded, currentUser, signedInBy, main, shown, waiting, logins>>,
           \/ signingIn' \subseteq signingIn
           \/ signingIn' = signingIn \cup {0},
           shown = "login" => (screen = "gone" => screen' = "gone")
    PROVE  LoginInv'
<1>1. logins \in Nat
  BY Zenon DEF TypeOK
<1>2. /\ In("post")' <=> In("post")
      /\ In("signedIn")' <=> In("signedIn")
      /\ Dismissed(logins)' <=> Dismissed(logins)
  BY DEF In, Dismissed
<1>3. \A by \in signingIn' \cup signedInBy' : by <= logins'
  BY <1>1 DEF LoginInv
<1>4. shown' = "login" /\ (logins' \in signingIn' \/ Dismissed(logins)') => screen' = "gone"
  BY <1>1, <1>2 DEF LoginInv
<1> QED
  BY <1>2, <1>3, <1>4 DEF LoginInv

(* A login that goes, or stays away, leaves little to say.                 *)
LEMMA LoginGoes ==
    ASSUME TypeOK, LoginInv, loaded, loaded', shown' # "login", logins' = logins,
           signingIn' \subseteq signingIn, signedInBy' \subseteq signedInBy,
           waiting' = "login" /\ currentUser' # Nobody => signedInBy' # {},
           \A b : b.kind = "signedIn" /\ b \in Elements(main') => b \in Elements(main)
    PROVE  LoginInv'
BY DEF LoginInv

(* What the screen shows goes with what it waits for.                      *)
LEMMA LoginStep == IInv /\ [Next]_vars => LoginInv'
<1> SUFFICES ASSUME IInv, [Next]_vars PROVE LoginInv'
  OBVIOUS
<1>0. TypeOK /\ ScreenInv /\ LoginInv
  BY DEF IInv
<1>a. logins \in Nat /\ signingIn \subseteq Nat /\ signedInBy \subseteq Nat
  BY <1>0, Zenon DEF TypeOK
<1>1. CASE Load
  <2>1. ~loaded /\ loaded' /\ UNCHANGED <<shown, waiting, logins, signingIn>>
    BY <1>1 DEF Load, ui
  <2>2. shown = "nothing" /\ waiting = "nothing"
    BY <1>0, <2>1 DEF LoginInv, ScreenInv
  <2>3. signedInBy' = {} /\ \A b : b.kind # "post" => (b \in Elements(main') <=> b \in Elements(main))
    BY <1>0, <1>1, UpdatedAlone DEF Load
  <2>4. \A b \in Elements(main') : b.kind = "signedIn" => b \in Elements(main)
    BY <2>3
  <2> QED
    BY <1>0, <2>1, <2>2, <2>3, <2>4 DEF LoginInv
<1>2. CASE InitialCall
  <2>1. main # <<>> /\ Head(main).kind = "initial"
        /\ Call({Head(main).handle}, currentUser, IF loaded THEN currentUser ELSE saved)
        /\ currentUser' = (IF loaded THEN currentUser ELSE saved) /\ loaded' = TRUE
        /\ signedInBy' = (IF loaded THEN signedInBy ELSE {}) /\ signingIn' = signingIn
    BY <1>2 DEF InitialCall, Block
  <2>2. \A b : b \in Elements(main) <=> b = Head(main) \/ b \in Elements(Tail(main))
    BY <1>0, <2>1, HeadRuns
  <2>3. \A b : b.kind # "post" => (b \in Elements(main') <=> b \in Elements(Tail(main)))
    BY <1>0, <1>2, InitialMain
  <2>4. \A b : b.kind = "signedIn" => (b \in Elements(main') <=> b \in Elements(main))
    BY <2>1, <2>2, <2>3
  <2> QED
    BY <1>0, <2>1, <2>4, CallLogin
<1>3. CASE Post
  <2>1. main # <<>> /\ Head(main).kind = "post" /\ main' = Tail(main)
        /\ Call(listeners, currentUser, currentUser)
        /\ UNCHANGED <<currentUser, loaded, signedInBy, signingIn>>
    BY <1>3 DEF Post, Block, auth
  <2>2. \A b : b \in Elements(main) <=> b = Head(main) \/ b \in Elements(Tail(main))
    BY <1>0, <2>1, HeadRuns
  <2>3. loaded /\ loaded' = TRUE
    <3>1. loaded \in BOOLEAN
      BY <1>0, Zenon DEF TypeOK
    <3> QED
      BY <1>0, <2>1, <2>2, <3>1 DEF LoginInv, In
  <2>4. \A b : b.kind = "signedIn" => (b \in Elements(main') <=> b \in Elements(main))
    BY <2>1, <2>2
  <2> QED
    BY <1>0, <2>1, <2>3, <2>4, CallLogin
<1>4. CASE SignedIn
  <2>1. /\ UNCHANGED <<screen, waiting, currentUser, loaded, logins, signingIn, signedInBy>>
        /\ shown' \in {shown, "leaving"}
    BY <1>4 DEF SignedIn, auth
  <2>2. /\ shown' # shown => shown = "login"
        /\ \A b : b \in Elements(main') => b \in Elements(main)
        /\ shown = "login" /\ shown' = shown => (Dismissed(logins)' <=> Dismissed(logins))
        /\ loaded
    BY <1>0, <1>4, SignsIn DEF LoginInv
  <2>3. CASE shown' # "login"
    BY <1>0, <2>1, <2>2, <2>3, LoginGoes DEF LoginInv
  <2>4. CASE shown' = "login"
    <3>1. shown' = shown
      BY <2>1, <2>4
    <3> QED
      BY <1>0, <2>1, <2>2, <2>4, <3>1 DEF LoginInv
  <2> QED
    BY <2>3, <2>4
<1>5. CASE ViewWillAppear
  <2> DEFINE first == [kind |-> "initial", handle |-> handle + 1]
  <2>1. main' = Append(main, first) /\ main' \in Seq(Blocks) /\ main \in Seq(Blocks)
    BY <1>0, <1>5, TypeStep DEF ViewWillAppear, TypeOK, Next, Lifecycle
  <2>2. first \in Blocks /\ first.kind = "initial"
    <3>1. Len(main') = Len(main) + 1 /\ main'[Len(main) + 1] = first /\ Len(main) \in Nat
      BY <2>1
    <3> QED
      BY <2>1, <3>1
  <2>3. Elements(main') = Elements(main) \cup {first}
    <3> HIDE DEF first
    <3> QED
      BY <2>1, <2>2, ElementsAppend
  <2>4. /\ (In("signedIn")' <=> In("signedIn")) /\ (In("post")' <=> In("post"))
        /\ \A b \in Elements(main') : b.kind = "signedIn" => b \in Elements(main)
    <3> HIDE DEF first
    <3> QED
      BY <2>2, <2>3 DEF In
  <2>5. UNCHANGED <<currentUser, loaded, signedInBy, signingIn, shown, waiting, logins>> /\ shown # "login"
    BY <1>5 DEF ViewWillAppear, auth
  <2> QED
    BY <1>0, <2>4, <2>5 DEF LoginInv
<1>6. CASE ViewDidAppear
  <2>1. /\ screen = "appearing" /\ shown' = (IF shown = "leaving" THEN waiting ELSE shown)
        /\ logins' = (IF shown' = "login" THEN logins + 1 ELSE logins)
        /\ waiting' = "nothing" /\ UNCHANGED <<main, currentUser, loaded, signedInBy, signingIn>>
    BY <1>6 DEF ViewDidAppear, auth
  <2>2. shown # "login" /\ (waiting # "nothing" => shown = "leaving")
    BY <1>0, <2>1 DEF ScreenInv
  <2>3. (In("post")' <=> In("post")) /\ (In("signedIn")' <=> In("signedIn")) /\ (shown' # "nothing" => shown # "nothing")
    BY <2>1 DEF In
  <2>4. CASE shown' # "login"
    BY <1>0, <2>1, <2>3, <2>4 DEF LoginInv
  <2>5. CASE shown' = "login"
    <3>1. waiting = "login" /\ logins' = logins + 1 /\ logins' \in Nat
      BY <1>a, <2>1, <2>2, <2>5
    <3>2. \A by \in signingIn \cup signedInBy : by < logins' /\ by <= logins'
      BY <1>0, <1>a, <3>1 DEF LoginInv
    <3>3. \A b \in Elements(main) : b.kind = "signedIn" => b.login < logins' /\ b.login <= logins'
      <4>1. \A b \in Elements(main) : b.kind = "signedIn" => b.login \in Nat
        BY <1>0, AreBlocks, BlockKinds
      <4> QED
        BY <1>0, <1>a, <3>1, <4>1 DEF LoginInv
    <3>4. ~Dismissed(logins)'
      <4>1. SignedInBlock(logins').kind = "signedIn" /\ SignedInBlock(logins').login = logins'
        BY BlockKinds
      <4> QED
        BY <2>1, <3>1, <3>3, <4>1 DEF Dismissed
    <3>5. currentUser # Nobody => \E by \in signedInBy : by # logins'
      <4>1. currentUser # Nobody => signedInBy # {}
        BY <1>0, <3>1 DEF LoginInv
      <4>2. \A by \in signedInBy : by # logins'
        BY <1>a, <3>1, <3>2
      <4> QED
        BY <4>1, <4>2, Zenon
    <3>6. logins' \notin signingIn /\ logins' > 0
      BY <1>a, <3>1, <3>2
    <3> QED
      BY <1>0, <2>1, <2>3, <2>5, <3>2, <3>3, <3>4, <3>5, <3>6 DEF LoginInv
  <2> QED
    BY <2>4, <2>5
<1>7. CASE ViewWillDisappear \/ ViewDidDisappear
  BY <1>0, <1>7, LoginKept DEF ViewWillDisappear, ViewDidDisappear, auth
<1>8. CASE DismissWelcome
  <2>1. shown = "welcome" /\ shown' = "nothing"
        /\ UNCHANGED <<main, currentUser, loaded, waiting, logins, signingIn, signedInBy>>
    BY <1>8 DEF DismissWelcome, auth
  <2>2. loaded
    BY <1>0, <2>1 DEF LoginInv
  <2> QED
    BY <1>0, <2>1, <2>2, LoginGoes DEF LoginInv
<1>9. CASE doSignOut
  <2>1. /\ currentUser' = Nobody /\ signedInBy' = {}
        /\ \A b : b.kind # "post" => (b \in Elements(main') <=> b \in Elements(main))
    BY <1>0, <1>9, UpdatedAlone DEF doSignOut
  <2>2. shown = "nothing" /\ loaded /\ loaded' /\ UNCHANGED <<shown, waiting, logins, signingIn>>
    BY <1>9 DEF doSignOut, Idle, ui
  <2>3. \A b : b.kind = "signedIn" /\ b \in Elements(main') => b \in Elements(main)
    BY <2>1
  <2> QED
    BY <1>0, <2>1, <2>2, <2>3, LoginGoes
<1>10. CASE SignIn
  <2>1. shown = "login" /\ screen = "gone" /\ signingIn' = signingIn \cup {logins}
        /\ UNCHANGED <<loaded, currentUser, signedInBy, main, shown, screen, waiting, logins>>
    BY <1>10 DEF SignIn, LoginIsUp, auth, ui
  <2>2. \A by \in signingIn' \cup signedInBy' : by <= logins'
    BY <1>0, <1>a, <2>1 DEF LoginInv
  <2>3. (In("post")' <=> In("post")) /\ (In("signedIn")' <=> In("signedIn")) /\ (Dismissed(logins)' <=> Dismissed(logins))
    BY <2>1 DEF In, Dismissed
  <2> QED
    BY <1>0, <2>1, <2>2, <2>3 DEF LoginInv
<1>11. CASE CancelAuthorization
  <2>1. shown = "login" /\ shown' = "leaving"
        /\ UNCHANGED <<main, currentUser, loaded, waiting, logins, signingIn, signedInBy>>
    BY <1>11 DEF CancelAuthorization, LoginIsUp, auth
  <2>2. loaded /\ waiting # "login"
    BY <1>0, <2>1 DEF LoginInv, ScreenInv
  <2> QED
    BY <1>0, <2>1, <2>2, LoginGoes
<1>12. CASE FacebookLogOut \/ FacebookLogIn
  BY <1>0, <1>12, LoginKept DEF FacebookLogOut, FacebookLogIn, auth, ui
<1>13. ASSUME NEW token \in BOOLEAN, NEW error \in BOOLEAN, DidComplete(token, error) PROVE LoginInv'
  BY <1>0, <1>13, LoginKept DEF DidComplete, Button, auth, ui
<1>14. ASSUME NEW by \in signingIn, SignInFails(by) PROVE LoginInv'
  BY <1>0, <1>14, LoginKept DEF SignInFails, auth, ui
<1>15. ASSUME NEW by \in signingIn, SignInEnds(by) PROVE LoginInv'
  <2>1. loaded /\ loaded' /\ signingIn' = signingIn \ {by} /\ UNCHANGED <<shown, screen, waiting, logins>>
    BY <1>15 DEF SignInEnds, ui
  <2>2. by \in Nat /\ by <= logins
    BY <1>0, <1>a DEF LoginInv
  <2>3. /\ currentUser' # Nobody /\ signedInBy' = {by}
        /\ \A b : b.kind # "post"
                => (b \in Elements(main') <=> b \in Elements(main) \/ (by # 0 /\ b = SignedInBlock(by)))
    BY <1>0, <1>15, <2>2, UserComes, AuthAssumption
  <2>4. \A b \in Elements(main') : b.kind = "signedIn" => b.login <= logins'
    BY <1>0, <2>1, <2>2, <2>3, BlockKinds DEF LoginInv
  <2>5. \A n \in signingIn' \cup signedInBy' : n <= logins'
    BY <1>0, <2>1, <2>2, <2>3 DEF LoginInv
  <2>6. SignedInBlock(logins).kind = "signedIn" /\ SignedInBlock(by).kind = "signedIn"
        /\ SignedInBlock(by).login = by /\ SignedInBlock(logins).login = logins
    BY BlockKinds
  <2>7. Dismissed(logins)' <=> Dismissed(logins) \/ (by # 0 /\ by = logins)
    BY <2>1, <2>3, <2>6 DEF Dismissed
  <2>8. shown = "login" => logins > 0
    BY <1>0 DEF LoginInv
  <2>9. shown' = "login" /\ (logins' \in signingIn' \/ Dismissed(logins)') => screen' = "gone"
    BY <1>0, <2>1, <2>7 DEF LoginInv
  <2>10. shown' = "login" => Dismissed(logins)' \/ \E n \in signedInBy' : n # logins'
    BY <1>a, <2>1, <2>3, <2>7, <2>8
  <2> QED
    BY <2>1, <2>3, <2>4, <2>5, <2>8, <2>9, <2>10 DEF LoginInv
<1>16. CASE Relaunch
  <2>1. Elements(main') = {}
    BY <1>16 DEF Relaunch, Elements
  <2> QED
    BY <1>16, <2>1 DEF Relaunch, LoginInv, In, Dismissed
<1>17. CASE UNCHANGED vars
  BY <1>0, <1>17, LoginKept DEF vars, auth, ui
<1> QED
  BY <1>1, <1>2, <1>3, <1>4, <1>5, <1>6, <1>7, <1>8, <1>9, <1>10, <1>11, <1>12, <1>13, <1>14, <1>15,
     <1>16, <1>17 DEF Next, RunMain, Lifecycle, User, Facebook, Network

-------------------------------------------------------------------------------
(* The keychain, and what the handles have heard. *)

(* What a call tells its handles.                                          *)
LEMMA CallHeard ==
    ASSUME NEW called, NEW told, NEW user, Call(called, told, user), NEW h \in Handles
    PROVE  heard'[h] = IF h \in called THEN [called |-> TRUE, who |-> told] ELSE heard[h]
BY DEF Call

(* Until the user is loaded nobody is signed in and nothing is told.       *)
LEMMA LoadStep == IInv /\ [Next]_vars => LoadInv'
<1> SUFFICES ASSUME IInv, [Next]_vars PROVE LoadInv'
  OBVIOUS
<1>0. TypeOK /\ ScreenInv /\ LoginInv /\ LoadInv
  BY DEF IInv
<1>a. loaded \in BOOLEAN /\ handle \in Nat
  <2>1. loaded \in BOOLEAN /\ handle \in 0..MaxAppearances
    BY <1>0, Zenon DEF TypeOK
  <2> QED
    BY <2>1, AuthAssumption
<1>1. CASE Load
  <2>1. UpdateCurrentUser(saved, {}, <<>>) /\ loaded' /\ UNCHANGED <<heard, handle>>
    BY <1>1 DEF Load, center
  <2> QED
    BY <1>0, <2>1, UpdatedAlone DEF LoadInv
<1>2. CASE InitialCall
  <2>1. main # <<>> /\ Head(main).kind = "initial" /\ loaded' /\ handle' = handle
        /\ Call({Head(main).handle}, currentUser, IF loaded THEN currentUser ELSE saved)
    BY <1>2 DEF InitialCall, Block
  <2>2. lastNotified' = currentUser'
    <3>1. CASE loaded
      BY <1>0, <1>2, <3>1 DEF InitialCall, LoadInv
    <3>2. CASE ~loaded
      BY <1>2, <3>2 DEF InitialCall
    <3> QED
      BY <3>1, <3>2
  <2>3. \A b : b.kind = "initial" /\ b \in Elements(main') => b \in Elements(main)
    BY <1>0, <1>2, <2>1, InitialMain, HeadRuns
  <2>4. Head(main).handle <= handle
    BY <1>0, <2>1, HeadRuns DEF LoadInv
  <2>5. ASSUME NEW h \in Handles, h > handle PROVE ~heard'[h].called
    <3>1. h \notin {Head(main).handle}
      BY <1>a, <2>4, <2>5, AuthAssumption DEF Handles
    <3> QED
      BY <1>0, <2>1, <2>5, <3>1, CallHeard DEF LoadInv
  <2> QED
    BY <1>0, <2>1, <2>2, <2>3, <2>5 DEF LoadInv
<1>3. CASE Post
  <2>1. main # <<>> /\ Head(main).kind = "post" /\ main' = Tail(main)
        /\ Call(listeners, currentUser, currentUser)
        /\ UNCHANGED <<currentUser, lastNotified, loaded, handle>>
    BY <1>3 DEF Post, Block, auth
  <2>2. \A b : b \in Elements(main) <=> b = Head(main) \/ b \in Elements(Tail(main))
    BY <1>0, <2>1, HeadRuns
  <2>3. loaded
    BY <1>0, <2>1, <2>2 DEF LoginInv, In
  <2>4. ASSUME NEW h \in Handles, h > handle PROVE ~heard'[h].called
    <3>1. listeners \subseteq {handle}
      BY <1>0, Zenon DEF ScreenInv
    <3>2. h \notin listeners
      BY <1>a, <2>4, <3>1, AuthAssumption DEF Handles
    <3> QED
      BY <1>0, <2>1, <2>4, <3>2, CallHeard DEF LoadInv
  <2> QED
    BY <1>0, <2>1, <2>2, <2>3, <2>4 DEF LoadInv
<1>4. CASE SignedIn
  <2>1. main # <<>> /\ Head(main).kind = "signedIn" /\ main' = Tail(main)
        /\ UNCHANGED <<currentUser, lastNotified, loaded, handle, heard, misled>>
    BY <1>4 DEF SignedIn, Block, auth, center
  <2>2. \A b : b \in Elements(main) <=> b = Head(main) \/ b \in Elements(Tail(main))
    BY <1>0, <2>1, HeadRuns
  <2>3. loaded
    BY <1>0, <2>1, <2>2 DEF LoginInv, In
  <2> QED
    BY <1>0, <2>1, <2>2, <2>3 DEF LoadInv
<1>5. CASE ViewWillAppear
  <2> DEFINE first == [kind |-> "initial", handle |-> handle + 1]
  <2>1. main' = Append(main, first) /\ handle' = handle + 1 /\ screen = "gone"
        /\ UNCHANGED <<currentUser, lastNotified, loaded, heard, misled>>
    BY <1>5 DEF ViewWillAppear, auth
  <2>2. Elements(main') = Elements(main) \cup {first}
    <3>1. main \in Seq(Blocks) /\ main' \in Seq(Blocks)
      BY <1>0, <1>5, TypeStep, Zenon DEF TypeOK, Next, Lifecycle
    <3>2. Len(main') = Len(main) + 1 /\ main'[Len(main) + 1] = first /\ Len(main) \in Nat
      BY <2>1, <3>1
    <3>3. first \in Blocks
      BY <3>1, <3>2
    <3> HIDE DEF first
    <3> QED
      BY <2>1, <3>1, <3>3, ElementsAppend
  <2>3. first \in Elements(main') /\ first.kind = "initial" /\ first.handle = handle'
    BY <2>1, <2>2
  <2>4. InitialIn(handle)'
    BY <2>3, Zenon DEF InitialIn
  <2>5. ~loaded => handle = 0
    BY <1>0, <1>a, <2>1 DEF ScreenInv, LoginInv
  <2>6. handle' \in Handles /\ ~heard[handle'].called
    <3>1. handle' \in Handles
      BY <1>a, <1>5, AuthAssumption DEF ViewWillAppear, Handles
    <3> QED
      BY <1>0, <1>a, <2>1, <3>1 DEF LoadInv
  <2>7. \A b \in Elements(main') : b.kind = "initial" => b.handle <= handle'
    <3>1. \A b \in Elements(main) : b.kind = "initial" => b.handle \in Int
      <4>1. \A b \in Elements(main) : b \in Blocks
        <5>1. main \in Seq(Blocks)
          BY <1>0, Zenon DEF TypeOK
        <5> QED
          BY <5>1 DEF Elements
      <4> QED
        BY <4>1, AuthAssumption DEF Blocks, Handles
    <3> QED
      BY <1>0, <1>a, <2>1, <2>2, <3>1 DEF LoadInv
  <2>8. \A h \in Handles : h > handle' => ~heard'[h].called
    BY <1>0, <1>a, <2>1, AuthAssumption DEF LoadInv, Handles
  <2>9. lastNotified' = currentUser' /\ (~loaded' => currentUser' = Nobody /\ misled' = "no" /\ handle' <= 1)
    BY <1>0, <2>1, <2>5 DEF LoadInv
  <2> QED
    BY <2>1, <2>4, <2>6, <2>7, <2>8, <2>9 DEF LoadInv
<1>6. CASE ViewDidAppear \/ ViewWillDisappear \/ ViewDidDisappear \/ DismissWelcome
  BY <1>0, <1>6 DEF ViewDidAppear, ViewWillDisappear, ViewDidDisappear, DismissWelcome,
                    auth, center, LoadInv, InitialIn
<1>7. CASE doSignOut
  <2>1. UpdateCurrentUser(Nobody, {}, <<>>) /\ loaded /\ UNCHANGED <<loaded, heard, handle>>
    BY <1>7 DEF doSignOut, center
  <2> QED
    BY <1>0, <2>1, UpdatedAlone DEF LoadInv
<1>8. CASE SignIn \/ CancelAuthorization \/ FacebookLogOut \/ FacebookLogIn
  BY <1>0, <1>8 DEF SignIn, CancelAuthorization, FacebookLogOut, FacebookLogIn, auth, center,
                    LoadInv, InitialIn
<1>9. ASSUME NEW token \in BOOLEAN, NEW error \in BOOLEAN, DidComplete(token, error) PROVE LoadInv'
  BY <1>0, <1>9 DEF DidComplete, auth, center, LoadInv, InitialIn
<1>10. ASSUME NEW by \in signingIn, SignInFails(by) \/ SignInEnds(by) PROVE LoadInv'
  <2>1. CASE SignInFails(by)
    BY <1>0, <2>1 DEF SignInFails, auth, center, LoadInv, InitialIn
  <2>2. CASE SignInEnds(by)
    <3>1. loaded /\ UNCHANGED <<loaded, heard, handle, misled>>
      BY <2>2 DEF SignInEnds, center
    <3>2. by \in Nat
      BY <1>0, Zenon DEF TypeOK
    <3>3. /\ lastNotified' = currentUser'
          /\ \A b : b.kind # "post"
                  => (b \in Elements(main') <=> b \in Elements(main) \/ (by # 0 /\ b = SignedInBlock(by)))
      BY <1>0, <2>2, <3>2, UserComes
    <3>4. \A b : b.kind = "initial" => (b \in Elements(main') <=> b \in Elements(main))
      BY <3>3, BlockKinds
    <3> QED
      BY <1>0, <3>1, <3>3, <3>4 DEF LoadInv
  <2> QED
    BY <1>10, <2>1, <2>2
<1>11. CASE Relaunch
  <2>1. Elements(main') = {}
    BY <1>11 DEF Relaunch, Elements
  <2> QED
    BY <1>11, <2>1 DEF Relaunch, LoadInv
<1>12. CASE UNCHANGED vars
  BY <1>0, <1>12 DEF vars, auth, center, LoadInv, InitialIn
<1> QED
  BY <1>1, <1>2, <1>3, <1>4, <1>5, <1>6, <1>7, <1>8, <1>9, <1>10, <1>11, <1>12
     DEF Next, RunMain, Lifecycle, User, Facebook, Network

-------------------------------------------------------------------------------
(* What the listener has heard. *)

(* A handle that is told of nobody for the first time asks for the login.  *)
LEMMA AsksForLogin ==
    ASSUME NEW called, Call(called, Nobody, Nobody), handle \in called, ~KnowsOfNobody
    PROVE  Present("login")
<1>1. handle \in ShouldCall(called, Nobody)
  BY DEF ShouldCall, KnowsOfNobody
<1>2. Listener(Nobody)
  BY <1>1 DEF Call
<1> QED
  BY <1>2, AuthAssumption DEF Listener

(* While nothing is over a screen whose user is nobody, the login comes    *)
(* over it, and the screen begins to disappear.                            *)
LEMMA LoginCovers ==
    ASSUME TypeOK, ScreenInv, HearInv, currentUser = Nobody, app.hidesCancel, Present("login")
    PROVE  /\ shown' # "nothing"
           /\ screen' \notin {"appearing", "visible"}
<1>1. CASE shown = "nothing"
  BY <1>1 DEF Present
<1>2. shown \notin {"welcome", "leaving"}
  BY Zenon DEF HearInv
<1>3. CASE shown = "login"
  BY <1>3 DEF Present, ScreenInv, ui
<1>4. shown \in {"nothing", "welcome", "login", "leaving"}
  BY Zenon DEF TypeOK
<1> QED
  BY <1>1, <1>2, <1>3, <1>4

(* What a presentation leaves behind, whatever was there before.           *)
LEMMA CallLeaves ==
    ASSUME NEW called, NEW told, NEW user, Call(called, told, user)
    PROVE  /\ shown' = "nothing" => shown = "nothing"
           /\ shown' = "leaving" => shown = "leaving"
           /\ shown' = "welcome" => shown = "welcome" \/ user # Nobody
           /\ waiting' = "welcome" => waiting = "welcome" \/ user # Nobody
           /\ screen' \in {"appearing", "visible"} => screen' = screen
<1>1. CASE UNCHANGED ui
  BY <1>1 DEF ui
<1>2. ASSUME NEW what \in {"login", "welcome"}, Present(what), what = "welcome" => user # Nobody
      PROVE  /\ shown' = "nothing" => shown = "nothing"
             /\ shown' = "leaving" => shown = "leaving"
             /\ shown' = "welcome" => shown = "welcome" \/ user # Nobody
             /\ waiting' = "welcome" => waiting = "welcome" \/ user # Nobody
             /\ screen' \in {"appearing", "visible"} => screen' = screen
  BY <1>2 DEF Present, ui
<1> QED
  BY <1>1, <1>2, CallPresents

(* The first call of a listener tells it who is signed in.                 *)
LEMMA HearInitial == IInv /\ InitialCall => HearInv'
<1> SUFFICES ASSUME IInv, InitialCall PROVE HearInv'
  OBVIOUS
<1> DEFINE h == Head(main).handle
           user == IF loaded THEN currentUser ELSE saved
<1>0. TypeOK /\ ScreenInv /\ LoginInv /\ LoadInv /\ HearInv
  BY DEF IInv
<1>1. /\ main # <<>> /\ Head(main).kind = "initial" /\ Call({h}, currentUser, user)
      /\ currentUser' = user /\ loaded' /\ UNCHANGED <<app, handle>>
      /\ misled' = IF ~loaded /\ saved # Nobody THEN "told" ELSE misled
  BY DEF InitialCall, Block
<1>2. loaded => user = currentUser
  OBVIOUS
<1>3. ~loaded => user = saved /\ currentUser = Nobody /\ misled = "no" /\ shown = "nothing" /\ waiting = "nothing"
  BY <1>0 DEF LoadInv, LoginInv, ScreenInv
<1>4. handle > 0 => handle \in Handles
  <2>1. handle \in 0..MaxAppearances
    BY <1>0, Zenon DEF TypeOK
  <2> QED
    BY <2>1, AuthAssumption DEF Handles
<1> HIDE DEF user, h
<1>5. /\ shown' = "welcome" \/ waiting' = "welcome" => currentUser' # Nobody
      /\ app'.hidesCancel /\ shown' = "leaving" => currentUser' # Nobody
      /\ misled' = "told" => loaded' /\ currentUser' # Nobody
  <2>1. /\ shown' = "welcome" => shown = "welcome" \/ user # Nobody
        /\ waiting' = "welcome" => waiting = "welcome" \/ user # Nobody
        /\ shown' = "leaving" => shown = "leaving"
    BY <1>1, CallLeaves
  <2> QED
    BY <1>0, <1>1, <1>2, <1>3, <2>1 DEF HearInv
<1>6. ASSUME app.hidesCancel, handle > 0, currentUser = Nobody, user = Nobody, ~KnowsOfNobody,
             shown' = "nothing" \/ screen' \in {"appearing", "visible"}
      PROVE  h # handle /\ ~KnowsOfNobody'
  <2>1. h # handle
    <3>1. SUFFICES ASSUME h = handle PROVE FALSE
      OBVIOUS
    <3>2. Present("login")
      BY <1>1, <1>6, <3>1, AsksForLogin
    <3> QED
      BY <1>0, <1>6, <3>2, LoginCovers
  <2>2. heard'[handle] = heard[handle]
    BY <1>1, <1>4, <1>6, <2>1, CallHeard
  <2> QED
    BY <1>1, <1>6, <2>1, <2>2 DEF KnowsOfNobody
<1>7. ASSUME app.hidesCancel, handle > 0, screen' \in {"appearing", "visible"}, KnowsOfNobody'
      PROVE  misled' # "no"
  <2>1. SUFFICES ASSUME misled' = "no" PROVE FALSE
    OBVIOUS
  <2>2. misled = "no" /\ (loaded \/ saved = Nobody)
    BY <1>1, <2>1
  <2>3. screen = screen'
    BY <1>1, <1>7, CallLeaves
  <2>4. CASE KnowsOfNobody
    BY <1>0, <1>7, <2>2, <2>3, <2>4 DEF HearInv
  <2>5. CASE ~KnowsOfNobody
    <3>1. CASE h = handle
      <4>1. heard'[handle] = [called |-> TRUE, who |-> currentUser]
        BY <1>1, <1>4, <1>7, <3>1, CallHeard
      <4>2. currentUser = Nobody
        BY <1>1, <1>7, <4>1 DEF KnowsOfNobody
      <4>3. user = Nobody
        BY <1>2, <1>3, <2>2, <4>2
      <4> QED
        BY <1>6, <1>7, <2>5, <3>1, <4>2, <4>3
    <3>2. CASE h # handle
      <4>1. heard'[handle] = heard[handle]
        BY <1>1, <1>4, <1>7, <3>2, CallHeard
      <4> QED
        BY <1>1, <1>7, <2>5, <4>1 DEF KnowsOfNobody
    <3> QED
      BY <3>1, <3>2
  <2> QED
    BY <2>4, <2>5
<1>8. ASSUME app.hidesCancel, misled' # "signed out", handle > 0, shown' = "nothing",
             currentUser' = Nobody
      PROVE  (InitialIn(handle)' \/ In("post")') /\ ~KnowsOfNobody'
  <2>1. user = Nobody /\ currentUser = Nobody /\ shown = "nothing" /\ misled = misled'
    BY <1>1, <1>2, <1>3, <1>8, CallLeaves
  <2>2. (InitialIn(handle) \/ In("post")) /\ ~KnowsOfNobody
    <3>1. CASE loaded
      BY <1>0, <1>8, <2>1, <3>1 DEF HearInv
    <3>2. CASE ~loaded
      BY <1>0, <1>8, <3>2 DEF LoadInv, KnowsOfNobody
    <3> QED
      BY <3>1, <3>2
  <2>3. h # handle /\ ~KnowsOfNobody'
    BY <1>6, <1>8, <2>1, <2>2
  <2>4. InitialIn(handle) => InitialIn(handle)'
    <3>1. SUFFICES ASSUME NEW b \in Elements(main), b.kind = "initial", b.handle = handle
                   PROVE  b \in Elements(main') /\ handle' = handle
      BY DEF InitialIn
    <3>2. b # Head(main)
      BY <2>3, <3>1 DEF h
    <3> QED
      BY <1>0, <1>1, <3>1, <3>2, InitialMain, HeadRuns
  <2> QED
    BY <1>0, <2>2, <2>3, <2>4, InitialMain
<1> QED
  BY <1>1, <1>5, <1>7, <1>8 DEF HearInv

(* So does a change that is passed on to it.                               *)
LEMMA HearPost == IInv /\ Post => HearInv'
<1> SUFFICES ASSUME IInv, Post PROVE HearInv'
  OBVIOUS
<1>0. TypeOK /\ ScreenInv /\ LoginInv /\ LoadInv /\ HearInv
  BY DEF IInv
<1>1. /\ Call(listeners, currentUser, currentUser)
      /\ UNCHANGED <<currentUser, loaded, app, handle>>
      /\ misled' = IF misled = "told" THEN "no" ELSE misled
  BY DEF Post, auth
<1>2. handle > 0 => handle \in Handles
  <2>1. handle \in 0..MaxAppearances
    BY <1>0, Zenon DEF TypeOK
  <2> QED
    BY <2>1, AuthAssumption DEF Handles
<1>3. screen \in {"appearing", "visible"} => handle \in listeners
  BY <1>0 DEF ScreenInv, Held
<1>4. /\ shown' = "welcome" \/ waiting' = "welcome" => currentUser' # Nobody
      /\ app'.hidesCancel /\ shown' = "leaving" => currentUser' # Nobody
      /\ misled' # "told"
  BY <1>0, <1>1, CallLeaves DEF HearInv
<1>5. ASSUME app.hidesCancel, handle > 0, currentUser = Nobody, ~KnowsOfNobody,
             screen \in {"appearing", "visible"}
      PROVE  shown' # "nothing" /\ screen' \notin {"appearing", "visible"}
  <2>1. Present("login")
    BY <1>1, <1>3, <1>5, AsksForLogin
  <2> QED
    BY <1>0, <1>5, <2>1, LoginCovers
<1>6. ASSUME app.hidesCancel, handle > 0, screen' \in {"appearing", "visible"}, KnowsOfNobody'
      PROVE  misled' # "no"
  <2>1. screen = screen'
    BY <1>1, <1>6, CallLeaves
  <2>2. heard'[handle] = [called |-> TRUE, who |-> currentUser]
    BY <1>1, <1>2, <1>3, <1>6, <2>1, CallHeard
  <2>3. currentUser = Nobody
    BY <1>1, <1>6, <2>2 DEF KnowsOfNobody
  <2>4. misled' = misled
    BY <1>0, <1>1, <2>3 DEF HearInv
  <2>5. KnowsOfNobody
    BY <1>5, <1>6, <2>1, <2>3
  <2> QED
    BY <1>0, <1>6, <2>1, <2>4, <2>5 DEF HearInv
<1>7. ASSUME app.hidesCancel, misled' # "signed out", loaded, handle > 0, shown' = "nothing",
             currentUser = Nobody
      PROVE  FALSE
  <2>1. shown = "nothing" /\ misled # "signed out"
    BY <1>0, <1>1, <1>7, CallLeaves
  <2>2. ~KnowsOfNobody
    BY <1>0, <1>7, <2>1 DEF HearInv
  <2>3. screen \in {"appearing", "visible"}
    BY <1>0, <1>7, <2>1 DEF ScreenInv, TypeOK
  <2> QED
    BY <1>5, <1>7, <2>2, <2>3
<1> QED
  BY <1>1, <1>4, <1>6, <1>7 DEF HearInv

(* A user who signed out unseen is one the listener has yet to hear of.    *)
LEMMA HearStep == IInv /\ [Next]_vars => HearInv'
<1> SUFFICES ASSUME IInv, [Next]_vars PROVE HearInv'
  OBVIOUS
<1>0. TypeOK /\ ScreenInv /\ LoginInv /\ LoadInv /\ HearInv
  BY DEF IInv
<1>a. handle \in Nat
  <2>1. handle \in 0..MaxAppearances
    BY <1>0, Zenon DEF TypeOK
  <2> QED
    BY <2>1, AuthAssumption
<1>b. misled \in {"no", "told", "signed out"}
  BY <1>0, Zenon DEF TypeOK
<1>1. CASE Load
  <2>1. UpdateCurrentUser(saved, {}, <<>>)
        /\ ~loaded /\ UNCHANGED <<heard, handle, app, misled, screen, shown, waiting>>
    BY <1>1 DEF Load, center, ui
  <2>2. misled = "no" /\ shown = "nothing" /\ waiting = "nothing"
    BY <1>0, <2>1 DEF LoadInv, LoginInv, ScreenInv
  <2>3. handle > 0 => InitialIn(handle)' /\ ~heard[handle].called
    BY <1>0, <2>1, UpdatedAlone DEF LoadInv, InitialIn
  <2>4. KnowsOfNobody' => heard[handle].called
    BY <2>1 DEF KnowsOfNobody
  <2> QED
    BY <2>1, <2>2, <2>3, <2>4 DEF HearInv
<1>2. CASE SignedIn
  <2>1. UNCHANGED <<currentUser, loaded, app, misled, screen, waiting, heard, handle>>
        /\ shown' \in {shown, "leaving"}
    BY <1>2 DEF SignedIn, auth, center
  <2>2. shown' # shown => currentUser # Nobody /\ shown = "login"
    BY <1>0, <1>2, SignsIn DEF LoginInv
  <2>3. (In("post") => In("post")') /\ (InitialIn(handle) => InitialIn(handle)')
        /\ (KnowsOfNobody' <=> KnowsOfNobody)
    <3>1. \A b : b.kind # "signedIn" => (b \in Elements(main') <=> b \in Elements(main))
      BY <1>0, <1>2, SignsIn
    <3> QED
      BY <2>1, <3>1 DEF In, InitialIn, KnowsOfNobody
  <2> QED
    BY <1>0, <2>1, <2>2, <2>3 DEF HearInv
<1>3. CASE ViewWillAppear
  <2> DEFINE first == [kind |-> "initial", handle |-> handle + 1]
  <2>1. main' = Append(main, first) /\ handle' = handle + 1
        /\ UNCHANGED <<currentUser, loaded, heard, app, misled, shown, waiting>>
    BY <1>3 DEF ViewWillAppear, auth
  <2>2. ~KnowsOfNobody'
    <3>1. handle' \in Handles
      BY <1>a, <1>3, AuthAssumption DEF ViewWillAppear, Handles
    <3> QED
      BY <1>0, <1>a, <2>1, <3>1 DEF LoadInv, KnowsOfNobody
  <2>3. InitialIn(handle)'
    <3>1. main \in Seq(Blocks) /\ main' \in Seq(Blocks)
      BY <1>0, <1>3, TypeStep, Zenon DEF TypeOK, Next, Lifecycle
    <3>2. Len(main') = Len(main) + 1 /\ main'[Len(main) + 1] = first /\ Len(main) \in Nat
      BY <2>1, <3>1
    <3>3. first \in Elements(main')
      BY <3>2 DEF Elements
    <3> QED
      BY <2>1, <3>3 DEF InitialIn
  <2> QED
    BY <1>0, <2>1, <2>2, <2>3 DEF HearInv
<1>4. CASE ViewDidAppear
  <2>1. screen = "appearing" /\ shown' = (IF shown = "leaving" THEN waiting ELSE shown)
        /\ waiting' = "nothing"
        /\ UNCHANGED <<main, currentUser, loaded, heard, handle, app, misled>>
    BY <1>4 DEF ViewDidAppear, auth, center
  <2>2. (KnowsOfNobody' <=> KnowsOfNobody) /\ (In("post")' <=> In("post"))
        /\ (InitialIn(handle)' <=> InitialIn(handle))
    BY <2>1 DEF KnowsOfNobody, In, InitialIn
  <2> QED
    BY <1>0, <2>1, <2>2 DEF HearInv
<1>5. CASE ViewWillDisappear \/ ViewDidDisappear
  <2>1. screen \in {"disappearing", "disappearing, told"} /\ screen' \in {"disappearing, told", "gone"}
        /\ UNCHANGED <<currentUser, loaded, app, misled, shown, waiting>>
    BY <1>5 DEF ViewWillDisappear, ViewDidDisappear, auth
  <2>2. shown = "login"
    BY <1>0, <2>1 DEF ScreenInv
  <2> QED
    BY <1>0, <2>1, <2>2 DEF HearInv
<1>6. CASE DismissWelcome
  <2>1. shown = "welcome" /\ shown' = "nothing"
        /\ UNCHANGED <<currentUser, loaded, heard, handle, app, misled, screen, waiting>>
    BY <1>6 DEF DismissWelcome, auth, center
  <2>2. KnowsOfNobody' <=> KnowsOfNobody
    BY <2>1 DEF KnowsOfNobody
  <2> QED
    BY <1>0, <2>1, <2>2 DEF HearInv
<1>7. CASE doSignOut
  <2>1. UpdateCurrentUser(Nobody, {}, <<>>)
        /\ misled' = (IF misled = "told" THEN "signed out" ELSE misled)
        /\ screen = "visible" /\ shown = "nothing" /\ currentUser # Nobody
        /\ UNCHANGED <<loaded, heard, handle, app, screen, shown, waiting>>
    BY <1>7 DEF doSignOut, Idle, center, ui
  <2>2. In("post")' /\ currentUser' = Nobody
    BY <1>0, <2>1, UpdatedAlone DEF LoadInv, Told
  <2>3. waiting = "nothing"
    BY <1>0, <2>1 DEF ScreenInv
  <2>4. (KnowsOfNobody' <=> KnowsOfNobody)
    BY <2>1 DEF KnowsOfNobody
  <2>5. app.hidesCancel /\ handle > 0 /\ KnowsOfNobody => misled # "no"
    BY <1>0, <2>1 DEF HearInv
  <2> QED
    BY <1>b, <2>1, <2>2, <2>3, <2>4, <2>5 DEF HearInv
<1>8. CASE SignIn \/ FacebookLogOut \/ FacebookLogIn
  <2>1. UNCHANGED <<main, currentUser, loaded, heard, handle, app, misled, screen, shown, waiting>>
    BY <1>8 DEF SignIn, FacebookLogOut, FacebookLogIn, auth, center, ui
  <2> QED
    BY <1>0, <2>1 DEF HearInv, KnowsOfNobody, In, InitialIn
<1>9. CASE CancelAuthorization
  <2>1. ~app.hidesCancel /\ shown = "login" /\ shown' = "leaving"
        /\ UNCHANGED <<currentUser, loaded, app, misled, waiting>>
    BY <1>9 DEF CancelAuthorization, LoginIsUp, LeftBarButtonItem, auth
  <2> QED
    BY <1>0, <2>1 DEF HearInv, ScreenInv
<1>10. ASSUME NEW token \in BOOLEAN, NEW error \in BOOLEAN, DidComplete(token, error) PROVE HearInv'
  BY <1>0, <1>10 DEF DidComplete, auth, center, ui, HearInv, KnowsOfNobody, In, InitialIn
<1>11. ASSUME NEW by \in signingIn, SignInFails(by) \/ SignInEnds(by) PROVE HearInv'
  <2>1. CASE SignInFails(by)
    BY <1>0, <2>1 DEF SignInFails, auth, center, ui, HearInv, KnowsOfNobody, In, InitialIn
  <2>2. CASE SignInEnds(by)
    <3>1. loaded /\ UNCHANGED <<loaded, heard, handle, app, misled, screen, shown, waiting>>
      BY <2>2 DEF SignInEnds, center, ui
    <3>2. currentUser' # Nobody
      BY <2>2, AuthAssumption DEF SignInEnds, UpdateCurrentUser
    <3>3. KnowsOfNobody' <=> KnowsOfNobody
      BY <3>1 DEF KnowsOfNobody
    <3> QED
      BY <1>0, <3>1, <3>2, <3>3 DEF HearInv
  <2> QED
    BY <1>11, <2>1, <2>2
<1>12. CASE Relaunch
  BY <1>12 DEF Relaunch, HearInv
<1>13. CASE UNCHANGED vars
  BY <1>0, <1>13 DEF vars, auth, center, ui, HearInv, KnowsOfNobody, In, InitialIn
<1> QED
  BY <1>1, <1>2, <1>3, <1>4, <1>5, <1>6, <1>7, <1>8, <1>9, <1>10, <1>11, <1>12, <1>13,
     HearInitial, HearPost DEF Next, RunMain, Lifecycle, User, Facebook, Network

-------------------------------------------------------------------------------
(* The invariant, and what follows from it. *)

(* The app starts with nothing shown and nothing registered.               *)
LEMMA IInvInit == Init => IInv
<1> SUFFICES ASSUME Init PROVE IInv
  OBVIOUS
<1>1. main \in Seq(Blocks) /\ Elements(main) = {}
  BY DEF Init, Elements
<1>2. TypeOK
  <2>1. /\ handle \in 0..MaxAppearances /\ listeners \subseteq Handles
        /\ heard \in [Handles -> [called : BOOLEAN, who : Users \cup {Nobody}]]
    BY AuthAssumption DEF Init
  <2>2. {currentUser, saved, lastNotified} \subseteq Users \cup {Nobody}
    BY DEF Init
  <2> QED
    BY <1>1, <2>1, <2>2 DEF Init, TypeOK
<1>3. ScreenInv
  BY DEF Init, ScreenInv, Held
<1>4. LoginInv
  BY <1>1 DEF Init, LoginInv, In, Dismissed
<1>5. LoadInv
  BY <1>1 DEF Init, LoadInv
<1>6. HearInv
  BY DEF Init, HearInv
<1> QED
  BY <1>2, <1>3, <1>4, <1>5, <1>6 DEF IInv

(* The invariant holds in every reachable state.                           *)
THEOREM Inductive == Spec => []IInv
<1>1. IInv /\ [Next]_vars => IInv'
  BY TypeStep, ScreenStep, LoginStep, LoadStep, HearStep DEF IInv
<1> QED
  BY IInvInit, <1>1, PTL DEF Spec

(* The state of the screen, of FIRAuth and of the main queue keeps its     *)
(* types, whoever the users are and however often the screen comes up.     *)
THEOREM TypeCorrect == Spec => []TypeOK
<1>1. IInv => TypeOK
  BY DEF IInv
<1> QED
  BY <1>1, Inductive, PTL

(* addStateDidChangeListener in viewWillAppear and its removal in either   *)
(* of the two callbacks leave no listener on a screen that has gone, and   *)
(* one, the last, on a screen that is visible.                             *)
THEOREM OnlyVisibleListens == Spec => []ListensWhileVisible
<1>1. IInv => ListensWhileVisible
  BY DEF IInv, ScreenInv, Held, ListensWhileVisible
<1> QED
  BY <1>1, Inductive, PTL

(* When all that was under way on the main queue has run, the login is up  *)
(* if nobody is signed in, but for the two exceptions the property names,  *)
(* and where it stands over a user that user came by a sign-in it had not  *)
(* asked for: FIRAuth's blocks, UIKit's presentations, the taps and the    *)
(* sign-ins that end late or fail may come in any order.                   *)
THEOREM LoginFollows == Spec => []LoginFollowsUser
<1>1. IInv => LoginFollowsUser
  <2> SUFFICES ASSUME IInv, Settled PROVE LoginFollowsUser
    BY DEF LoginFollowsUser
  <2>0. TypeOK /\ ScreenInv /\ LoginInv /\ HearInv
    BY DEF IInv
  <2>1. ~Dismissed(logins) /\ ~In("post") /\ ~InitialIn(handle)
    BY DEF Settled, In, InitialIn, Dismissed, Elements
  <2>2. loaded /\ handle > 0 /\ screen \in {"visible", "gone"} /\ shown # "leaving"
    BY DEF Settled
  <2>3. currentUser # Nobody /\ shown = "login" => \E by \in signedInBy : by # logins
    BY <2>0, <2>1 DEF LoginInv
  <2>4. ASSUME currentUser = Nobody, app.hidesCancel, misled # "signed out" PROVE shown = "login"
    <3>1. CASE screen = "gone"
      BY <2>0, <2>2, <3>1 DEF ScreenInv
    <3>2. shown # "nothing"
      BY <2>0, <2>1, <2>2, <2>4 DEF HearInv
    <3>3. shown # "welcome"
      BY <2>0, <2>4 DEF HearInv
    <3> QED
      BY <2>0, <2>2, <3>2, <3>3 DEF TypeOK
  <2> QED
    BY <2>3, <2>4 DEF LoginFollowsUser
<1> QED
  BY <1>1, Inductive, PTL

===============================================================================
