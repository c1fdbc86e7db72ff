---------------------------- MODULE AndroidProofs ----------------------------
(***************************************************************************)
(* Theorems about two parts of the Android app that share no state: the    *)
(* requests of MainFragment, for any set of requests and any number of     *)
(* fragment instances, and the push token (FcmToken), for any number of    *)
(* tokens and of starts.                                                   *)
(***************************************************************************)
EXTENDS MainFragment, FcmToken, SequenceTheorems, TLAPS

-----------------------------------------------------------------------------
(***************************************************************************)
(* Steps, grouped by what they change.                                     *)
(***************************************************************************)

\* The fragment appears, disappears, or is created again.
LifeSteps == Appear \/ Disappear \/ ProcessEnds \/ \E killed \in BOOLEAN : Recreate(killed)

\* A request's callback ends with, or dies on, its Toast.
Answers(r) == OnInvitationSent(r) \/ \E code \in Code : OnInvitationsReceived(r, code)

\* The steps of Next, one by one.
LEMMA NextCases ==
  Next => \/ LifeSteps
          \/ \E r \in Request, k \in Kind : Send(r, k)
          \/ StartGeofence
          \/ \E r \in Request : Answers(r)
          \/ OnTransactionDone
<1>1. \A r \in Request : SendInvitation(r) \/ FetchMyGuests(r) \/ FetchMyInvitations(r)
        => \E k \in Kind : Send(r, k)
  BY DEF SendInvitation, FetchMyGuests, FetchMyInvitations, Kind, Lists
<1> QED
  BY <1>1 DEF Next, LifeSteps, Answers, StopGeofence

\* FragmentLife's steps keep its types, and create an instance or keep the last.
LEMMA LifeTypes ==
  ASSUME LifeTypeOK, Added \/ Uncovered \/ Covered \/ Detached \/ Restored
  PROVE  LifeTypeOK'
<1>1. instance' = instance \/ (instance < MaxInstance /\ instance' = instance + 1)
  BY DEF Added, Uncovered, Covered, Detached, Restored
<1>2. instance' \in 0 .. MaxInstance
  BY <1>1, MaxInstanceAssumption DEF LifeTypeOK
<1>3. attached' \in BOOLEAN /\ view' \in BOOLEAN
  BY DEF LifeTypeOK, Added, Uncovered, Covered, Detached, Restored
<1> QED
  BY <1>2, <1>3 DEF LifeTypeOK

\* What an answer changes: its request is no longer open; a list is shown or not.
LEMMA AnswersCases ==
  ASSUME NEW r \in Request, Answers(r)
  PROVE  /\ r \in open /\ open' = open \ {r} /\ kind[r] # "none"
         /\ Toast(owner[r], "invitations")
         /\ UNCHANGED <<lifeVars, kind, owner, wzCallback, found, tappedIn>>
         /\ \/ UNCHANGED <<shown, received, displayed, hidden>>
            \/ /\ SetInvitationsResult(r)
               /\ received' = received \cup {r}
               /\ hidden' = IF view THEN hidden ELSE hidden \cup {r}
               /\ HasContext(owner[r])
<1>1. CASE OnInvitationSent(r)
  BY <1>1 DEF OnInvitationSent, history
<1>2. ASSUME NEW code \in Code, OnInvitationsReceived(r, code)
      PROVE  /\ r \in open /\ open' = open \ {r} /\ kind[r] # "none"
             /\ Toast(owner[r], "invitations")
             /\ UNCHANGED <<lifeVars, kind, owner, wzCallback, found, tappedIn>>
             /\ \/ UNCHANGED <<shown, received, displayed, hidden>>
                \/ /\ SetInvitationsResult(r)
                   /\ received' = received \cup {r}
                   /\ hidden' = IF view THEN hidden ELSE hidden \cup {r}
                   /\ HasContext(owner[r])
  BY <1>2 DEF OnInvitationsReceived, Lists, history
<1> QED
  BY <1>1, <1>2 DEF Answers

-----------------------------------------------------------------------------
(***************************************************************************)
(* Type correctness.                                                       *)
(***************************************************************************)
LEMMA TypeInit == Init => TypeOK
<1>1. 0 \in 0 .. MaxInstance
  BY MaxInstanceAssumption
<1> QED
  BY <1>1 DEF Init, LifeInit, TypeOK, LifeTypeOK

\* The fragment's life keeps the types.
LEMMA LifeKeepsTypes == TypeOK /\ LifeSteps => TypeOK'
<1> SUFFICES ASSUME TypeOK, LifeSteps PROVE TypeOK'
  OBVIOUS
<1>1. LifeTypeOK'
  BY LifeTypes DEF LifeSteps, Appear, Disappear, ProcessEnds, Recreate, TypeOK,
                   LifeTypeOK, lifeVars
<1>2. /\ UNCHANGED <<kind, owner, history>>
      /\ open' = open \/ open' = {}
      /\ wzCallback' = wzCallback \/ wzCallback' = 0
      /\ crash' = crash \/ crash' = "none"
      /\ found' \in BOOLEAN /\ shown' = NoRequest
  BY DEF LifeSteps, Appear, Disappear, ProcessEnds, Recreate, OnViewCreated,
         ViewDestroyed, reqVars
<1> QED
  <2>1. 0 \in 0 .. MaxInstance
    BY MaxInstanceAssumption
  <2> QED
    BY <1>1, <1>2, <2>1 DEF TypeOK, history

\* A callback of the SDK keeps the types.
LEMMA AnswerKeepsTypes ==
  ASSUME TypeOK, NEW r \in Request, Answers(r)
  PROVE  TypeOK'
<1>1. /\ open' = open \ {r} /\ crash' \in Service \cup {"none"}
      /\ UNCHANGED <<lifeVars, kind, owner, wzCallback, found, tappedIn>>
      /\ shown' \in {shown, r} /\ received' \in {received, received \cup {r}}
      /\ displayed' \in {displayed, displayed \cup {r}}
      /\ hidden' \in {hidden, hidden \cup {r}}
  BY AnswersCases DEF Toast, Service, SetInvitationsResult
<1> QED
  BY <1>1 DEF TypeOK, LifeTypeOK, lifeVars

\* Every step keeps the types.
LEMMA TypeNext == TypeOK /\ [Next]_vars => TypeOK'
<1> SUFFICES ASSUME TypeOK, [Next]_vars PROVE TypeOK'
  OBVIOUS
<1>1. CASE LifeSteps
  BY <1>1, LifeKeepsTypes
<1>2. ASSUME NEW r \in Request, NEW k \in Kind, Send(r, k) PROVE TypeOK'
  BY <1>2 DEF Send, TypeOK, LifeTypeOK, lifeVars, history
<1>3. CASE StartGeofence
  BY <1>3 DEF StartGeofence, TypeOK, LifeTypeOK, lifeVars
<1>4. ASSUME NEW r \in Request, Answers(r) PROVE TypeOK'
  BY <1>4, AnswerKeepsTypes
<1>5. CASE OnTransactionDone
  BY <1>5 DEF OnTransactionDone, Toast, Service, TypeOK, LifeTypeOK, lifeVars, reqVars, history
<1>6. CASE UNCHANGED vars
  BY <1>6 DEF vars, TypeOK, LifeTypeOK, lifeVars, reqVars, history
<1> QED
  BY <1>1, <1>2, <1>3, <1>4, <1>5, <1>6, NextCases

(***************************************************************************)
(* Every callback belongs to a fragment instance, and what is answered or  *)
(* shown was requested.                                                    *)
(***************************************************************************)
THEOREM TypeCorrect == Spec => []TypeOK
<1> QED
  BY TypeInit, TypeNext, PTL DEF Spec

-----------------------------------------------------------------------------
(***************************************************************************)
(* The inductive invariant. The text view is the one that the window shows *)
(* whenever there is one; a callback belongs to an instance created by     *)
(* then; and a tap of a geofence button is the last word on wzCallback     *)
(* while its instance is there.                                            *)
(***************************************************************************)
FoundWithView == found = view /\ (view => attached) /\ (attached => instance > 0)

OwnersExist ==
  /\ \A r \in Request : kind[r] # "none" => owner[r] \in 1 .. instance
  /\ \A r \in open : kind[r] # "none"
  /\ wzCallback <= instance
  /\ tappedIn <= instance

TapIsCurrent == attached /\ tappedIn = instance => wzCallback = instance

IInv ==
  /\ TypeOK
  /\ FoundWithView
  /\ OwnersExist
  /\ TapIsCurrent
  /\ VisibleListsDisplayed
  /\ FirstActivityNeverCrashes
  /\ GeofenceTapSuffices

\* The inductive invariant holds at the start.
LEMMA InvInit == Init => IInv
<1> SUFFICES ASSUME Init PROVE IInv
  OBVIOUS
<1>1. TypeOK
  BY TypeInit
<1>2. OwnersExist
  BY DEF Init, LifeInit, OwnersExist
<1>3. FoundWithView /\ TapIsCurrent /\ VisibleListsDisplayed
  BY DEF Init, LifeInit, FoundWithView, TapIsCurrent, VisibleListsDisplayed
<1>4. FirstActivityNeverCrashes /\ GeofenceTapSuffices
  BY DEF Init, LifeInit, FirstActivityNeverCrashes, GeofenceTapSuffices
<1> QED
  BY <1>1, <1>2, <1>3, <1>4 DEF IInv

\* What a step of the fragment's life does to the instance and to a crash.
LEMMA LifeStepsCases ==
  ASSUME TypeOK, FoundWithView, LifeSteps
  PROVE  /\ UNCHANGED <<kind, owner, history>> /\ crash' = "none"
         /\ FoundWithView'
         /\ instance' \in Nat
         /\ \/ /\ instance' = instance /\ (attached' => attached /\ crash = "none")
               /\ \/ UNCHANGED <<open, wzCallback>>
                  \/ ~attached' /\ open' = {} /\ wzCallback' = 0
            \/ /\ instance' = instance + 1
               /\ \/ UNCHANGED <<open, wzCallback>>
                  \/ open' = {} /\ wzCallback' = 0
<1>1. instance \in Nat
  BY MaxInstanceAssumption DEF TypeOK, LifeTypeOK
<1>2. UNCHANGED <<kind, owner, history>> /\ crash' = "none"
  BY DEF LifeSteps, Appear, Disappear, ProcessEnds, Recreate, reqVars
<1>3. \/ UNCHANGED <<open, wzCallback>>
      \/ open' = {} /\ wzCallback' = 0
  BY DEF LifeSteps, Appear, Disappear, ProcessEnds, Recreate, reqVars
<1>4. found' = view'
  <2>1. CASE Appear
    <3>1. found' = TRUE /\ view' = TRUE
      BY <2>1 DEF Appear, Added, Uncovered, OnViewCreated
    <3> QED
      BY <3>1
  <2>4. CASE Disappear
    <3>1. found' = FALSE /\ view' = FALSE
      BY <2>4 DEF Disappear, Covered, Detached, ViewDestroyed
    <3> QED
      BY <3>1
  <2>2. CASE ProcessEnds
    BY <2>2 DEF ProcessEnds, Detached, ViewDestroyed, FoundWithView, TypeOK,
                LifeTypeOK, lifeVars
  <2>3. CASE \E killed \in BOOLEAN : Recreate(killed)
    BY <2>3 DEF Recreate, Restored, OnViewCreated, ViewDestroyed, TypeOK, LifeTypeOK
  <2> QED
    BY <2>1, <2>2, <2>3, <2>4 DEF LifeSteps
<1>5. view' => attached'
  BY DEF LifeSteps, Appear, Disappear, ProcessEnds, Recreate, FoundWithView,
         Added, Uncovered, Covered, Detached, Restored, lifeVars
<1>6. \/ /\ instance' = instance /\ (attached' => attached /\ crash = "none")
         /\ UNCHANGED <<open, wzCallback>> \/ ~attached'
      \/ instance' = instance + 1
  BY DEF LifeSteps, Appear, Disappear, ProcessEnds, Recreate, reqVars,
         Added, Uncovered, Covered, Detached, Restored, lifeVars
<1>7. instance' \in Nat /\ (attached' => instance' > 0)
  BY <1>1, <1>6 DEF FoundWithView
<1>8. FoundWithView'
  BY <1>4, <1>5, <1>7 DEF FoundWithView
<1> QED
  BY <1>2, <1>3, <1>6, <1>7, <1>8

\* The fragment's life keeps the inductive invariant.
LEMMA LifeKeepsIInv == IInv /\ TypeOK' /\ LifeSteps => IInv'
<1> SUFFICES ASSUME IInv, TypeOK', LifeSteps PROVE IInv'
  OBVIOUS
<1>1. /\ UNCHANGED <<kind, owner, history>> /\ crash' = "none" /\ FoundWithView'
      /\ \/ /\ instance' = instance /\ (attached' => attached /\ crash = "none")
            /\ \/ UNCHANGED <<open, wzCallback>>
               \/ ~attached' /\ open' = {} /\ wzCallback' = 0
         \/ /\ instance' = instance + 1
            /\ \/ UNCHANGED <<open, wzCallback>>
               \/ open' = {} /\ wzCallback' = 0
  BY LifeStepsCases DEF IInv
<1>2. /\ instance \in Nat /\ wzCallback \in Nat /\ tappedIn \in Nat
      /\ \A r \in Request : owner[r] \in Nat
  BY MaxInstanceAssumption DEF IInv, TypeOK, LifeTypeOK
<1>3. OwnersExist'
  BY <1>1, <1>2 DEF IInv, OwnersExist, history
<1>4. TapIsCurrent'
  BY <1>1, <1>2 DEF IInv, OwnersExist, TapIsCurrent, history
<1>5. VisibleListsDisplayed' /\ FirstActivityNeverCrashes' /\ GeofenceTapSuffices'
  BY <1>1 DEF IInv, VisibleListsDisplayed, FirstActivityNeverCrashes,
              GeofenceTapSuffices, history
<1> QED
  BY <1>1, <1>3, <1>4, <1>5 DEF IInv

\* An answer crashes the app only for a request of an instance that is gone.
LEMMA AnswerKeepsIInv ==
  ASSUME IInv, TypeOK', NEW r \in Request, Answers(r)
  PROVE  IInv'
<1>1. /\ r \in open /\ open' = open \ {r} /\ kind[r] # "none"
      /\ UNCHANGED <<lifeVars, kind, owner, wzCallback, found, tappedIn>>
      /\ crash' = IF HasContext(owner[r]) THEN "none" ELSE "invitations"
      /\ owner[r] \in 1 .. instance /\ instance \in Nat
  BY AnswersCases, MaxInstanceAssumption
     DEF Toast, IInv, OwnersExist, TypeOK, LifeTypeOK
<1>2. FoundWithView' /\ OwnersExist' /\ TapIsCurrent'
  BY <1>1 DEF IInv, FoundWithView, OwnersExist, TapIsCurrent, lifeVars
<1>3. VisibleListsDisplayed'
  BY AnswersCases DEF IInv, FoundWithView, VisibleListsDisplayed, SetInvitationsResult
<1>4. attached /\ crash' # "none" => owner[r] < instance
  <2>1. attached /\ crash' # "none" => owner[r] # instance
    BY <1>1 DEF HasContext
  <2> QED
    BY <1>1, <2>1
<1>5. FirstActivityNeverCrashes'
  BY <1>1, <1>4 DEF FirstActivityNeverCrashes, lifeVars
<1>6. GeofenceTapSuffices'
  BY <1>1, <1>4 DEF GeofenceTapSuffices, lifeVars
<1> QED
  BY <1>2, <1>3, <1>5, <1>6 DEF IInv

\* Every step keeps the inductive invariant.
LEMMA InvNext == IInv /\ [Next]_vars => IInv'
<1> SUFFICES ASSUME IInv, [Next]_vars PROVE IInv'
  OBVIOUS
<1>1. TypeOK'
  BY TypeNext DEF IInv
<1>0. instance \in Nat /\ wzCallback \in Nat
  BY MaxInstanceAssumption DEF IInv, TypeOK, LifeTypeOK
<1>2. CASE LifeSteps
  BY <1>1, <1>2, LifeKeepsIInv
<1>3. ASSUME NEW r \in Request, NEW k \in Kind, Send(r, k) PROVE IInv'
  <2>1. /\ UNCHANGED <<lifeVars, wzCallback, found, crash, history>>
        /\ crash = "none" /\ attached /\ open' = open \cup {r} /\ k # "none"
        /\ kind' = [kind EXCEPT ![r] = k] /\ owner' = [owner EXCEPT ![r] = instance]
    BY <1>3 DEF Send, Tappable, Kind, Lists
  <2>2. instance \in 1 .. instance
    BY <1>0, <2>1 DEF IInv, FoundWithView
  <2>3. OwnersExist'
    BY <2>1, <2>2 DEF IInv, OwnersExist, TypeOK, lifeVars, history
  <2> QED
    BY <1>1, <2>1, <2>3 DEF IInv, FoundWithView, TapIsCurrent, VisibleListsDisplayed,
                       FirstActivityNeverCrashes, GeofenceTapSuffices, lifeVars, history
<1>4. CASE StartGeofence
  BY <1>0, <1>1, <1>4 DEF StartGeofence, Tappable, IInv, FoundWithView, OwnersExist,
       TapIsCurrent, VisibleListsDisplayed, FirstActivityNeverCrashes,
       GeofenceTapSuffices, lifeVars
<1>5. ASSUME NEW r \in Request, Answers(r) PROVE IInv'
  BY <1>1, <1>5, AnswerKeepsIInv
<1>6. CASE OnTransactionDone
  <2>1. /\ UNCHANGED <<lifeVars, reqVars, found, history>>
        /\ wzCallback # 0 /\ crash' = IF HasContext(wzCallback) THEN "none" ELSE "geofence"
    BY <1>6 DEF OnTransactionDone, Toast
  <2>2. FoundWithView' /\ OwnersExist' /\ TapIsCurrent' /\ VisibleListsDisplayed'
    BY <2>1 DEF IInv, FoundWithView, OwnersExist, TapIsCurrent, VisibleListsDisplayed,
                lifeVars, reqVars, history
  <2>3. attached /\ crash' # "none" => wzCallback # instance
    BY <2>1 DEF HasContext
  <2>4. FirstActivityNeverCrashes' /\ GeofenceTapSuffices'
    BY <1>0, <2>1, <2>3 DEF IInv, OwnersExist, TapIsCurrent, FirstActivityNeverCrashes,
                       GeofenceTapSuffices, lifeVars, reqVars, history
  <2> QED
    BY <1>1, <2>2, <2>4 DEF IInv
<1>7. CASE UNCHANGED vars
  BY <1>1, <1>7 DEF vars, lifeVars, reqVars, history, IInv, FoundWithView,
       OwnersExist, TapIsCurrent, VisibleListsDisplayed, FirstActivityNeverCrashes,
       GeofenceTapSuffices
<1> QED
  BY <1>2, <1>3, <1>4, <1>5, <1>6, <1>7, NextCases

(***************************************************************************)
(* A list that comes while the fragment has a view is shown in that view.  *)
(***************************************************************************)
THEOREM VisibleListsDisplayedAlways == Spec => []VisibleListsDisplayed
<1>1. IInv => VisibleListsDisplayed
  BY DEF IInv
<1> QED
  BY <1>1, InvInit, InvNext, PTL DEF Spec

(***************************************************************************)
(* As long as the first activity lives, until it finishes or is created    *)
(* again, no callback of MainFragment runs without a context, whatever     *)
(* flows cover the fragment.                                               *)
(***************************************************************************)
THEOREM FirstActivityNeverCrashesAlways == Spec => []FirstActivityNeverCrashes
<1>1. IInv => FirstActivityNeverCrashes
  BY DEF IInv
<1> QED
  BY <1>1, InvInit, InvNext, PTL DEF Spec

(***************************************************************************)
(* A geofence button tapped in the current instance makes the results of   *)
(* the geofence safe for as long as that instance is attached.             *)
(***************************************************************************)
THEOREM GeofenceTapSufficesAlways == Spec => []GeofenceTapSuffices
<1>1. IInv => GeofenceTapSuffices
  BY DEF IInv
<1> QED
  BY <1>1, InvInit, InvNext, PTL DEF Spec

-----------------------------------------------------------------------------
(***************************************************************************)
(* The push token.                                                         *)
(***************************************************************************)

\* onNewToken is called with a token, and tokens are due after it.
LEMMA NewTokens ==
  ASSUME TokenTypeOK, newTokens # <<>>
  PROVE  /\ Head(newTokens) \in Token
         /\ Tail(newTokens) \in Seq(Token)
         /\ Tail(newTokens) = <<>> => Head(newTokens) = newTokens[Len(newTokens)]
         /\ Tail(newTokens) # <<>> =>
              Tail(newTokens)[Len(Tail(newTokens))] = newTokens[Len(newTokens)]
<1>1. newTokens \in Seq(Token)
  BY DEF TokenTypeOK
<1>2. /\ Head(newTokens) \in Token /\ Tail(newTokens) \in Seq(Token)
      /\ Len(newTokens) \in Nat \ {0} /\ Head(newTokens) = newTokens[1]
      /\ Len(Tail(newTokens)) = Len(newTokens) - 1
      /\ \A i \in 1 .. Len(newTokens) - 1 : Tail(newTokens)[i] = newTokens[i + 1]
  BY <1>1, HeadTailProperties, EmptySeq
<1>3. (Tail(newTokens) = <<>>) <=> (Len(Tail(newTokens)) = 0)
  BY <1>2, EmptySeq
<1>4. Len(newTokens) = 1 \/ Len(newTokens) - 1 \in 1 .. Len(newTokens) - 1
  BY <1>2
<1> QED
  BY <1>2, <1>3, <1>4

\* A new token is the last of those that are due.
LEMMA Issued ==
  ASSUME TokenTypeOK, NEW t \in Token
  PROVE  /\ Append(newTokens, t) \in Seq(Token)
         /\ Append(newTokens, t) # <<>>
         /\ Append(newTokens, t)[Len(Append(newTokens, t))] = t
<1>1. newTokens \in Seq(Token)
  BY DEF TokenTypeOK
<1>2. /\ Append(newTokens, t) \in Seq(Token)
      /\ Len(Append(newTokens, t)) = Len(newTokens) + 1
      /\ Append(newTokens, t)[Len(newTokens) + 1] = t
      /\ Len(newTokens) \in Nat
  BY <1>1, AppendProperties
<1> QED
  BY <1>2, EmptySeq

\* The types hold at the start.
LEMMA TokenTypeInit == TokenInit => TokenTypeOK
<1>1. <<>> \in Seq(Token)
  BY EmptySeq
<1>2. 0 \in 0 .. MaxStart
  BY BoundsAssumption
<1> QED
  BY <1>1, <1>2 DEF TokenInit, TokenTypeOK, TaskState

\* Every step keeps the types.
LEMMA TokenTypeNext == TokenTypeOK /\ [TokenNext]_tokenVars => TokenTypeOK'
<1> SUFFICES ASSUME TokenTypeOK, [TokenNext]_tokenVars PROVE TokenTypeOK'
  OBVIOUS
<1> USE BoundsAssumption
<1>1. CASE OnCreate
  BY <1>1 DEF OnCreate, TokenTypeOK, TaskState
<1>2. CASE OnComplete
  <2>1. overtaken' \in BOOLEAN /\ missed' \in BOOLEAN
    <3>1. overtaken' = (result < sdkToken) \/ overtaken' = overtaken
      BY <1>2 DEF OnComplete
    <3>2. missed' = FALSE \/ missed' = missed
      BY <1>2 DEF OnComplete
    <3>3. (result < sdkToken) \in BOOLEAN
      OBVIOUS
    <3> QED
      BY <3>1, <3>2, <3>3 DEF TokenTypeOK
  <2> QED
    BY <1>2, <2>1 DEF OnComplete, TokenTypeOK, TaskState
<1>3. CASE OnNewToken
  <2>1. overtaken' \in BOOLEAN /\ missed' \in BOOLEAN
    <3>1. overtaken' = (Head(newTokens) < sdkToken) /\ missed' = FALSE
      BY <1>3 DEF OnNewToken
    <3>2. (Head(newTokens) < sdkToken) \in BOOLEAN
      OBVIOUS
    <3> QED
      BY <3>1, <3>2
  <2> QED
    BY <1>3, <2>1, NewTokens DEF OnNewToken, TokenTypeOK
<1>4. CASE IssueToken
  <2>1. token + 1 \in Token
    BY <1>4 DEF IssueToken, TokenTypeOK, Token, NoToken
  <2> QED
    BY <1>4, <2>1, Issued DEF IssueToken, TokenTypeOK
<1>5. CASE FetchSucceeds \/ FetchFails
  BY <1>5 DEF FetchSucceeds, FetchFails, TokenTypeOK, TaskState
<1>6. CASE Kill
  BY <1>6, EmptySeq DEF Kill, TokenTypeOK, TaskState
<1>7. CASE UNCHANGED tokenVars
  BY <1>7 DEF tokenVars, TokenTypeOK
<1> QED
  BY <1>1, <1>2, <1>3, <1>4, <1>5, <1>6, <1>7 DEF TokenNext

(***************************************************************************)
(* What the SDK is given are tokens that Firebase can have issued, and the *)
(* bounds on tokens and starts are kept.                                   *)
(***************************************************************************)
THEOREM TokenTypeCorrect == TokenSpec => []TokenTypeOK
<1> QED
  BY TokenTypeInit, TokenTypeNext, PTL DEF TokenSpec

-----------------------------------------------------------------------------
(***************************************************************************)
(* The inductive invariant behind SdkHasToken: as long as calls are due,   *)
(* the last of them brings the current token; and an answer that waits for *)
(* the main thread is the current token, or the service's thread has       *)
(* handed over a newer one since.                                          *)
(***************************************************************************)
LastDueIsCurrent == newTokens # <<>> => newTokens[Len(newTokens)] = token

AnswerNotNewer == result <= token

AnswerOrSdkCurrent ==
  task = "successful" /\ newTokens = <<>> => result = token \/ sdkToken = token

TokenInv ==
  /\ TokenTypeOK
  /\ SdkHasToken
  /\ LastDueIsCurrent
  /\ AnswerNotNewer
  /\ AnswerOrSdkCurrent

\* The inductive invariant holds at the start.
LEMMA TokenInvInit == TokenInit => TokenInv
BY TokenTypeInit DEF TokenInit, TokenInv, SdkHasToken, LastDueIsCurrent, AnswerNotNewer,
                AnswerOrSdkCurrent, NoToken

\* Every step keeps the inductive invariant.
LEMMA TokenInvNext == TokenInv /\ [TokenNext]_tokenVars => TokenInv'
<1> SUFFICES ASSUME TokenInv, [TokenNext]_tokenVars PROVE TokenInv'
  OBVIOUS
<1>1. TokenTypeOK /\ TokenTypeOK'
  BY TokenTypeNext DEF TokenInv
<1>2. token \in Nat /\ result \in Nat /\ sdkToken \in Nat
  BY <1>1, BoundsAssumption DEF TokenTypeOK, Token, NoToken
<1> USE DEF TokenInv, SdkHasToken, LastDueIsCurrent, AnswerNotNewer, AnswerOrSdkCurrent
<1>3. CASE OnCreate
  BY <1>1, <1>2, <1>3 DEF OnCreate, NoToken
<1>4. CASE OnComplete
  <2>1. CASE task = "successful"
    <3>1. UNCHANGED <<token, result, newTokens>> /\ task' = "none" /\ sdkToken' = result
      BY <1>4, <2>1 DEF OnComplete
    <3>2. newTokens = <<>> => result = token \/ result < sdkToken
      BY <1>2, <2>1
    <3>3. CASE result < sdkToken
      <4>1. overtaken'
        BY <1>4, <2>1, <3>3 DEF OnComplete
      <4> QED
        BY <1>1, <3>1, <4>1
    <3>4. CASE ~(result < sdkToken)
      BY <1>1, <3>1, <3>2, <3>4
    <3> QED
      BY <3>3, <3>4
  <2>2. CASE task # "successful"
    BY <1>1, <1>4, <2>2 DEF OnComplete
  <2> QED
    BY <2>1, <2>2
<1>5. CASE OnNewToken
  BY <1>1, <1>2, <1>5, NewTokens DEF OnNewToken
<1>6. CASE IssueToken
  <2>1. token + 1 \in Token
    BY <1>1, <1>2, <1>6, BoundsAssumption DEF IssueToken, Token
  <2>2. newTokens' # <<>> /\ newTokens'[Len(newTokens')] = token'
    BY <1>1, <1>6, <2>1, Issued DEF IssueToken
  <2> QED
    BY <1>1, <1>2, <1>6, <2>2 DEF IssueToken
<1>7. CASE FetchSucceeds \/ FetchFails
  BY <1>1, <1>2, <1>7 DEF FetchSucceeds, FetchFails
<1>8. CASE Kill
  BY <1>1, <1>2, <1>8 DEF Kill
<1>9. CASE UNCHANGED tokenVars
  BY <1>1, <1>9 DEF tokenVars
<1> QED
  BY <1>3, <1>4, <1>5, <1>6, <1>7, <1>8, <1>9 DEF TokenNext

(***************************************************************************)
(* With no call of onNewToken due, the SDK has the current token, unless   *)
(* an older answer overtook it or a process ended too early.               *)
(***************************************************************************)
THEOREM SdkHasTokenAlways == TokenSpec => []SdkHasToken
<1>1. TokenInv => SdkHasToken
  BY DEF TokenInv
<1> QED
  BY <1>1, TokenInvInit, TokenInvNext, PTL DEF TokenSpec

(***************************************************************************)
(* The answer to a start's request for the token never leaves the SDK      *)
(* behind unless it overtook a newer token, whatever earlier processes     *)
(* missed.                                                                 *)
(***************************************************************************)
THEOREM StartMendsAlways == TokenSpec => StartMends
<1> DEFINE Mends == OnComplete /\ task = "successful" /\ newTokens = <<>> =>
                      sdkToken' = token' \/ overtaken'
<1>1. TokenInv /\ [TokenNext]_tokenVars => [Mends]_tokenVars
  <2> SUFFICES ASSUME TokenInv, OnComplete, task = "successful", newTokens = <<>>
               PROVE  sdkToken' = token' \/ overtaken'
    OBVIOUS
  <2>1. token \in Nat /\ result \in Nat /\ sdkToken \in Nat
    BY BoundsAssumption DEF TokenInv, TokenTypeOK, Token, NoToken
  <2>2. result = token \/ sdkToken = token
    BY DEF TokenInv, AnswerOrSdkCurrent
  <2>3. result = token \/ result < sdkToken
    BY <2>1, <2>2 DEF TokenInv, AnswerNotNewer
  <2>4. sdkToken' = result /\ token' = token
    BY DEF OnComplete
  <2>5. CASE result < sdkToken
    BY <2>5 DEF OnComplete
  <2> QED
    BY <2>3, <2>4, <2>5
<1> QED
  BY <1>1, TokenInvInit, TokenInvNext, PTL DEF TokenSpec, StartMends
=============================================================================
