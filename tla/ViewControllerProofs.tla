------------------------ MODULE ViewControllerProofs ------------------------
(***************************************************************************)
(* Theorems about the iOS app, for any set of requests.                    *)
(***************************************************************************)
EXTENDS ViewController, TLAPS

-----------------------------------------------------------------------------
(***************************************************************************)
(* Type correctness.                                                       *)
(***************************************************************************)
LEMMA TypeInit == Init => TypeOK
BY DEF Init, TypeOK, MenuTab, LoginTab, TransactionTab

\* A button that asks for something.
LEMMA AskTypes ==
  ASSUME TypeOK, NEW r \in Request, NEW k \in Kind, Ask(r, k),
         responseTV' \in {responseTV, Nothing}
  PROVE  TypeOK'
BY DEF TypeOK, Ask, sdk, history

\* An answer, whatever is shown of it.
LEMMA AnswerTypes ==
  ASSUME TypeOK, NEW r \in Request, Answer(r),
         responseTV' \in {responseTV, r}, late' \in {late, late \cup {r}},
         crash' \in BOOLEAN
  PROVE  TypeOK'
BY DEF TypeOK, Answer, Deliver, sdk

\* The steps that ask for nothing and bring no answer to a request.
Plain ==
  \/ DidFinishLaunching \/ ViewDidLoad \/ DidReceiveRegistrationToken
  \/ \E t \in {MenuTab, LoginTab, TransactionTab} : SelectTab(t)
  \/ Login \/ StartTransaction
  \/ DidFinishWaltzLogin \/ DidFinishWaltzTransaction \/ DidUpdateWaltzFCMToken

Asks(r) == \/ GetMyGuestsList(r) \/ GetMyInvitationsList(r) \/ SendInvitation(r)
           \/ GetUserInfo(r)

\* What asking changes.
LEMMA AsksCases ==
  ASSUME NEW r \in Request, Asks(r)
  PROVE  \E k \in Kind : /\ Ask(r, k)
                         /\ \/ k # "getJWT" /\ responseTV' = Nothing
                            \/ k = "getJWT" /\ responseTV' = responseTV
BY DEF Asks, GetMyGuestsList, GetMyInvitationsList, SendInvitation, GetUserInfo,
       Kind, Clearing

Answers(r) ==
  \/ \E success \in BOOLEAN : DidAnswer(r, success)
  \/ \E jwt \in {"none", "claimMissing", "complete"} : DidGetWaltzJWT(r, jwt)

\* What an answer changes.
LEMMA AnswersCases ==
  ASSUME TypeOK, NEW r \in Request, Answers(r)
  PROVE  /\ Answer(r)
         /\ crash' \in BOOLEAN
         /\ \/ UNCHANGED <<responseTV, late>>
            \/ /\ responseTV' = r
               /\ late' = IF r = last THEN late ELSE late \cup {r}
<1>1. ASSUME NEW success \in BOOLEAN, DidAnswer(r, success)
      PROVE  /\ Answer(r) /\ crash' \in BOOLEAN
             /\ \/ UNCHANGED <<responseTV, late>>
                \/ /\ responseTV' = r
                   /\ late' = IF r = last THEN late ELSE late \cup {r}
  BY <1>1 DEF DidAnswer, TypeOK
<1>2. ASSUME NEW jwt \in {"none", "claimMissing", "complete"}, DidGetWaltzJWT(r, jwt)
      PROVE  /\ Answer(r) /\ crash' \in BOOLEAN
             /\ \/ UNCHANGED <<responseTV, late>>
                \/ /\ responseTV' = r
                   /\ late' = IF r = last THEN late ELSE late \cup {r}
  BY <1>2 DEF DidGetWaltzJWT
<1> QED
  BY <1>1, <1>2 DEF Answers

\* The steps of Next, by what they have in common.
LEMMA NextCases ==
  Next => Plain \/ \E r \in Request : Asks(r) \/ Answers(r)
BY DEF Next, Plain, Asks, Answers

\* A step that neither asks nor answers keeps the types.
LEMMA PlainTypes == TypeOK /\ Plain => TypeOK'
<1> SUFFICES ASSUME TypeOK, Plain PROVE TypeOK'
  OBVIOUS
<1> USE DEF TypeOK, MenuTab, LoginTab, TransactionTab, sdk, asked, history
<1>1. CASE DidFinishLaunching \/ ViewDidLoad \/ DidReceiveRegistrationToken
  BY <1>1 DEF DidFinishLaunching, ViewDidLoad, DidReceiveRegistrationToken
<1>2. ASSUME NEW t \in {MenuTab, LoginTab, TransactionTab}, SelectTab(t)
      PROVE  TypeOK'
  BY <1>2 DEF SelectTab
<1>3. CASE Login \/ StartTransaction
  BY <1>3 DEF Login, StartTransaction
<1>4. CASE DidFinishWaltzLogin \/ DidFinishWaltzTransaction \/ DidUpdateWaltzFCMToken
  BY <1>4 DEF DidFinishWaltzLogin, DidFinishWaltzTransaction, DidUpdateWaltzFCMToken,
              Deliver
<1> QED
  BY <1>1, <1>2, <1>3, <1>4 DEF Plain

\* Every step keeps the types.
LEMMA TypeNext == TypeOK /\ [Next]_vars => TypeOK'
<1> SUFFICES ASSUME TypeOK, [Next]_vars PROVE TypeOK'
  OBVIOUS
<1>1. CASE Plain
  BY <1>1, PlainTypes
<1>2. ASSUME NEW r \in Request, Asks(r) PROVE TypeOK'
  BY <1>2, AsksCases, AskTypes
<1>3. ASSUME NEW r \in Request, Answers(r) PROVE TypeOK'
  BY <1>3, AnswersCases, AnswerTypes
<1>4. CASE UNCHANGED vars
  BY <1>4 DEF vars, TypeOK, sdk, asked, history
<1> QED
  BY <1>1, <1>2, <1>3, <1>4, NextCases

(***************************************************************************)
(* The selected tab is one the tab bar has, and what is shown, awaited or  *)
(* lost is something that was asked for.                                   *)
(***************************************************************************)
THEOREM TypeCorrect == Spec => []TypeOK
<1> QED
  BY TypeInit, TypeNext, PTL DEF Spec

-----------------------------------------------------------------------------
(***************************************************************************)
(* The inductive invariant. A transaction that nothing has left shows its  *)
(* tab because no login is unfinished, whose end would select another; and *)
(* nothing is asked of the SDK before it has its delegate.                 *)
(***************************************************************************)
TransactionUndisturbed == transaction /\ ~left => tab = TransactionTab /\ ~login

AskedAfterLoading ==
  /\ phase = "loaded" <=> delegate
  /\ ~delegate => open = {} /\ ~login /\ ~transaction

IInv ==
  /\ TypeOK
  /\ TransactionUndisturbed
  /\ ResponseIsCurrent
  /\ AskedAfterLoading
  /\ OnlyUpdatesDropped

\* The inductive invariant holds at launch.
LEMMA InvInit == Init => IInv
BY TypeInit DEF Init, IInv, TransactionUndisturbed, ResponseIsCurrent,
                AskedAfterLoading, OnlyUpdatesDropped

\* Asking changes what is shown only by clearing it.
LEMMA AskKeepsIInv ==
  ASSUME IInv, TypeOK', NEW r \in Request, NEW k \in Kind, Ask(r, k),
         \/ k # "getJWT" /\ responseTV' = Nothing
         \/ k = "getJWT" /\ responseTV' = responseTV
  PROVE  IInv'
<1>1. UNCHANGED <<phase, delegate, tab, login, transaction, left, dropped>>
      /\ delegate
  BY DEF Ask, OnMenu, Running, sdk, history, IInv, AskedAfterLoading
<1>2. TransactionUndisturbed' /\ AskedAfterLoading' /\ OnlyUpdatesDropped'
  BY <1>1 DEF IInv, TransactionUndisturbed, AskedAfterLoading, OnlyUpdatesDropped
<1>3. ResponseIsCurrent'
  <2>1. kind'[last'] = k
    BY DEF Ask, IInv, TypeOK
  <2> QED
    BY <2>1 DEF ResponseIsCurrent
<1> QED
  BY <1>2, <1>3 DEF IInv

\* An answer shows its own request, which is the last one or late.
LEMMA AnswerKeepsIInv ==
  ASSUME IInv, TypeOK', NEW r \in Request, Answers(r)
  PROVE  IInv'
<1>1. /\ r \in open /\ open' = open \ {r}
      /\ UNCHANGED <<phase, delegate, tab, login, transaction, left, kind, last>>
      /\ dropped' = IF delegate THEN dropped ELSE dropped \cup {r}
  BY AnswersCases DEF Answer, Deliver, sdk, IInv
<1>2. delegate
  BY <1>1 DEF IInv, AskedAfterLoading
<1>3. TransactionUndisturbed' /\ AskedAfterLoading' /\ OnlyUpdatesDropped'
  BY <1>1, <1>2 DEF IInv, TransactionUndisturbed, AskedAfterLoading, OnlyUpdatesDropped
<1>4. ResponseIsCurrent'
  BY <1>1, AnswersCases DEF IInv, ResponseIsCurrent
<1> QED
  BY <1>3, <1>4 DEF IInv

\* A step that neither asks nor answers keeps the inductive invariant.
LEMMA PlainKeepsIInv == IInv /\ TypeOK' /\ Plain => IInv'
<1> SUFFICES ASSUME IInv, TypeOK', Plain PROVE IInv'
  OBVIOUS
<1> USE DEF IInv, TransactionUndisturbed, ResponseIsCurrent, AskedAfterLoading,
            OnlyUpdatesDropped, sdk, asked, history
<1>1. CASE DidFinishLaunching
  BY <1>1 DEF DidFinishLaunching
<1>2. CASE ViewDidLoad
  BY <1>2 DEF ViewDidLoad
<1>3. CASE DidReceiveRegistrationToken
  BY <1>3 DEF DidReceiveRegistrationToken
<1>4. ASSUME NEW t \in {MenuTab, LoginTab, TransactionTab}, SelectTab(t)
      PROVE  IInv'
  BY <1>4 DEF SelectTab, Running
<1>5. CASE Login
  BY <1>5 DEF Login, OnMenu, Running, MenuTab, TransactionTab
<1>6. CASE StartTransaction
  BY <1>6 DEF StartTransaction, OnMenu, Running
<1>7. CASE DidFinishWaltzLogin
  BY <1>7 DEF DidFinishWaltzLogin, Deliver
<1>8. CASE DidFinishWaltzTransaction
  BY <1>8 DEF DidFinishWaltzTransaction, Deliver
<1>9. CASE DidUpdateWaltzFCMToken
  BY <1>9 DEF DidUpdateWaltzFCMToken, Deliver
<1> QED
  BY <1>1, <1>2, <1>3, <1>4, <1>5, <1>6, <1>7, <1>8, <1>9 DEF Plain

\* Every step keeps the inductive invariant.
LEMMA InvNext == IInv /\ [Next]_vars => IInv'
<1> SUFFICES ASSUME IInv, [Next]_vars PROVE IInv'
  OBVIOUS
<1>1. TypeOK'
  BY TypeNext DEF IInv
<1>2. CASE Plain
  BY <1>1, <1>2, PlainKeepsIInv
<1>3. ASSUME NEW r \in Request, Asks(r) PROVE IInv'
  BY <1>1, <1>3, AsksCases, AskKeepsIInv
<1>4. ASSUME NEW r \in Request, Answers(r) PROVE IInv'
  BY <1>1, <1>4, AnswerKeepsIInv
<1>5. CASE UNCHANGED vars
  BY <1>1, <1>5 DEF vars, sdk, asked, history, IInv, TransactionUndisturbed,
                    ResponseIsCurrent, AskedAfterLoading, OnlyUpdatesDropped
<1> QED
  BY <1>2, <1>3, <1>4, <1>5, NextCases

(***************************************************************************)
(* No callback of the SDK selects a tab over a running transaction, unless *)
(* a login was left unfinished when the transaction started.               *)
(***************************************************************************)
THEOREM TransactionStaysVisibleAlways == Spec => []TransactionStaysVisible
<1>1. IInv => TransactionStaysVisible
  BY DEF IInv, TransactionUndisturbed, TransactionStaysVisible
<1> QED
  BY <1>1, InvInit, InvNext, PTL DEF Spec

(***************************************************************************)
(* The shared text view never shows the answer to an earlier button that   *)
(* came before the last one was tapped, getUserInfo's taps excepted.       *)
(***************************************************************************)
THEOREM ResponseIsCurrentAlways == Spec => []ResponseIsCurrent
<1>1. IInv => ResponseIsCurrent
  BY DEF IInv
<1> QED
  BY <1>1, InvInit, InvNext, PTL DEF Spec

(***************************************************************************)
(* Whatever the user asks for, its answer finds the SDK's delegate.        *)
(***************************************************************************)
THEOREM OnlyUpdatesDroppedAlways == Spec => []OnlyUpdatesDropped
<1>1. IInv => OnlyUpdatesDropped
  BY DEF IInv
<1> QED
  BY <1>1, InvInit, InvNext, PTL DEF Spec
=============================================================================
