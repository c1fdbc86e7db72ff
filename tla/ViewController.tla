--------------------------- MODULE ViewController ---------------------------
(***************************************************************************)
(* The iOS app: AppDelegate's launch, the three tabs, and ViewController,  *)
(* whose buttons call the Waltz SDK and which is the SDK's delegate. The   *)
(* SDK answers on the main queue, later and in any order, to whatever      *)
(* delegate it has by then. All answers share one text view, responseTV.   *)
(***************************************************************************)
EXTENDS Naturals, FiniteSets

CONSTANTS
  Request,   \* taps of a button that asks for something to show, each at most once
  Nothing    \* what responseTV shows before the first answer and once cleared

ASSUME NothingAssumption == Nothing \notin Request

VARIABLES
  phase,       \* of the launch: "start", "launched", "loaded"
  delegate,    \* WaltzSDKMgr.delegate is the ViewController
  tab,         \* tabBarVC.selectedIndex
  login,       \* the SDK has a login to finish
  transaction, \* the SDK has a transaction to finish
  update,      \* the SDK has an updateFcmToken to answer
  kind,        \* per request: its button, "none" until it is tapped
  open,        \* the requests not answered yet
  last,        \* the request tapped last
  responseTV,  \* the request whose answer it shows
  crash,       \* a force unwrap found nil
  dropped,     \* history: the answers that found no delegate
  late,        \* history: requests answered after another one was tapped
  left         \* history: the transaction's tab was left by the user or a login

history == <<dropped, late, left>>
sdk == <<login, transaction, update>>
asked == <<kind, open, last>>
vars == <<phase, delegate, tab, sdk, asked, responseTV, crash, history>>

\* The requests whose buttons clear responseTV, and the one whose does not.
Clearing == {"getMyGuests", "getMyInvitations", "sendInvitation"}
Kind == Clearing \cup {"getJWT"}

MenuTab == 0
LoginTab == 1
TransactionTab == 2

TypeOK ==
  /\ phase \in {"start", "launched", "loaded"}
  /\ delegate \in BOOLEAN
  /\ tab \in {MenuTab, LoginTab, TransactionTab}
  /\ login \in BOOLEAN
  /\ transaction \in BOOLEAN
  /\ update \in BOOLEAN
  /\ kind \in [Request -> Kind \cup {"none"}]
  /\ open \subseteq Request
  /\ last \in Request \cup {Nothing}
  /\ responseTV \in Request \cup {Nothing}
  /\ crash \in BOOLEAN
  /\ dropped \subseteq Request \cup {"login", "transaction", "update"}
  /\ late \subseteq Request
  /\ left \in BOOLEAN

Init ==
  /\ phase = "start"
  /\ delegate = FALSE
  /\ tab = MenuTab
  /\ login = FALSE
  /\ transaction = FALSE
  /\ update = FALSE
  /\ kind = [r \in Request |-> "none"]
  /\ open = {}
  /\ last = Nothing
  /\ responseTV = Nothing
  /\ crash = FALSE
  /\ dropped = {}
  /\ late = {}
  /\ left = FALSE

-----------------------------------------------------------------------------
(***************************************************************************)
(* Launch. A token may come as soon as Firebase is configured, before the  *)
(* first view is loaded and the SDK has a delegate.                        *)
(***************************************************************************)
DidFinishLaunching ==
  /\ phase = "start"
  /\ phase' = "launched"
  /\ UNCHANGED <<delegate, tab, sdk, asked, responseTV, crash, history>>

\* Mutant: the SDK is not given its delegate.
ViewDidLoad_NoDelegate ==
  /\ phase = "launched"
  /\ phase' = "loaded"
  /\ UNCHANGED <<delegate, tab, sdk, asked, responseTV, crash, history>>

ViewDidLoad ==
  /\ phase = "launched"
  /\ phase' = "loaded"
  /\ delegate' = TRUE
  /\ UNCHANGED <<tab, sdk, asked, responseTV, crash, history>>

\* messaging(_:didReceiveRegistrationToken:) calls updateFcmToken.
DidReceiveRegistrationToken ==
  /\ ~crash
  /\ phase # "start"
  /\ update' = TRUE
  /\ UNCHANGED <<phase, delegate, tab, login, transaction, asked, responseTV,
                 crash, history>>

-----------------------------------------------------------------------------
(***************************************************************************)
(* The user: the tab bar, and the buttons of the menu's view.              *)
(***************************************************************************)
Running == phase = "loaded" /\ ~crash
OnMenu == Running /\ tab = MenuTab

SelectTab(t) ==
  /\ Running
  /\ tab # t
  /\ tab' = t
  /\ left' = (left \/ transaction)
  /\ UNCHANGED <<phase, delegate, sdk, asked, responseTV, crash, dropped, late>>

Login ==
  /\ OnMenu
  /\ tab' = LoginTab
  /\ login' = TRUE
  /\ UNCHANGED <<phase, delegate, transaction, update, asked, responseTV, crash,
                 history>>

\* Mutant: the tab's index is one too small.
StartTransaction_LoginTab ==
  /\ OnMenu
  /\ tab' = TransactionTab - 1
  /\ transaction' = TRUE
  /\ left' = login
  /\ UNCHANGED <<phase, delegate, login, update, asked, responseTV, crash,
                 dropped, late>>

\* The transaction is drawn in the customParentView of the third tab.
StartTransaction ==
  /\ OnMenu
  /\ tab' = TransactionTab
  /\ transaction' = TRUE
  /\ left' = login
  /\ UNCHANGED <<phase, delegate, login, update, asked, responseTV, crash,
                 dropped, late>>

Ask(r, k) ==
  /\ OnMenu
  /\ kind[r] = "none"
  /\ kind' = [kind EXCEPT ![r] = k]
  /\ open' = open \cup {r}
  /\ last' = r
  /\ UNCHANGED <<phase, delegate, tab, sdk, crash, history>>

\* Mutant: the earlier answer is left on the screen.
GetMyGuestsList_NoClear(r) == Ask(r, "getMyGuests") /\ UNCHANGED responseTV

GetMyGuestsList(r) == Ask(r, "getMyGuests") /\ responseTV' = Nothing
GetMyInvitationsList(r) == Ask(r, "getMyInvitations") /\ responseTV' = Nothing
SendInvitation(r) == Ask(r, "sendInvitation") /\ responseTV' = Nothing
GetUserInfo(r) == Ask(r, "getJWT") /\ UNCHANGED responseTV

-----------------------------------------------------------------------------
(***************************************************************************)
(* The SDK's answers. Without a delegate they go nowhere.                  *)
(***************************************************************************)
Deliver(what) == dropped' = IF delegate THEN dropped ELSE dropped \cup {what}

\* The login's end brings the user back to the menu, wherever the user is.
DidFinishWaltzLogin ==
  /\ ~crash
  /\ login
  /\ login' = FALSE
  /\ Deliver("login")
  /\ tab' = IF delegate THEN MenuTab ELSE tab
  /\ UNCHANGED <<phase, delegate, transaction, update, asked, responseTV, crash,
                 late, left>>

\* Only logged: the user stays on the transaction's tab.
DidFinishWaltzTransaction ==
  /\ ~crash
  /\ transaction
  /\ transaction' = FALSE
  /\ Deliver("transaction")
  /\ UNCHANGED <<phase, delegate, tab, login, update, asked, responseTV, crash,
                 late, left>>

DidUpdateWaltzFCMToken ==
  /\ ~crash
  /\ update
  /\ update' = FALSE
  /\ Deliver("update")
  /\ UNCHANGED <<phase, delegate, tab, login, transaction, asked, responseTV,
                 crash, late, left>>

Answer(r) ==
  /\ ~crash
  /\ r \in open
  /\ open' = open \ {r}
  /\ Deliver(r)
  /\ UNCHANGED <<phase, delegate, tab, sdk, kind, last, left>>

\* The guests, the invitations or "Success"; a failure is only logged.
DidAnswer(r, success) ==
  /\ kind[r] \in Clearing
  /\ Answer(r)
  /\ IF success /\ delegate
       THEN /\ responseTV' = r
            /\ late' = IF r = last THEN late ELSE late \cup {r}
       ELSE UNCHANGED <<responseTV, late>>
  /\ UNCHANGED crash

\* Four claims of the token are force unwrapped.
DidGetWaltzJWT(r, jwt) ==
  /\ kind[r] = "getJWT"
  /\ Answer(r)
  /\ crash' = (jwt = "claimMissing" /\ delegate)
  /\ IF jwt = "complete" /\ delegate
       THEN /\ responseTV' = r
            /\ late' = IF r = last THEN late ELSE late \cup {r}
       ELSE UNCHANGED <<responseTV, late>>

-----------------------------------------------------------------------------
Next ==
  \/ DidFinishLaunching \/ ViewDidLoad \/ DidReceiveRegistrationToken
  \/ \E t \in {MenuTab, LoginTab, TransactionTab} : SelectTab(t)
  \/ Login \/ StartTransaction
  \/ DidFinishWaltzLogin \/ DidFinishWaltzTransaction \/ DidUpdateWaltzFCMToken
  \/ \E r \in Request :
       \/ GetMyGuestsList(r) \/ GetMyInvitationsList(r) \/ SendInvitation(r)
       \/ GetUserInfo(r)
       \/ \E success \in BOOLEAN : DidAnswer(r, success)
       \/ \E jwt \in {"none", "claimMissing", "complete"} : DidGetWaltzJWT(r, jwt)

Spec == Init /\ [][Next]_vars

-----------------------------------------------------------------------------
(***************************************************************************)
(* Properties.                                                             *)
(***************************************************************************)

(***************************************************************************)
(* A transaction started with no login unfinished stays in front of the    *)
(* user until it is done or the user leaves it: no callback selects a tab  *)
(* over it.                                                                *)
(***************************************************************************)
TransactionStaysVisible == transaction /\ ~left => tab = TransactionTab

(***************************************************************************)
(* What responseTV shows answers the button tapped last, unless it came    *)
(* after that tap, or the last button was getUserInfo, which leaves the    *)
(* earlier answer there until its own comes.                               *)
(***************************************************************************)
ResponseIsCurrent ==
  responseTV # Nothing =>
    \/ responseTV = last
    \/ responseTV \in late
    \/ kind[last] = "getJWT"

(***************************************************************************)
(* Every answer to something the user asked for finds the delegate. Only   *)
(* the answer to a token that came during the launch may find none.        *)
(***************************************************************************)
OnlyUpdatesDropped == dropped \subseteq {"update"}
=============================================================================
