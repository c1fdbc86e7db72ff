---------------------------- MODULE MainFragment ----------------------------
(***************************************************************************)
(* MainFragment's requests to the Waltz SDK. Each button hands the SDK a   *)
(* callback that belongs to the fragment instance it was tapped in. The    *)
(* SDK answers later, on the main thread, in any order and whatever has    *)
(* become of that instance: its view may be gone (FragmentLife!Covered),   *)
(* or its activity, and with it getContext().                              *)
(***************************************************************************)
EXTENDS FragmentLife

CONSTANTS
  Request,   \* taps of a button that sends a request, each at most once
  NoRequest

ASSUME NoRequestAssumption == NoRequest \notin Request

VARIABLES
  kind,       \* per request: its button, "none" until it is tapped
  owner,      \* per request: the fragment instance its callback belongs to
  open,       \* the requests not answered yet
  wzCallback, \* the instance that last called WaltzSDK.setCallback, 0 if none
  found,      \* mInvitationsResult is the text view of the current view
  shown,      \* the request whose list that view shows
  crash,      \* whose callback toasted without a context, "none" if none did
  received,   \* history: the requests answered with a list
  displayed,  \* history: those whose list the window showed
  hidden,     \* history: those answered while their view was not there
  tappedIn    \* history: the instance a geofence button was last tapped in

history == <<received, displayed, hidden, tappedIn>>
reqVars == <<kind, owner, open, wzCallback>>
vars == <<lifeVars, reqVars, found, shown, crash, history>>

Lists == {"my_guests", "my_invitations"}
Kind == Lists \cup {"send_invitation"}
Code == {"SUCCESS", "FAILURE"}
Service == {"invitations", "geofence"}

TypeOK ==
  /\ LifeTypeOK
  /\ kind \in [Request -> Kind \cup {"none"}]
  /\ owner \in [Request -> 0 .. MaxInstance]
  /\ open \subseteq Request
  /\ wzCallback \in 0 .. MaxInstance
  /\ found \in BOOLEAN
  /\ shown \in Request \cup {NoRequest}
  /\ crash \in Service \cup {"none"}
  /\ received \subseteq Request
  /\ displayed \subseteq Request
  /\ hidden \subseteq Request
  /\ tappedIn \in 0 .. MaxInstance

Init ==
  /\ LifeInit
  /\ kind = [r \in Request |-> "none"]
  /\ owner = [r \in Request |-> 0]
  /\ open = {}
  /\ wzCallback = 0
  /\ found = FALSE
  /\ shown = NoRequest
  /\ crash = "none"
  /\ received = {}
  /\ displayed = {}
  /\ hidden = {}
  /\ tappedIn = 0

\* getContext() of an instance is not null.
HasContext(i) == attached /\ i = instance

-----------------------------------------------------------------------------
(***************************************************************************)
(* The fragment's life.                                                    *)
(***************************************************************************)

\* Mutant: the fields are looked up only when the fragment is first added.
OnViewCreated_FieldsKept ==
  /\ found' = ~attached
  /\ shown' = NoRequest

\* A new view starts empty, and the fields are looked up in it.
OnViewCreated ==
  /\ found' = TRUE
  /\ shown' = NoRequest

\* There is no onDestroyView: the fields keep the text views that are gone.
ViewDestroyed ==
  /\ found' = FALSE
  /\ shown' = NoRequest

\* The activity adds the fragment or uncovers it.
Appear ==
  /\ crash = "none"
  /\ Added \/ Uncovered
  /\ OnViewCreated
  /\ UNCHANGED <<reqVars, crash, history>>

\* A flow covers the fragment, or its activity is destroyed (onDetach).
Disappear ==
  /\ crash = "none"
  /\ Covered \/ Detached
  /\ ViewDestroyed
  /\ UNCHANGED <<reqVars, crash, history>>

\* The activity is created again, in the same process or (killed) in a new one.
Recreate(killed) ==
  /\ crash = "none"
  /\ Restored
  /\ IF view THEN OnViewCreated ELSE ViewDestroyed
  /\ IF killed THEN open' = {} /\ wzCallback' = 0
               ELSE UNCHANGED <<open, wzCallback>>
  /\ UNCHANGED <<kind, owner, crash, history>>

\* A crash ends the process, which makes none of the callbacks that are due.
ProcessEnds ==
  /\ crash # "none"
  /\ Detached \/ (~attached /\ UNCHANGED lifeVars)
  /\ ViewDestroyed
  /\ crash' = "none"
  /\ open' = {}
  /\ wzCallback' = 0
  /\ UNCHANGED <<kind, owner, history>>

-----------------------------------------------------------------------------
(***************************************************************************)
(* The buttons.                                                            *)
(***************************************************************************)
Tappable == attached /\ view /\ crash = "none"

Send(r, k) ==
  /\ Tappable
  /\ kind[r] = "none"
  /\ kind' = [kind EXCEPT ![r] = k]
  /\ owner' = [owner EXCEPT ![r] = instance]
  /\ open' = open \cup {r}
  /\ UNCHANGED <<lifeVars, wzCallback, found, shown, crash, history>>

SendInvitation(r) == Send(r, "send_invitation")
FetchMyGuests(r) == Send(r, "my_guests")
FetchMyInvitations(r) == Send(r, "my_invitations")

\* Mutant: setCallback is called only once.
StartGeofence_Once ==
  /\ Tappable
  /\ wzCallback' = IF wzCallback = 0 THEN instance ELSE wzCallback
  /\ tappedIn' = instance
  /\ UNCHANGED <<lifeVars, kind, owner, open, found, shown, crash, received,
                 displayed, hidden>>

\* Both replace the SDK's one WaltzCallback by one that belongs to this instance.
StartGeofence ==
  /\ Tappable
  /\ wzCallback' = instance
  /\ tappedIn' = instance
  /\ UNCHANGED <<lifeVars, kind, owner, open, found, shown, crash, received,
                 displayed, hidden>>

StopGeofence == StartGeofence

-----------------------------------------------------------------------------
(***************************************************************************)
(* The SDK's answers. Each begins with a Toast, which needs a context.     *)
(***************************************************************************)
\* Mutant: the Toast takes its context from the fragment's view.
Toast_OfView(i, service) ==
  /\ crash = "none"
  /\ crash' = IF HasContext(i) /\ view THEN "none" ELSE service

Toast(i, service) ==
  /\ crash = "none"
  /\ crash' = IF HasContext(i) THEN "none" ELSE service

OnInvitationSent(r) ==
  /\ r \in open
  /\ kind[r] = "send_invitation"
  /\ Toast(owner[r], "invitations")
  /\ open' = open \ {r}
  /\ UNCHANGED <<lifeVars, kind, owner, wzCallback, found, shown, history>>

\* mInvitationsResult is one text view for the guests and the invitations.
SetInvitationsResult(r) ==
  IF found THEN shown' = r /\ displayed' = displayed \cup {r}
           ELSE UNCHANGED <<shown, displayed>>

OnInvitationsReceived(r, code) ==
  /\ r \in open
  /\ kind[r] \in Lists
  /\ Toast(owner[r], "invitations")
  /\ open' = open \ {r}
  /\ IF HasContext(owner[r]) /\ code = "SUCCESS"
       THEN /\ SetInvitationsResult(r)
            /\ received' = received \cup {r}
            /\ hidden' = IF view THEN hidden ELSE hidden \cup {r}
            /\ UNCHANGED tappedIn
       ELSE UNCHANGED <<shown, history>>
  /\ UNCHANGED <<lifeVars, kind, owner, wzCallback, found>>

\* WaltzCallback.onTransactionDone, whenever a geofence ends a transaction.
OnTransactionDone ==
  /\ wzCallback # 0
  /\ Toast(wzCallback, "geofence")
  /\ UNCHANGED <<lifeVars, reqVars, found, shown, history>>

-----------------------------------------------------------------------------
Next ==
  \/ Appear \/ Disappear \/ ProcessEnds
  \/ \E killed \in BOOLEAN : Recreate(killed)
  \/ StartGeofence \/ StopGeofence \/ OnTransactionDone
  \/ \E r \in Request : \/ SendInvitation(r) \/ FetchMyGuests(r)
                        \/ FetchMyInvitations(r) \/ OnInvitationSent(r)
                        \/ \E code \in Code : OnInvitationsReceived(r, code)

Spec == Init /\ [][Next]_vars

-----------------------------------------------------------------------------
(***************************************************************************)
(* Properties.                                                             *)
(***************************************************************************)

(***************************************************************************)
(* A list that comes while the fragment is on the screen is shown there,   *)
(* however often a flow has covered and uncovered it since the request.    *)
(***************************************************************************)
VisibleListsDisplayed == received \subseteq displayed \cup hidden

(***************************************************************************)
(* As long as the first activity lives, no answer crashes the app: flows   *)
(* that cover MainFragment take its view, never its context. An answer     *)
(* that comes after that activity finished still finds none, and crashes.  *)
(***************************************************************************)
FirstActivityNeverCrashes == attached /\ instance = 1 => crash = "none"

(***************************************************************************)
(* Once a geofence button was tapped in the current activity, no result of *)
(* the geofence crashes the app, however often the activity was created    *)
(* again before: the SDK's one callback is that of the instance in use.    *)
(***************************************************************************)
GeofenceTapSuffices ==
  attached /\ tappedIn = instance => crash # "geofence"
=============================================================================
