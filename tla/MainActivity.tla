---------------------------- MODULE MainActivity ----------------------------
(***************************************************************************)
(* The Android screen flow: MainActivity, the login and transaction        *)
(* fragments it starts from MainFragment's buttons, and the MyDialog that  *)
(* reports their results.                                                  *)
(*                                                                         *)
(* Everything here runs on the main thread, so what interleaves are whole  *)
(* messages of the main looper: user events, the SDK's callbacks,          *)
(* lifecycle changes and the execution of the fragment transactions that   *)
(* commit(), show(), dismiss() and popBackStack() only enqueue.            *)
(***************************************************************************)
EXTENDS Naturals, Sequences

CONSTANTS
  Flow,      \* fragments that startFragment may start, each at most once
  MaxHost,   \* bound on the MainActivity instances ever created
  NoFlow,
  NoDialog

ASSUME ConstantAssumption ==
  /\ MaxHost \in Nat
  /\ NoFlow \notin Flow
  /\ NoDialog \notin Flow \X {"code", "infos"}

(***************************************************************************)
(* A MyDialog is named after the callback that creates it: the one that    *)
(* brings only a WaltzCode or the one that also brings DDInfos.            *)
(***************************************************************************)
Dialog == Flow \X {"code", "infos"}
FlowOf(d) == d[1]

Host == 1 .. MaxHost
Code == {"ACCESS_GRANTED", "OTHER"}

VARIABLES
  host,       \* the MainActivity instance created last, 0 before the first
  activity,   \* its lifecycle state
  stack,      \* the FragmentManager's back stack of started flows
  pending,    \* its mPendingActions
  draining,   \* execPendingActions is running
  flow,       \* per flow: its state, kind, callback owner and callbacks made
  mMyDialog,  \* per MainActivity instance: the field of that name
  dialog,     \* per MyDialog: where it is in its life
  mCode,      \* per MyDialog: the field of that name
  infosShown, \* per MyDialog: the flow whose DDInfos its text view shows
  crash,      \* the exception that ended the process, "none" if none has
  poppedBy,   \* history, per MyDialog: the flow its popBackStack removed
  late,       \* history: an SDK callback came after its fragment was gone
  overlap     \* history: a flow was started while another was still queued

vars == <<host, activity, stack, pending, draining, flow, mMyDialog,
          dialog, mCode, infosShown, crash, poppedBy, late, overlap>>

FlowState == {"idle", "queued", "open", "lost"}
DialogState == {"none", "queued", "shown", "dismissed", "removed"}

FlowRecord == [state : FlowState, kind : {"login", "transaction"},
               owner : 0 .. MaxHost, told : SUBSET {"code", "infos"}]

Op == [op : {"replace"}, flow : Flow]
        \cup [op : {"show", "remove", "pop"}, dialog : Dialog]
        \cup [op : {"back", "save"}]

TypeOK ==
  /\ host \in 0 .. MaxHost
  /\ activity \in {"resumed", "stopped", "gone"}
  /\ stack \in Seq(Flow)
  /\ pending \in Seq(Op)
  /\ draining \in BOOLEAN
  /\ flow \in [Flow -> FlowRecord]
  /\ mMyDialog \in [Host -> Dialog \cup {NoDialog}]
  /\ dialog \in [Dialog -> DialogState]
  /\ mCode \in [Dialog -> Code \cup {"null"}]
  /\ infosShown \in [Dialog -> Flow \cup {NoFlow}]
  /\ crash \in {"none", "stateLoss", "noCode", "noView"}
  /\ poppedBy \in [Dialog -> Flow \cup {NoFlow}]
  /\ late \in BOOLEAN
  /\ overlap \in BOOLEAN

history == <<poppedBy, late, overlap>>

Init ==
  /\ host = 0
  /\ activity = "gone"
  /\ stack = <<>>
  /\ pending = <<>>
  /\ draining = FALSE
  /\ flow = [f \in Flow |-> [state |-> "idle", kind |-> "login", owner |-> 0,
                             told |-> {}]]
  /\ mMyDialog = [h \in Host |-> NoDialog]
  /\ dialog = [d \in Dialog |-> "none"]
  /\ mCode = [d \in Dialog |-> "null"]
  /\ infosShown = [d \in Dialog |-> NoFlow]
  /\ crash = "none"
  /\ poppedBy = [d \in Dialog |-> NoFlow]
  /\ late = FALSE
  /\ overlap = FALSE

InBackStack(f) == \E i \in 1 .. Len(stack) : stack[i] = f
DialogsShown == {d \in Dialog : dialog[d] = "shown"}
ViewCreated(d) == dialog[d] \in {"shown", "dismissed", "removed"}
Granted(d) == mCode[d] = "ACCESS_GRANTED"

\* The window accepts a user event: nothing else is running on the main thread.
Idle == activity = "resumed" /\ ~draining

\* The callbacks of a process that has ended are never made.
CallbacksLost ==
  [f \in Flow |-> IF flow[f].state = "idle" THEN flow[f]
                  ELSE [flow[f] EXCEPT !.state = "lost"]]

\* Nor are the dialogs it had still there.
DialogsLost ==
  [d \in Dialog |-> IF dialog[d] = "none" THEN "none" ELSE "removed"]

-----------------------------------------------------------------------------
(***************************************************************************)
(* Lifecycle.                                                              *)
(***************************************************************************)

\* Mutant: onCreate does not look at the saved state.
OnCreate_Unconditional(savedInstanceState) ==
  /\ host < MaxHost
  /\ host' = host + 1
  /\ activity' = "resumed"
  /\ stack' = <<>>
  /\ pending' = <<>>

(***************************************************************************)
(* onCreate adds a MainFragment, which no back key removes, when there is  *)
(* no saved state; otherwise it leaves what the saved state restores: the  *)
(* MainFragment and, above it, the back stack.                             *)
(***************************************************************************)
OnCreate(savedInstanceState) ==
  /\ host < MaxHost
  /\ host' = host + 1
  /\ activity' = "resumed"
  /\ stack' = IF savedInstanceState THEN stack ELSE <<>>
  /\ pending' = <<>>

\* The launcher starts the activity: afresh, or in a new process after a crash.
Launch ==
  /\ activity = "gone"
  /\ OnCreate(FALSE)
  /\ flow' = IF crash = "none" THEN flow ELSE CallbacksLost
  /\ dialog' = IF crash = "none" THEN dialog ELSE DialogsLost
  /\ crash' = "none"
  /\ UNCHANGED <<draining, mMyDialog, mCode, infosShown, history>>

\* Leaving the screen drains the FragmentManager's queue, then saves its state.
Stop ==
  /\ Idle
  /\ pending' = Append(pending, [op |-> "save"])
  /\ draining' = TRUE
  /\ UNCHANGED <<host, activity, stack, flow, mMyDialog, dialog,
                 mCode, infosShown, crash, history>>

Restart ==
  /\ activity = "stopped"
  /\ activity' = "resumed"
  /\ UNCHANGED <<host, stack, pending, draining, flow, mMyDialog,
                 dialog, mCode, infosShown, crash, history>>

(***************************************************************************)
(* A stopped activity is destroyed and created again from its saved state: *)
(* a rotation, or (killed) the end of its process. Fragments come back     *)
(* through their default constructors: a restored MyDialog has no mCode,   *)
(* and onViewCreated calls mCode.toString().                               *)
(***************************************************************************)
Recreate(killed) ==
  /\ activity = "stopped"
  /\ OnCreate(TRUE)
  /\ DialogsShown = {}
  /\ flow' = IF killed THEN CallbacksLost ELSE flow
  /\ UNCHANGED <<draining, mMyDialog, dialog, mCode, infosShown, crash, history>>

RecreateWithDialog ==
  /\ activity = "stopped"
  /\ DialogsShown # {}
  /\ activity' = "gone"
  /\ crash' = "noCode"
  /\ UNCHANGED <<host, stack, pending, draining, flow, mMyDialog,
                 dialog, mCode, infosShown, history>>

(***************************************************************************)
(* The back key. A dialog on the screen takes the key and, not being       *)
(* cancelable, ignores it. Otherwise popBackStackImmediate drains the      *)
(* queue and pops; when there is nothing to pop the activity finishes.     *)
(***************************************************************************)
Back ==
  /\ Idle
  /\ DialogsShown = {}
  /\ pending' = Append(pending, [op |-> "back"])
  /\ draining' = TRUE
  /\ UNCHANGED <<host, activity, stack, flow, mMyDialog, dialog,
                 mCode, infosShown, crash, history>>

-----------------------------------------------------------------------------
(***************************************************************************)
(* MainFragment's buttons. They can be tapped while its view is what the   *)
(* window shows, which lasts until a queued replace is executed.           *)
(***************************************************************************)
StartFragment(f, kind) ==
  /\ Idle
  /\ DialogsShown = {}
  /\ stack = <<>>
  /\ flow[f].state = "idle"
  /\ flow' = [flow EXCEPT ![f].state = "queued", ![f].kind = kind,
                          ![f].owner = host]
  /\ pending' = Append(pending, [op |-> "replace", flow |-> f])
  /\ overlap' = (overlap \/ \E i \in 1 .. Len(pending) : pending[i].op = "replace")
  /\ UNCHANGED <<host, activity, stack, draining, mMyDialog, dialog,
                 mCode, infosShown, crash, poppedBy, late>>

OnLogin(f) == StartFragment(f, "login")
OnStartTransaction(f) == StartFragment(f, "transaction")

-----------------------------------------------------------------------------
(***************************************************************************)
(* The SDK's callbacks. showDialog runs on the activity that started the   *)
(* flow, which may have left the screen since.                             *)
(***************************************************************************)

\* Mutant: the dialog is built and kept, but show() is not called.
ShowNewDialog_NoShow(h, d, code) ==
  /\ mMyDialog[h] = NoDialog
  /\ mCode' = [mCode EXCEPT ![d] = code]
  /\ mMyDialog' = [mMyDialog EXCEPT ![h] = d]
  /\ dialog' = [dialog EXCEPT ![d] = "queued"]
  /\ UNCHANGED <<activity, crash, pending, infosShown>>

\* show() commits: an IllegalStateException once the state has been saved.
ShowNewDialog(h, d, code) ==
  /\ mMyDialog[h] = NoDialog
  /\ mCode' = [mCode EXCEPT ![d] = code]
  /\ mMyDialog' = [mMyDialog EXCEPT ![h] = d]
  /\ IF h = host /\ activity = "resumed"
       THEN /\ dialog' = [dialog EXCEPT ![d] = "queued"]
            /\ pending' = Append(pending, [op |-> "show", dialog |-> d])
            /\ UNCHANGED <<activity, crash>>
       ELSE /\ activity' = "gone"
            /\ crash' = "stateLoss"
            /\ UNCHANGED <<dialog, pending>>
  /\ UNCHANGED infosShown

\* refreshDDInfos is called on a dialog whose view may not exist yet.
RefreshDDInfos(d, f) ==
  /\ IF ~Granted(d)
       THEN UNCHANGED <<infosShown, activity, crash>>
       ELSE IF ViewCreated(d)
         THEN /\ infosShown' = [infosShown EXCEPT ![d] = f]
              /\ UNCHANGED <<activity, crash>>
         ELSE /\ activity' = "gone"
              /\ crash' = "noView"
              /\ UNCHANGED infosShown
  /\ UNCHANGED <<mMyDialog, dialog, mCode, pending>>

\* Mutant: no else branch, so that DDInfos that come after the code are ignored.
ShowDialog_NoRefresh(h, f, code, part) ==
  \/ ShowNewDialog(h, <<f, part>>, code)
  \/ /\ mMyDialog[h] # NoDialog
     /\ UNCHANGED <<mMyDialog, dialog, mCode, pending, infosShown, activity, crash>>

\* A result that comes while the activity has a dialog brings at most its DDInfos.
ShowDialog(h, f, code, part) ==
  \/ ShowNewDialog(h, <<f, part>>, code)
  \/ /\ mMyDialog[h] # NoDialog
     /\ part = "infos"
     /\ RefreshDDInfos(mMyDialog[h], f)
  \/ /\ mMyDialog[h] # NoDialog
     /\ part = "code"
     /\ UNCHANGED <<mMyDialog, dialog, pending, mCode, infosShown, activity, crash>>

Callback(f, code, part) ==
  /\ ~draining
  /\ crash = "none"
  /\ flow[f].state = "open"
  /\ flow' = [flow EXCEPT ![f].told = @ \cup {part}]
  /\ late' = (late \/ ~InBackStack(f))
  /\ ShowDialog(flow[f].owner, f, code, part)
  /\ UNCHANGED <<host, stack, draining, poppedBy, overlap>>

\* LogInCallback.onComplete, once.
LoginComplete(f) ==
  /\ flow[f].kind = "login"
  /\ flow[f].told = {}
  /\ Callback(f, "OTHER", "code")

(***************************************************************************)
(* TransactionCallback has two overloads of onTransactionDone. The SDK may *)
(* call one of them or both, in either order, each once.                   *)
(***************************************************************************)
TransactionDone(f, code) ==
  /\ flow[f].kind = "transaction"
  /\ "code" \notin flow[f].told
  /\ Callback(f, code, "code")

\* The overload with DDInfos.
TransactionDoneWithInfos(f, code) ==
  /\ flow[f].kind = "transaction"
  /\ "infos" \notin flow[f].told
  /\ Callback(f, code, "infos")

\* Mutant: onDismiss does not forget the dialog.
OnDismiss_KeepsField(d) ==
  /\ Idle
  /\ dialog[d] = "shown"
  /\ dialog' = [dialog EXCEPT ![d] = "dismissed"]
  /\ pending' = Append(Append(pending, [op |-> "remove", dialog |-> d]),
                       [op |-> "pop", dialog |-> d])
  /\ UNCHANGED <<host, activity, stack, draining, flow, mMyDialog, mCode,
                 infosShown, crash, history>>

\* Mutant: onDismiss does not pop the flow.
OnDismiss_NoPop(d) ==
  /\ Idle
  /\ dialog[d] = "shown"
  /\ dialog' = [dialog EXCEPT ![d] = "dismissed"]
  /\ pending' = Append(pending, [op |-> "remove", dialog |-> d])
  /\ mMyDialog' = [mMyDialog EXCEPT ![flow[FlowOf(d)].owner] = NoDialog]
  /\ UNCHANGED <<host, activity, stack, draining, flow, mCode, infosShown,
                 crash, history>>

(***************************************************************************)
(* The dialog's only button: dismiss() hides it and queues its removal,    *)
(* then MainActivity's onDismiss queues a pop and forgets the dialog.      *)
(***************************************************************************)
OnDismiss(d) ==
  /\ Idle
  /\ dialog[d] = "shown"
  /\ dialog' = [dialog EXCEPT ![d] = "dismissed"]
  /\ pending' = Append(Append(pending, [op |-> "remove", dialog |-> d]),
                       [op |-> "pop", dialog |-> d])
  /\ mMyDialog' = [mMyDialog EXCEPT ![flow[FlowOf(d)].owner] = NoDialog]
  /\ UNCHANGED <<host, activity, stack, draining, flow, mCode, infosShown,
                 crash, history>>

-----------------------------------------------------------------------------
(***************************************************************************)
(* The FragmentManager. A posted message starts execPendingActions, which  *)
(* executes everything enqueued, in order, before anything else runs.      *)
(***************************************************************************)
ExecPending ==
  /\ Idle
  /\ pending # <<>>
  /\ draining' = TRUE
  /\ UNCHANGED <<host, activity, stack, pending, flow, mMyDialog,
                 dialog, mCode, infosShown, crash, history>>

Dequeue(op) ==
  /\ draining
  /\ pending # <<>>
  /\ Head(pending).op = op
  /\ pending' = Tail(pending)
  /\ draining' = (Tail(pending) # <<>>)

PopStack == stack' = SubSeq(stack, 1, Len(stack) - 1)

RunReplace ==
  /\ Dequeue("replace")
  /\ stack' = Append(stack, Head(pending).flow)
  /\ flow' = [flow EXCEPT ![Head(pending).flow].state = "open"]
  /\ UNCHANGED <<host, activity, mMyDialog, dialog, mCode, infosShown, crash,
                 history>>

\* MyDialog.onViewCreated shows the DDInfos that the dialog was built with.
RunShow ==
  /\ Dequeue("show")
  /\ LET d == Head(pending).dialog IN
       /\ dialog' = [dialog EXCEPT ![d] = "shown"]
       /\ infosShown' = IF Granted(d) /\ d[2] = "infos"
                          THEN [infosShown EXCEPT ![d] = FlowOf(d)]
                          ELSE infosShown
  /\ UNCHANGED <<host, activity, stack, flow, mMyDialog, mCode, crash, history>>

\* Mutant: the listener is called by the dialog's removal as well.
RunRemove_PopsToo ==
  /\ draining
  /\ pending # <<>>
  /\ Head(pending).op = "remove"
  /\ pending' = Append(Tail(pending), [op |-> "pop", dialog |-> Head(pending).dialog])
  /\ draining' = TRUE
  /\ dialog' = [dialog EXCEPT ![Head(pending).dialog] = "removed"]
  /\ UNCHANGED <<host, activity, stack, flow, mMyDialog, mCode, infosShown,
                 crash, history>>

RunRemove ==
  /\ Dequeue("remove")
  /\ dialog' = [dialog EXCEPT ![Head(pending).dialog] = "removed"]
  /\ UNCHANGED <<host, activity, stack, flow, mMyDialog, mCode, infosShown,
                 crash, history>>

\* popBackStack on an empty back stack does nothing.
RunPop ==
  /\ Dequeue("pop")
  /\ IF stack = <<>>
       THEN UNCHANGED <<stack, poppedBy>>
       ELSE /\ PopStack
            /\ poppedBy' = [poppedBy EXCEPT ![Head(pending).dialog] =
                                              stack[Len(stack)]]
  /\ UNCHANGED <<host, activity, flow, mMyDialog, dialog, mCode, infosShown,
                 crash, late, overlap>>

RunBack ==
  /\ Dequeue("back")
  /\ stack # <<>>
  /\ PopStack
  /\ UNCHANGED <<host, activity, flow, mMyDialog, dialog, mCode, infosShown,
                 crash, history>>

Finish ==
  /\ Dequeue("back")
  /\ stack = <<>>
  /\ activity' = "gone"
  /\ dialog' = [d \in Dialog |-> IF dialog[d] = "shown" THEN "removed" ELSE dialog[d]]
  /\ UNCHANGED <<host, stack, flow, mMyDialog, mCode, infosShown, crash, history>>

RunSave ==
  /\ Dequeue("save")
  /\ activity' = "stopped"
  /\ UNCHANGED <<host, stack, flow, mMyDialog, dialog, mCode, infosShown, crash,
                 history>>

RunPending == RunReplace \/ RunShow \/ RunRemove \/ RunPop \/ RunBack \/ Finish
              \/ RunSave

-----------------------------------------------------------------------------
Next ==
  \/ Launch \/ Stop \/ Restart \/ RecreateWithDialog \/ Back
  \/ \E killed \in BOOLEAN : Recreate(killed)
  \/ \E f \in Flow : \/ OnLogin(f) \/ OnStartTransaction(f) \/ LoginComplete(f)
                     \/ \E code \in Code : \/ TransactionDone(f, code)
                                           \/ TransactionDoneWithInfos(f, code)
  \/ \E d \in Dialog : OnDismiss(d)
  \/ ExecPending \/ RunPending

Spec == Init /\ [][Next]_vars

\* The main looper reaches the posted message and execPendingActions returns.
Fairness == WF_vars(ExecPending) /\ WF_vars(RunPending)

FairSpec == Spec /\ Fairness

-----------------------------------------------------------------------------
(***************************************************************************)
(* Properties.                                                             *)
(***************************************************************************)

(***************************************************************************)
(* While the activity lives, its field mMyDialog is non-null exactly when  *)
(* one dialog is on the screen or about to be. It is what keeps showDialog *)
(* from stacking a second dialog over the first, and onDismiss from        *)
(* leaving the activity unable to show any further result.                 *)
(***************************************************************************)
FieldTracksDialog ==
  activity # "gone" =>
    {d \in Dialog : dialog[d] \in {"queued", "shown"}} = {mMyDialog[host]} \ {NoDialog}

(***************************************************************************)
(* Dismissing a dialog removes the fragment of the flow whose result it    *)
(* showed, or nothing if the user had already gone back: true of onDismiss *)
(* as long as the SDK answers while its fragment is there and the user     *)
(* does not start two flows at once.                                       *)
(***************************************************************************)
PopsOwnFlow ==
  ~late /\ ~overlap => \A d \in Dialog : poppedBy[d] \in {NoFlow, FlowOf(d)}

(***************************************************************************)
(* Under the same two conditions, the elevator and floor that a dialog     *)
(* shows were sent for the transaction whose access it reports.            *)
(***************************************************************************)
InfosOfOwnFlow ==
  ~late /\ ~overlap => \A d \in Dialog : infosShown[d] \in {NoFlow, FlowOf(d)}

(***************************************************************************)
(* DDInfos that a dialog has to show: those of its flow, once they came.   *)
(* showDialog keeps no DDInfos but in the dialog they came with or         *)
(* refreshed, so when they came first and made a dialog of their own, the  *)
(* dialog that the code alone makes after that one was dismissed has none. *)
(***************************************************************************)
InfosDue(d) ==
  /\ "infos" \in flow[FlowOf(d)].told
  /\ d[2] = "infos" \/ dialog[<<FlowOf(d), "infos">>] = "none"

(***************************************************************************)
(* Under the same two conditions, a dialog that reports an access shows    *)
(* the DDInfos due to it: whether they came before the code, with it or    *)
(* after it, and whether or not the dialog was already on the screen.      *)
(***************************************************************************)
InfosReachDialog ==
  ~late /\ ~overlap /\ crash = "none" =>
    \A d \in Dialog :
      dialog[d] = "shown" /\ Granted(d) /\ InfosDue(d) => infosShown[d] = FlowOf(d)

(***************************************************************************)
(* Under the same two conditions, the user is told of every flow the SDK   *)
(* has answered for: showDialog never drops a result because of a dialog   *)
(* that some earlier flow left behind.                                     *)
(***************************************************************************)
EveryFlowReported ==
  ~late /\ ~overlap =>
    \A f \in Flow : flow[f].state = "open" /\ flow[f].told # {} =>
      crash # "none" \/ \E d \in Dialog : FlowOf(d) = f /\ dialog[d] # "none"

(***************************************************************************)
(* A result that showDialog accepted reaches the screen, unless a crash or *)
(* the end of the activity comes first. One dialog is there at a time      *)
(* (FieldTracksDialog), so the one shown is the one that waited.           *)
(***************************************************************************)
ResultShown ==
  (\E d \in Dialog : dialog[d] = "queued")
    ~> (DialogsShown # {} \/ activity = "gone")

(***************************************************************************)
(* Under the same two conditions, once a dialog is dismissed the user gets *)
(* back to MainFragment: its flow leaves the back stack.                   *)
(***************************************************************************)
DismissReturns ==
  \A f \in Flow :
    (\E d \in Dialog : FlowOf(d) = f /\ dialog[d] = "dismissed")
      ~> (late \/ overlap \/ ~InBackStack(f) \/ activity = "gone")

(***************************************************************************)
(* What the fragment transactions, the lifecycle and the crashes of this   *)
(* module do to MainFragment is what FragmentLife promises it.             *)
(***************************************************************************)
Life == INSTANCE FragmentLife WITH
          MaxInstance <- MaxHost,
          instance <- host,
          attached <- (activity # "gone"),
          view <- (activity # "gone" /\ stack = <<>>)

MainFragmentLife == Life!LifeSpec
=============================================================================
