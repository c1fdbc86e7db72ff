------------------------ MODULE MainActivityProofs ------------------------
(***************************************************************************)
(* Theorems about the Android screen flow, for any number of flows and of  *)
(* MainActivity instances.                                                 *)
(***************************************************************************)
EXTENDS MainActivity, SequenceTheorems, TLAPS

-----------------------------------------------------------------------------
(***************************************************************************)
(* Type correctness.                                                       *)
(***************************************************************************)

\* What the actions enqueue are operations of the FragmentManager.
LEMMA OpTypes ==
  /\ \A f \in Flow : [op |-> "replace", flow |-> f] \in Op
  /\ \A d \in Dialog : /\ [op |-> "show", dialog |-> d] \in Op
                       /\ [op |-> "remove", dialog |-> d] \in Op
                       /\ [op |-> "pop", dialog |-> d] \in Op
  /\ [op |-> "back"] \in Op
  /\ [op |-> "save"] \in Op
BY DEF Op

\* The operand of an operation is what its kind says.
LEMMA OpOperands ==
  ASSUME NEW o \in Op
  PROVE  /\ o.op = "replace" => o.flow \in Flow
         /\ o.op \in {"show", "remove", "pop"} =>
              o.dialog \in Dialog /\ o = [op |-> o.op, dialog |-> o.dialog]
BY DEF Op

\* Enqueuing puts an operation behind those that wait.
LEMMA EnqueueTypes ==
  ASSUME NEW q \in Seq(Op), NEW o \in Op
  PROVE  /\ Append(q, o) \in Seq(Op)
         /\ Len(Append(q, o)) = Len(q) + 1
         /\ DOMAIN Append(q, o) = 1 .. Len(q) + 1
         /\ \A i \in 1 .. Len(q) : Append(q, o)[i] = q[i]
         /\ Append(q, o)[Len(q) + 1] = o
OBVIOUS

\* Executing the first operation leaves a queue of operations.
LEMMA DequeueTypes ==
  ASSUME TypeOK, NEW op, Dequeue(op)
  PROVE  /\ Head(pending) \in Op
         /\ pending' \in Seq(Op)
         /\ draining' \in BOOLEAN
BY HeadTailProperties DEF TypeOK, Dequeue

\* A pop leaves a back stack of flows and takes one of them off.
LEMMA PopTypes ==
  ASSUME TypeOK, PopStack, stack # <<>>
  PROVE  stack' \in Seq(Flow) /\ stack[Len(stack)] \in Flow
<1>1. Len(stack) \in Nat \ {0} /\ \A i \in 1 .. Len(stack) : stack[i] \in Flow
  BY EmptySeq, ElementOfSeq DEF TypeOK
<1>2. SubSeq(stack, 1, Len(stack) - 1) \in Seq(Flow)
  BY <1>1, SubSeqProperties
<1> QED
  BY <1>1, <1>2 DEF PopStack

\* The end of the process keeps the flows' records well typed.
LEMMA CallbacksLostType ==
  ASSUME flow \in [Flow -> FlowRecord]
  PROVE  CallbacksLost \in [Flow -> FlowRecord]
BY DEF CallbacksLost, FlowRecord, FlowState

\* It changes neither what the flows were told nor who started them.
LEMMA CallbacksLostKeeps ==
  ASSUME flow \in [Flow -> FlowRecord], NEW f \in Flow
  PROVE  /\ CallbacksLost[f].told = flow[f].told
         /\ CallbacksLost[f].owner = flow[f].owner
         /\ CallbacksLost[f].state = "idle" => flow[f].state = "idle"
<1>1. flow[f] \in FlowRecord
  OBVIOUS
<1> QED
  BY <1>1 DEF CallbacksLost, FlowRecord

\* Whatever showDialog does with a callback, it keeps the types.
LEMMA CallbackTypes ==
  ASSUME TypeOK, NEW f \in Flow, NEW code \in Code, NEW part \in {"code", "infos"},
         Callback(f, code, part)
  PROVE  TypeOK'
<1> DEFINE h == flow[f].owner
<1>1. flow' \in [Flow -> FlowRecord]
  <2>1. flow \in [Flow -> FlowRecord] /\ flow[f] \in FlowRecord
    BY DEF TypeOK
  <2>2. flow[f].told \cup {part} \in SUBSET {"code", "infos"}
    BY <2>1 DEF FlowRecord
  <2> QED
    BY <2>1, <2>2 DEF Callback, FlowRecord
<1>2. <<f, part>> \in Dialog
  BY DEF Dialog
<1>6. late' \in BOOLEAN
  BY DEF Callback
<1>3. CASE ShowNewDialog(h, <<f, part>>, code)
  <2>1. mMyDialog' \in [Host -> Dialog \cup {NoDialog}]
    BY <1>2, <1>3 DEF TypeOK, ShowNewDialog
  <2>3. mCode' \in [Dialog -> Code \cup {"null"}]
    BY <1>2, <1>3 DEF TypeOK, ShowNewDialog
  <2>2. /\ activity' \in {"resumed", "stopped", "gone"}
        /\ crash' \in {"none", "stateLoss", "noCode", "noView"}
        /\ dialog' \in [Dialog -> DialogState]
        /\ pending' \in Seq(Op)
        /\ infosShown' \in [Dialog -> Flow \cup {NoFlow}]
    <3>1. CASE h = host /\ activity = "resumed"
      <4>1. Append(pending, [op |-> "show", dialog |-> <<f, part>>]) \in Seq(Op)
        BY <1>2, OpTypes, EnqueueTypes DEF TypeOK
      <4> QED
        BY <1>2, <1>3, <3>1, <4>1 DEF TypeOK, ShowNewDialog, DialogState
    <3>2. CASE ~(h = host /\ activity = "resumed")
      BY <1>3, <3>2 DEF TypeOK, ShowNewDialog
    <3> QED
      BY <3>1, <3>2
  <2> QED
    BY <1>1, <1>6, <2>1, <2>2, <2>3 DEF TypeOK, Callback
<1>4. CASE mMyDialog[h] # NoDialog /\ RefreshDDInfos(mMyDialog[h], f)
  BY <1>1, <1>6, <1>4 DEF TypeOK, Callback, RefreshDDInfos
<1>5. CASE UNCHANGED <<mMyDialog, dialog, mCode, pending, infosShown,
                                                activity, crash>>
  BY <1>1, <1>6, <1>5 DEF TypeOK, Callback
<1> QED
  BY <1>3, <1>4, <1>5 DEF Callback, ShowDialog

\* The types hold at launch.
LEMMA TypeInit == Init => TypeOK
<1> SUFFICES ASSUME Init PROVE TypeOK
  OBVIOUS
<1>1. flow \in [Flow -> FlowRecord]
  BY ConstantAssumption DEF Init, FlowRecord, FlowState
<1>2. stack \in Seq(Flow) /\ pending \in Seq(Op)
  BY EmptySeq DEF Init
<1> QED
  <2>1. host \in 0 .. MaxHost
    BY ConstantAssumption DEF Init
  <2>2. draining \in BOOLEAN /\ late \in BOOLEAN /\ overlap \in BOOLEAN
    BY DEF Init
  <2> QED
    BY <1>1, <1>2, <2>1, <2>2 DEF Init, TypeOK, DialogState

\* A step is one of these.
LEMMA NextCases ==
  Next =>
    \/ Launch \/ Stop \/ Restart \/ RecreateWithDialog \/ Back
    \/ \E killed \in BOOLEAN : Recreate(killed)
    \/ \E f \in Flow : OnLogin(f) \/ OnStartTransaction(f)
    \/ \E f \in Flow, code \in Code, part \in {"code", "infos"} :
         /\ Callback(f, code, part)
         /\ part \notin flow[f].told
    \/ \E d \in Dialog : OnDismiss(d)
    \/ ExecPending \/ RunPending
<1>1. ASSUME NEW f \in Flow, LoginComplete(f)
      PROVE  Callback(f, "OTHER", "code") /\ "code" \notin flow[f].told
  BY <1>1 DEF LoginComplete
<1>2. ASSUME NEW f \in Flow, NEW code \in Code, TransactionDone(f, code)
      PROVE  Callback(f, code, "code") /\ "code" \notin flow[f].told
  BY <1>2 DEF TransactionDone
<1>3. ASSUME NEW f \in Flow, NEW code \in Code, TransactionDoneWithInfos(f, code)
      PROVE  Callback(f, code, "infos") /\ "infos" \notin flow[f].told
  BY <1>3 DEF TransactionDoneWithInfos
<1>4. "OTHER" \in Code
  BY DEF Code
<1> QED
  BY <1>1, <1>2, <1>3, <1>4 DEF Next

\* Every step keeps the types.
LEMMA TypeNext == TypeOK /\ [Next]_vars => TypeOK'
<1> SUFFICES ASSUME TypeOK, [Next]_vars PROVE TypeOK'
  OBVIOUS
<1> USE DEF TypeOK
<1>1. CASE Launch
  <2>1. flow' \in [Flow -> FlowRecord]
    BY <1>1, CallbacksLostType DEF Launch
  <2>2. dialog' \in [Dialog -> DialogState]
    BY <1>1 DEF Launch, DialogsLost, DialogState
  <2>3. /\ stack' \in Seq(Flow) /\ pending' \in Seq(Op)
        /\ host' \in 0 .. MaxHost
    BY <1>1, ConstantAssumption, EmptySeq DEF Launch, OnCreate
  <2> QED
    BY <1>1, <2>1, <2>2, <2>3 DEF Launch, OnCreate, history
<1>2. CASE Stop
  BY <1>2, OpTypes, EnqueueTypes DEF Stop, history
<1>3. CASE Restart
  BY <1>3 DEF Restart, history
<1>4. CASE RecreateWithDialog
  BY <1>4 DEF RecreateWithDialog, history
<1>5. CASE Back
  BY <1>5, OpTypes, EnqueueTypes DEF Back, history
<1>6. CASE \E killed \in BOOLEAN : Recreate(killed)
  <2>1. flow' \in [Flow -> FlowRecord]
    BY <1>6, CallbacksLostType DEF Recreate
  <2>2. /\ stack' \in Seq(Flow) /\ pending' \in Seq(Op)
        /\ host' \in 0 .. MaxHost
    BY <1>6, ConstantAssumption, EmptySeq DEF Recreate, OnCreate
  <2> QED
    BY <1>6, <2>1, <2>2 DEF Recreate, OnCreate, history
<1>7. ASSUME NEW f \in Flow, OnLogin(f) \/ OnStartTransaction(f) PROVE TypeOK'
  <2>1. PICK kind \in {"login", "transaction"} : StartFragment(f, kind)
    BY <1>7 DEF OnLogin, OnStartTransaction
  <2>2. overlap' \in BOOLEAN
    BY <2>1 DEF StartFragment
  <2>3. Append(pending, [op |-> "replace", flow |-> f]) \in Seq(Op)
    BY OpTypes, EnqueueTypes
  <2>4. flow' \in [Flow -> FlowRecord]
    <3>1. flow \in [Flow -> FlowRecord] /\ flow[f] \in FlowRecord
      OBVIOUS
    <3> QED
      BY <2>1, <3>1 DEF StartFragment, FlowRecord, FlowState
  <2> QED
    BY <2>1, <2>2, <2>3, <2>4 DEF StartFragment
<1>8. ASSUME NEW f \in Flow, NEW code \in Code, NEW part \in {"code", "infos"},
             Callback(f, code, part)
      PROVE  TypeOK'
  BY <1>8, CallbackTypes
<1>9. ASSUME NEW d \in Dialog, OnDismiss(d) PROVE TypeOK'
  <2>1. Append(Append(pending, [op |-> "remove", dialog |-> d]),
               [op |-> "pop", dialog |-> d]) \in Seq(Op)
    BY OpTypes, EnqueueTypes
  <2> QED
    BY <1>9, <2>1 DEF OnDismiss, DialogState, history
<1>10. CASE ExecPending
  BY <1>10 DEF ExecPending, history
<1>11. CASE RunReplace
  <2>1. Head(pending).flow \in Flow
    BY <1>11, DequeueTypes, OpOperands DEF RunReplace, Dequeue
  <2>2. flow' \in [Flow -> FlowRecord]
    <3>1. flow \in [Flow -> FlowRecord] /\ flow[Head(pending).flow] \in FlowRecord
      BY <2>1
    <3> QED
      BY <1>11, <2>1, <3>1 DEF RunReplace, FlowRecord, FlowState
  <2>3. stack' \in Seq(Flow)
    BY <1>11, <2>1 DEF RunReplace
  <2> QED
    BY <1>11, <2>2, <2>3, DequeueTypes DEF RunReplace, history
<1>12. CASE RunShow
  <2>1. Head(pending).dialog \in Dialog
    BY <1>12, DequeueTypes, OpOperands DEF RunShow, Dequeue
  <2>2. FlowOf(Head(pending).dialog) \in Flow
    BY <2>1 DEF Dialog, FlowOf
  <2> QED
    BY <1>12, <2>1, <2>2, DequeueTypes DEF RunShow, DialogState, history
<1>13. CASE RunRemove
  <2>1. Head(pending).dialog \in Dialog
    BY <1>13, DequeueTypes, OpOperands DEF RunRemove, Dequeue
  <2> QED
    BY <1>13, <2>1, DequeueTypes DEF RunRemove, DialogState, history
<1>14. CASE RunPop
  <2>1. Head(pending).dialog \in Dialog
    BY <1>14, DequeueTypes, OpOperands DEF RunPop, Dequeue
  <2>2. stack' \in Seq(Flow) /\ poppedBy' \in [Dialog -> Flow \cup {NoFlow}]
    BY <1>14, <2>1, PopTypes DEF RunPop
  <2> QED
    BY <1>14, <2>2, DequeueTypes DEF RunPop
<1>15. CASE RunBack
  BY <1>15, DequeueTypes, PopTypes DEF RunBack, history
<1>16. CASE Finish
  BY <1>16, DequeueTypes DEF Finish, DialogState, history
<1>17. CASE RunSave
  BY <1>17, DequeueTypes DEF RunSave, history
<1>18. CASE UNCHANGED vars
  BY <1>18 DEF vars
<1>19. CASE RunPending
  BY <1>11, <1>12, <1>13, <1>14, <1>15, <1>16, <1>17, <1>19 DEF RunPending
<1>20. CASE Next
  BY <1>1, <1>2, <1>3, <1>4, <1>5, <1>6, <1>7, <1>8, <1>9, <1>10, <1>19, <1>20,
     NextCases
<1> QED
  BY <1>18, <1>20

(***************************************************************************)
(* Every state of the screen flow is well typed: queue, back stack, the    *)
(* flows' records and the dialogs' states.                                 *)
(***************************************************************************)
THEOREM TypeCorrect == Spec => []TypeOK
<1>1. Init => TypeOK
  BY TypeInit
<1>2. TypeOK /\ [Next]_vars => TypeOK'
  BY TypeNext
<1> QED
  BY <1>1, <1>2, PTL DEF Spec

-----------------------------------------------------------------------------
(***************************************************************************)
(* The inductive invariant behind FieldTracksDialog. The field and the     *)
(* dialog on the screen change in different messages of the main looper,   *)
(* so the invariant says what the operations in between promise.           *)
(***************************************************************************)

\* A queued show() is what will put its dialog on the screen, once.
ShowsMatchDialogs ==
  activity # "gone" =>
    /\ \A d \in Dialog :
         dialog[d] = "queued" =>
           \E i \in DOMAIN pending : pending[i] = [op |-> "show", dialog |-> d]
    /\ \A i \in DOMAIN pending :
         /\ pending[i].op = "show" => dialog[pending[i].dialog] = "queued"
         /\ pending[i].op = "remove" =>
              dialog[pending[i].dialog] \in {"dismissed", "removed"}
    /\ \A i, j \in DOMAIN pending :
         pending[i].op = "show" /\ pending[i] = pending[j] => i = j

\* Leaving the screen and the back key wait behind all that was enqueued before.
LastOpIsLast ==
  /\ draining => activity = "resumed" /\ pending # <<>>
  /\ activity = "stopped" => pending = <<>>
  /\ \A i \in DOMAIN pending :
       pending[i].op \in {"back", "save"} => i = Len(pending) /\ draining

\* A dialog exists because its callback was made, by the activity that owns it.
DialogsComeFromCallbacks ==
  /\ \A f \in Flow : flow[f].state = "idle" => flow[f].told = {}
  /\ \A d \in Dialog : dialog[d] # "none" => d[2] \in flow[FlowOf(d)].told
  /\ activity # "gone" =>
       \A d \in Dialog :
         dialog[d] \in {"queued", "shown"} => flow[FlowOf(d)].owner = host

\* Only an activity that has been created starts flows.
OwnersExist ==
  /\ activity # "gone" => host \in Host
  /\ \A f \in Flow : flow[f].owner <= host

\* An activity starts without a dialog.
FreshFields ==
  /\ \A h \in Host : h > host => mMyDialog[h] = NoDialog
  /\ activity = "gone" /\ crash = "none" =>
       \A d \in Dialog : dialog[d] \notin {"queued", "shown"}

IInv ==
  /\ TypeOK
  /\ FieldTracksDialog
  /\ ShowsMatchDialogs
  /\ LastOpIsLast
  /\ DialogsComeFromCallbacks
  /\ OwnersExist
  /\ FreshFields
-----------------------------------------------------------------------------
(***************************************************************************)
(* IInv is inductive.                                                      *)
(***************************************************************************)

\* The queue as a function, and what executing its first operation leaves.
LEMMA QueueDomain ==
  ASSUME TypeOK
  PROVE  /\ Len(pending) \in Nat
         /\ DOMAIN pending = 1 .. Len(pending)
         /\ \A i \in DOMAIN pending : pending[i] \in Op
         /\ pending # <<>> => Len(pending) > 0
BY DEF TypeOK

\* What is left of the queue moves up by one.
LEMMA DequeueShifts ==
  ASSUME TypeOK, NEW op, Dequeue(op)
  PROVE  /\ Len(pending) \in Nat \ {0}
         /\ Len(pending') = Len(pending) - 1
         /\ DOMAIN pending = 1 .. Len(pending)
         /\ DOMAIN pending' = 1 .. Len(pending) - 1
         /\ \A i \in DOMAIN pending' : /\ i + 1 \in DOMAIN pending
                                      /\ pending'[i] = pending[i + 1]
         /\ 1 \in DOMAIN pending
         /\ Head(pending) = pending[1]
         /\ pending[1].op = op
         /\ draining /\ draining' = (pending' # <<>>)
BY HeadTailProperties DEF TypeOK, Dequeue

\* The inductive invariant holds at launch.
LEMMA InvInit == Init => IInv
<1> SUFFICES ASSUME Init PROVE IInv
  OBVIOUS
<1>1. TypeOK
  BY TypeInit
<1>2. FieldTracksDialog /\ ShowsMatchDialogs
  BY DEF Init, FieldTracksDialog, ShowsMatchDialogs
<1>3. LastOpIsLast
  BY DEF Init, LastOpIsLast
<1>4. DialogsComeFromCallbacks
  BY DEF Init, DialogsComeFromCallbacks, FlowOf, Dialog
<1>5. FreshFields /\ OwnersExist
  BY DEF Init, FreshFields, OwnersExist
<1> QED
  BY <1>1, <1>2, <1>3, <1>4, <1>5 DEF IInv

\* Starting the activity, afresh or from its saved state.
LEMMA CreateKeepsIInv ==
  ASSUME IInv, TypeOK', Launch \/ \E killed \in BOOLEAN : Recreate(killed)
  PROVE  IInv'
<1> USE DEF IInv
<1>1. /\ host' = host + 1 /\ host' \in Host /\ activity' = "resumed"
      /\ pending' = <<>> /\ mMyDialog' = mMyDialog /\ draining' = draining
      /\ flow' = flow \/ flow' = CallbacksLost
  BY DEF Launch, Recreate, OnCreate, TypeOK, Host
<1>2. mMyDialog[host'] = NoDialog /\ \A h \in Host : h > host' => mMyDialog[h] = NoDialog
  BY <1>1 DEF FreshFields, TypeOK, Host
<1>3. /\ \A d \in Dialog : dialog'[d] \notin {"queued", "shown"}
      /\ \A d \in Dialog : dialog'[d] # "none" => dialog[d] # "none"
  <2>1. CASE Launch
    BY <2>1 DEF Launch, FreshFields, DialogsLost, TypeOK, DialogState
  <2>2. CASE \E killed \in BOOLEAN : Recreate(killed)
    BY <2>2 DEF Recreate, DialogsShown, ShowsMatchDialogs, LastOpIsLast
  <2> QED
    BY <2>1, <2>2
<1>4. FieldTracksDialog'
  BY <1>1, <1>2, <1>3 DEF FieldTracksDialog
<1>5. ShowsMatchDialogs'
  BY <1>1, <1>3 DEF ShowsMatchDialogs
<1>6. LastOpIsLast'
  <2>1. ~draining
    BY DEF Launch, Recreate, LastOpIsLast
  <2> QED
    BY <1>1, <2>1 DEF LastOpIsLast
<1>7. DialogsComeFromCallbacks'
  <2>1. \A f \in Flow : /\ flow'[f].told = flow[f].told
                        /\ flow'[f].state = "idle" => flow[f].state = "idle"
    BY <1>1, CallbacksLostKeeps DEF TypeOK
  <2>2. \A d \in Dialog : FlowOf(d) \in Flow
    BY DEF Dialog, FlowOf
  <2> QED
    BY <1>3, <2>1, <2>2 DEF DialogsComeFromCallbacks
<1>8. FreshFields'
  BY <1>1, <1>2 DEF FreshFields
<1>9. OwnersExist'
  <2>1. \A f \in Flow : flow'[f].owner = flow[f].owner
    BY <1>1, CallbacksLostKeeps DEF TypeOK
  <2>2. \A f \in Flow : flow[f].owner \in Nat
    BY DEF TypeOK, FlowRecord
  <2> QED
    BY <1>1, <2>1, <2>2 DEF OwnersExist, TypeOK
<1> QED
  BY <1>4, <1>5, <1>6, <1>7, <1>8, <1>9

\* Enqueuing the back key or the saving of the state.
LEMMA LeavingKeepsIInv ==
  ASSUME IInv, TypeOK', Stop \/ Back
  PROVE  IInv'
<1> USE DEF IInv
<1>1. PICK o \in Op : o.op \in {"back", "save"} /\ pending' = Append(pending, o)
  BY OpTypes DEF Stop, Back
<1>2. /\ draining' /\ ~draining /\ activity = "resumed"
      /\ UNCHANGED <<host, activity, flow, mMyDialog, dialog, crash>>
  BY DEF Stop, Back, Idle
<1>3. /\ Len(pending) \in Nat
      /\ DOMAIN pending = 1 .. Len(pending)
      /\ DOMAIN pending' = 1 .. Len(pending) + 1
      /\ Len(pending') = Len(pending) + 1
      /\ \A i \in DOMAIN pending : i \in DOMAIN pending' /\ pending'[i] = pending[i]
      /\ pending'[Len(pending) + 1] = o
      /\ pending' # <<>>
  BY <1>1, QueueDomain, EnqueueTypes, AppendProperties DEF TypeOK
<1>4. FieldTracksDialog' /\ OwnersExist' /\ FreshFields'
  BY <1>2 DEF FieldTracksDialog, OwnersExist, FreshFields
<1>7. DialogsComeFromCallbacks'
  BY <1>2 DEF DialogsComeFromCallbacks
<1>5. ShowsMatchDialogs'
  <2>1. \A i \in DOMAIN pending' : i \in DOMAIN pending \/ pending'[i] = o
    BY <1>3
  <2> QED
    BY <1>1, <1>2, <1>3, <2>1 DEF ShowsMatchDialogs
<1>6. LastOpIsLast'
  BY <1>1, <1>2, <1>3 DEF LastOpIsLast
<1> QED
  BY <1>4, <1>5, <1>6, <1>7
\* A button of MainFragment starts a flow.
LEMMA StartKeepsIInv ==
  ASSUME IInv, TypeOK', NEW f \in Flow, NEW kind, StartFragment(f, kind)
  PROVE  IInv'
<1> USE DEF IInv
<1> DEFINE o == [op |-> "replace", flow |-> f]
<1>1. /\ ~draining /\ draining' = draining /\ activity = "resumed"
      /\ UNCHANGED <<host, activity, mMyDialog, dialog, crash>>
      /\ flow[f].state = "idle"
      /\ pending' = Append(pending, o) /\ o \in Op
  BY OpTypes DEF StartFragment, Idle
<1>2. /\ Len(pending) \in Nat
      /\ DOMAIN pending = 1 .. Len(pending)
      /\ DOMAIN pending' = 1 .. Len(pending) + 1
      /\ \A i \in DOMAIN pending : i \in DOMAIN pending' /\ pending'[i] = pending[i]
      /\ pending'[Len(pending) + 1] = o
  BY <1>1, QueueDomain, EnqueueTypes DEF TypeOK
<1>3. \A i \in DOMAIN pending' : i \in DOMAIN pending \/ pending'[i] = o
  BY <1>2
<1>4. /\ FieldTracksDialog' /\ FreshFields'
  BY <1>1 DEF FieldTracksDialog, FreshFields
<1>5. ShowsMatchDialogs'
  BY <1>1, <1>2, <1>3 DEF ShowsMatchDialogs
<1>6. LastOpIsLast'
  BY <1>1, <1>2, <1>3 DEF LastOpIsLast
<1>7. DialogsComeFromCallbacks'
  <2>1. /\ flow \in [Flow -> FlowRecord]
        /\ flow'[f].told = flow[f].told /\ flow'[f].owner = host
        /\ flow'[f].state = "queued"
        /\ \A g \in Flow \ {f} : flow'[g] = flow[g]
    BY DEF StartFragment, TypeOK, FlowRecord
  <2>2. \A d \in Dialog : FlowOf(d) \in Flow /\ (FlowOf(d) = f => dialog[d] = "none")
    BY <1>1 DEF Dialog, FlowOf, DialogsComeFromCallbacks
  <2> QED
    BY <1>1, <2>1, <2>2 DEF DialogsComeFromCallbacks
<1>8. OwnersExist'
  <2>1. flow'[f].owner = host /\ \A g \in Flow \ {f} : flow'[g] = flow[g]
    BY DEF StartFragment, TypeOK, FlowRecord
  <2>2. \A g \in Flow : flow'[g].owner = host \/ flow'[g].owner = flow[g].owner
    BY <2>1
  <2>3. host \in Nat
    BY DEF TypeOK
  <2> QED
    BY <1>1, <2>2, <2>3 DEF OwnersExist
<1> QED
  BY <1>4, <1>5, <1>6, <1>7, <1>8

\* showDialog, for a part of the result that its flow had not brought yet.
LEMMA CallbackKeepsIInv ==
  ASSUME IInv, TypeOK', NEW f \in Flow, NEW code \in Code,
         NEW part \in {"code", "infos"}, part \notin flow[f].told,
         Callback(f, code, part)
  PROVE  IInv'
<1> USE DEF IInv
<1> DEFINE h == flow[f].owner
           d == <<f, part>>
           o == [op |-> "show", dialog |-> d]
<1>1. /\ d \in Dialog /\ FlowOf(d) = f /\ d[2] = part
      /\ \A e \in Dialog : FlowOf(e) \in Flow
      /\ d # NoDialog
  BY ConstantAssumption DEF Dialog, FlowOf
<1>13. o \in Op /\ o.op = "show" /\ o.dialog = d
  BY <1>1, OpTypes
<1>2. dialog[d] = "none"
  BY <1>1 DEF DialogsComeFromCallbacks
<1>3. ~draining /\ UNCHANGED <<host, draining>> /\ crash = "none"
  BY DEF Callback
<1>4. /\ flow'[f].told = flow[f].told \cup {part} /\ flow'[f].owner = flow[f].owner
      /\ flow'[f].state = "open"
      /\ \A g \in Flow \ {f} : flow'[g] = flow[g]
  BY DEF Callback, TypeOK, FlowRecord
<1>11. OwnersExist'
  <2>1. \A g \in Flow : flow'[g].owner = flow[g].owner
    BY <1>4
  <2>2. activity' # "gone" => activity # "gone"
    BY DEF Callback, ShowDialog, ShowNewDialog, RefreshDDInfos
  <2> QED
    BY <1>3, <2>1, <2>2 DEF OwnersExist
<1>8. h <= host
  BY DEF OwnersExist
<1>14. /\ mMyDialog \in [Host -> Dialog \cup {NoDialog}]
       /\ \A g \in Host : g > host => g # h
  <2>1. host \in Nat /\ flow[f].owner \in Nat /\ \A g \in Host : g \in Nat
    BY ConstantAssumption DEF TypeOK, FlowRecord, Host
  <2> QED
    BY <1>8, <2>1 DEF TypeOK
<1>12. ShowNewDialog(h, d, code) \/ RefreshDDInfos(mMyDialog[h], f)
       \/ UNCHANGED <<mMyDialog, dialog, mCode, pending, infosShown,
                                                activity, crash>>
  BY DEF Callback, ShowDialog
<1> HIDE DEF d, h
<1>5. CASE /\ UNCHANGED <<mMyDialog, dialog, pending>>
           /\ UNCHANGED <<activity, crash>> \/ (activity' = "gone" /\ crash' # "none")
  <2>1. FieldTracksDialog' /\ FreshFields'
    BY <1>3, <1>5 DEF FieldTracksDialog, FreshFields
  <2>2. ShowsMatchDialogs' /\ LastOpIsLast'
    BY <1>3, <1>5 DEF ShowsMatchDialogs, LastOpIsLast
  <2>3. DialogsComeFromCallbacks'
    BY <1>1, <1>3, <1>4, <1>5 DEF DialogsComeFromCallbacks
  <2> QED
    BY <2>1, <2>2, <2>3, <1>11
<1>6. CASE /\ mMyDialog' = [mMyDialog EXCEPT ![h] = d]
           /\ activity' = "gone" /\ crash' # "none" /\ UNCHANGED <<dialog, pending>>
  <2>1. FieldTracksDialog' /\ ShowsMatchDialogs'
    BY <1>6 DEF FieldTracksDialog, ShowsMatchDialogs
  <2>2. LastOpIsLast'
    BY <1>3, <1>6 DEF LastOpIsLast
  <2>3. DialogsComeFromCallbacks'
    BY <1>1, <1>3, <1>4, <1>6 DEF DialogsComeFromCallbacks
  <2>4. FreshFields'
    <3>1. \A g \in Host : g > host => mMyDialog'[g] = mMyDialog[g]
      BY <1>6, <1>14
    <3> QED
      BY <1>3, <1>6, <3>1 DEF FreshFields
  <2> QED
    BY <2>1, <2>2, <2>3, <2>4, <1>11
<1>7. CASE /\ h = host /\ activity = "resumed" /\ mMyDialog[h] = NoDialog
           /\ mMyDialog' = [mMyDialog EXCEPT ![h] = d]
           /\ dialog' = [dialog EXCEPT ![d] = "queued"]
           /\ pending' = Append(pending, o) /\ UNCHANGED <<activity, crash>>
  <2>1. /\ Len(pending) \in Nat
        /\ DOMAIN pending = 1 .. Len(pending)
        /\ DOMAIN pending' = 1 .. Len(pending) + 1
        /\ \A i \in DOMAIN pending : i \in DOMAIN pending' /\ pending'[i] = pending[i]
        /\ pending'[Len(pending) + 1] = o
        /\ \A i \in DOMAIN pending : pending[i] \in Op
    BY <1>7, <1>13, QueueDomain, EnqueueTypes DEF TypeOK
  <2>2. \A i \in DOMAIN pending' : i \in DOMAIN pending \/ i = Len(pending) + 1
    BY <2>1
  <2>3. /\ dialog'[d] = "queued"
        /\ \A e \in Dialog \ {d} : dialog'[e] = dialog[e]
    BY <1>1, <1>7 DEF TypeOK
  <2>4. FieldTracksDialog'
    <3>1. host \in Host
      BY <1>7 DEF OwnersExist
    <3>2. mMyDialog'[host] = d /\ host' = host
      BY <1>3, <1>7, <3>1 DEF TypeOK
    <3>3. \A e \in Dialog : dialog[e] \notin {"queued", "shown"}
      BY <1>7 DEF FieldTracksDialog
    <3> QED
      BY <1>1, <2>3, <3>2, <3>3 DEF FieldTracksDialog
  <2>5. ShowsMatchDialogs'
    <3>1. \A i \in DOMAIN pending :
            pending[i].op \in {"show", "remove"} => pending[i].dialog # d
      BY <1>2, <1>7 DEF ShowsMatchDialogs
    <3>2. \A i \in DOMAIN pending :
            pending[i].op \in {"show", "remove"} => pending[i].dialog \in Dialog
      BY <2>1, OpOperands
    <3> QED
      BY <1>1, <1>7, <1>13, <2>1, <2>2, <2>3, <3>1, <3>2 DEF ShowsMatchDialogs
  <2>6. LastOpIsLast'
    BY <1>3, <1>7, <1>13, <2>1, <2>2 DEF LastOpIsLast
  <2>7. DialogsComeFromCallbacks'
    <3>1. \A e \in Dialog : e # d => dialog'[e] = dialog[e]
      BY <2>3
    <3>2. \A g \in Flow : /\ flow'[g].told = flow[g].told \/ g = f
                          /\ flow[g].told \subseteq flow'[g].told
                          /\ flow'[g].owner = flow[g].owner
      BY <1>4
    <3>3. part \in flow'[f].told
      BY <1>4
    <3>4. flow[f].owner = host
      BY <1>7 DEF h
    <3>5. \A g \in Flow : flow'[g].state = "idle" => flow'[g].told = {}
      BY <1>4 DEF DialogsComeFromCallbacks
    <3>6. \A e \in Dialog : dialog'[e] # "none" => e[2] \in flow'[FlowOf(e)].told
      BY <1>1, <3>1, <3>2, <3>3 DEF DialogsComeFromCallbacks
    <3>7. \A e \in Dialog : dialog'[e] \in {"queued", "shown"} =>
                             flow'[FlowOf(e)].owner = host
      BY <1>1, <1>7, <3>1, <3>2, <3>4 DEF DialogsComeFromCallbacks
    <3> QED
      BY <1>3, <3>5, <3>6, <3>7 DEF DialogsComeFromCallbacks
  <2>8. FreshFields'
    <3>1. \A g \in Host : g > host => mMyDialog'[g] = mMyDialog[g]
      BY <1>7, <1>14
    <3> QED
      BY <1>3, <1>7, <3>1 DEF FreshFields
  <2> QED
    BY <2>4, <2>5, <2>6, <2>7, <2>8, <1>11
<1>9. CASE ShowNewDialog(h, d, code)
  BY <1>6, <1>7, <1>8, <1>9 DEF ShowNewDialog
<1>10. CASE RefreshDDInfos(mMyDialog[h], f)
  BY <1>5, <1>10 DEF RefreshDDInfos
<1> QED
  BY <1>5, <1>9, <1>10, <1>12

\* The dialog's button hides it and empties the field of the activity on screen.
LEMMA DismissKeepsIInv ==
  ASSUME IInv, TypeOK', NEW d \in Dialog, OnDismiss(d)
  PROVE  IInv'
<1> USE DEF IInv
<1> DEFINE r == [op |-> "remove", dialog |-> d]
           p == [op |-> "pop", dialog |-> d]
           q == Append(pending, r)
<1>1. /\ ~draining /\ activity = "resumed" /\ dialog[d] = "shown"
      /\ UNCHANGED <<host, activity, draining, flow, crash>>
      /\ pending' = Append(q, p)
  BY DEF OnDismiss, Idle
<1>2. /\ r \in Op /\ r.op = "remove" /\ r.dialog = d
      /\ p \in Op /\ p.op = "pop"
  BY OpTypes
<1>3. flow[FlowOf(d)].owner = host /\ host \in Host
  BY <1>1 DEF DialogsComeFromCallbacks, OwnersExist
<1>4. /\ mMyDialog'[host] = NoDialog
      /\ \A h \in Host \ {host} : mMyDialog'[h] = mMyDialog[h]
      /\ dialog'[d] = "dismissed"
      /\ \A e \in Dialog : e # d => dialog'[e] = dialog[e]
  BY <1>3 DEF OnDismiss, TypeOK
<1> HIDE DEF r, p
<1>5. /\ Len(pending) \in Nat
      /\ DOMAIN pending = 1 .. Len(pending)
      /\ DOMAIN pending' = 1 .. Len(pending) + 2
      /\ \A i \in DOMAIN pending : pending'[i] = pending[i]
      /\ pending'[Len(pending) + 1] = r
      /\ pending'[Len(pending) + 2] = p
  <2>1. /\ q \in Seq(Op) /\ Len(q) = Len(pending) + 1
        /\ \A i \in 1 .. Len(pending) : q[i] = pending[i]
        /\ q[Len(pending) + 1] = r
    BY <1>2, EnqueueTypes DEF TypeOK
  <2>2. /\ DOMAIN pending' = 1 .. Len(q) + 1
        /\ \A i \in 1 .. Len(q) : pending'[i] = q[i]
        /\ pending'[Len(q) + 1] = p
    BY <1>1, <1>2, <2>1, EnqueueTypes
  <2> HIDE DEF q
  <2> QED
    BY <2>1, <2>2, QueueDomain
<1>6. \A i \in DOMAIN pending' :
        \/ i \in DOMAIN pending
        \/ i = Len(pending) + 1
        \/ i = Len(pending) + 2
  BY <1>5
<1>7. FieldTracksDialog'
  BY <1>1, <1>4 DEF FieldTracksDialog
<1>8. ShowsMatchDialogs'
  <2>1. \A i \in DOMAIN pending : pending[i].op = "show" => pending[i].dialog # d
    BY <1>1 DEF ShowsMatchDialogs
  <2>2. \A i \in DOMAIN pending :
          pending[i].op \in {"show", "remove"} => pending[i].dialog \in Dialog
    BY QueueDomain, OpOperands
  <2>3. \A e \in Dialog : dialog'[e] = "queued" =>
          \E i \in DOMAIN pending' : pending'[i] = [op |-> "show", dialog |-> e]
    <3>1. \A e \in Dialog : dialog'[e] = "queued" => dialog[e] = "queued"
      BY <1>4
    <3>2. DOMAIN pending \subseteq DOMAIN pending'
      BY <1>5
    <3>3. SUFFICES ASSUME NEW e \in Dialog, dialog'[e] = "queued"
                   PROVE  \E i \in DOMAIN pending' :
                            pending'[i] = [op |-> "show", dialog |-> e]
      OBVIOUS
    <3>4. PICK i \in DOMAIN pending : pending[i] = [op |-> "show", dialog |-> e]
      BY <1>1, <3>1, <3>3 DEF ShowsMatchDialogs
    <3> QED
      BY <1>5, <3>2, <3>4
  <2>4. \A i \in DOMAIN pending' :
          /\ pending'[i].op = "show" => dialog'[pending'[i].dialog] = "queued"
          /\ pending'[i].op = "remove" =>
               dialog'[pending'[i].dialog] \in {"dismissed", "removed"}
    BY <1>1, <1>2, <1>4, <1>5, <1>6, <2>1, <2>2 DEF ShowsMatchDialogs
  <2>5. \A i, j \in DOMAIN pending' :
          pending'[i].op = "show" /\ pending'[i] = pending'[j] => i = j
    BY <1>1, <1>2, <1>5, <1>6 DEF ShowsMatchDialogs
  <2> QED
    BY <2>3, <2>4, <2>5 DEF ShowsMatchDialogs
<1>9. LastOpIsLast'
  BY <1>1, <1>2, <1>5, <1>6 DEF LastOpIsLast
<1>10. DialogsComeFromCallbacks'
  BY <1>1, <1>4 DEF DialogsComeFromCallbacks
<1>11. OwnersExist' /\ FreshFields'
  BY <1>1, <1>3, <1>4 DEF OwnersExist, FreshFields
<1> QED
  BY <1>7, <1>8, <1>9, <1>10, <1>11

\* The FragmentManager executes the first operation of its queue.
LEMMA RunKeepsIInv ==
  ASSUME IInv, TypeOK', RunPending
  PROVE  IInv'
<1> USE DEF IInv
<1>1. PICK op : Dequeue(op)
  BY DEF RunPending, RunReplace, RunShow, RunRemove, RunPop, RunBack, Finish, RunSave
<1>2. /\ Len(pending) \in Nat \ {0}
      /\ DOMAIN pending = 1 .. Len(pending)
      /\ DOMAIN pending' = 1 .. Len(pending) - 1
      /\ Len(pending') = Len(pending) - 1
      /\ \A i \in DOMAIN pending' : i + 1 \in DOMAIN pending /\ pending'[i] = pending[i + 1]
      /\ 1 \in DOMAIN pending
      /\ pending[1].op = op /\ Head(pending) = pending[1]
      /\ draining /\ draining' = (pending' # <<>>)
      /\ activity = "resumed"
  BY <1>1, DequeueShifts DEF LastOpIsLast
<1>3. pending' = <<>> <=> Len(pending) = 1
  BY <1>1, <1>2, QueueDomain, DequeueTypes, EmptySeq
<1>4. UNCHANGED <<host, mMyDialog, crash>>
  BY DEF RunPending, RunReplace, RunShow, RunRemove, RunPop, RunBack, Finish,
         RunSave, history
<1>5. ASSUME NEW D \in [Dialog -> DialogState], dialog' = D, activity' = "resumed",
             \A d \in Dialog : D[d] \in {"queued", "shown"} <=>
                                 dialog[d] \in {"queued", "shown"},
             \A d \in Dialog : D[d] # "none" => dialog[d] # "none",
             \A d \in Dialog : D[d] = "queued" =>
               dialog[d] = "queued" /\ pending[1] # [op |-> "show", dialog |-> d],
             \A i \in DOMAIN pending : i # 1 /\ pending[i].op = "show" =>
                                         D[pending[i].dialog] = "queued",
             \A i \in DOMAIN pending : i # 1 /\ pending[i].op = "remove" =>
                                         D[pending[i].dialog] \in {"dismissed", "removed"},
             \A f \in Flow : /\ flow'[f].told = flow[f].told
                             /\ flow'[f].owner = flow[f].owner
                             /\ flow'[f].state = "idle" => flow[f].state = "idle"
      PROVE  IInv'
  <2>1. FieldTracksDialog'
    BY <1>2, <1>4, <1>5 DEF FieldTracksDialog
  <2>2. ShowsMatchDialogs'
    <3>1. \A d \in Dialog : D[d] = "queued" =>
            \E i \in DOMAIN pending' : pending'[i] = [op |-> "show", dialog |-> d]
      <4>1. SUFFICES ASSUME NEW d \in Dialog, D[d] = "queued"
                     PROVE  \E i \in DOMAIN pending' :
                              pending'[i] = [op |-> "show", dialog |-> d]
        OBVIOUS
      <4>2. PICK i \in DOMAIN pending : pending[i] = [op |-> "show", dialog |-> d]
        BY <1>2, <1>5, <4>1 DEF ShowsMatchDialogs
      <4>3. i # 1
        BY <1>5, <4>1, <4>2
      <4>4. i - 1 \in DOMAIN pending' /\ (i - 1) + 1 = i
        BY <1>2, <4>2, <4>3
      <4> QED
        BY <1>2, <4>2, <4>4
    <3>2. \A i \in DOMAIN pending' : i + 1 # 1
      BY <1>2
    <3>3. \A i \in DOMAIN pending' :
            /\ pending'[i].op = "show" => D[pending'[i].dialog] = "queued"
            /\ pending'[i].op = "remove" => D[pending'[i].dialog] \in {"dismissed", "removed"}
      BY <1>2, <1>5, <3>2
    <3>4. \A i, j \in DOMAIN pending' :
            pending'[i].op = "show" /\ pending'[i] = pending'[j] => i = j
      <4>1. \A i, j \in DOMAIN pending' :
              pending'[i].op = "show" /\ pending'[i] = pending'[j] => i + 1 = j + 1
        BY <1>2 DEF ShowsMatchDialogs
      <4> QED
        BY <1>2, <4>1
    <3> QED
      BY <1>5, <3>1, <3>3, <3>4 DEF ShowsMatchDialogs
  <2>3. LastOpIsLast'
    <3>1. \A i \in DOMAIN pending' :
            pending'[i].op \in {"back", "save"} => i + 1 = Len(pending)
      BY <1>2 DEF LastOpIsLast
    <3>2. \A i \in DOMAIN pending' : i + 1 = Len(pending) => i = Len(pending') /\ pending' # <<>>
      BY <1>2, <1>3
    <3> QED
      BY <1>2, <1>5, <3>1, <3>2 DEF LastOpIsLast
  <2>4. DialogsComeFromCallbacks'
    <3>1. \A d \in Dialog : FlowOf(d) \in Flow
      BY DEF Dialog, FlowOf
    <3> QED
      BY <1>2, <1>4, <1>5, <3>1 DEF DialogsComeFromCallbacks
  <2>5. OwnersExist' /\ FreshFields'
    BY <1>2, <1>4, <1>5 DEF OwnersExist, FreshFields
  <2> QED
    BY <2>1, <2>2, <2>3, <2>4, <2>5
<1>6. \A d \in Dialog : dialog[d] = "queued" /\ op # "show" =>
        dialog[d] = "queued" /\ pending[1] # [op |-> "show", dialog |-> d]
  BY <1>2
<1>7. ASSUME op # "show", UNCHANGED <<dialog, activity>>,
             \A f \in Flow : /\ flow'[f].told = flow[f].told
                             /\ flow'[f].owner = flow[f].owner
                             /\ flow'[f].state = "idle" => flow[f].state = "idle"
      PROVE  IInv'
  BY <1>2, <1>5, <1>6, <1>7 DEF ShowsMatchDialogs, TypeOK
<1>8. CASE RunReplace
  <2>1. op = "replace" /\ Head(pending).flow \in Flow
    BY <1>2, <1>8, QueueDomain, OpOperands DEF RunReplace, Dequeue
  <2>2. flow' = [flow EXCEPT ![Head(pending).flow].state = "open"]
    BY <1>8 DEF RunReplace
  <2>3. \A f \in Flow : /\ flow'[f].told = flow[f].told
                        /\ flow'[f].owner = flow[f].owner
                        /\ flow'[f].state = "idle" => flow[f].state = "idle"
    BY <2>1, <2>2 DEF TypeOK, FlowRecord
  <2> QED
    BY <1>7, <1>8, <2>1, <2>3 DEF RunReplace
<1>9. ASSUME NEW D \in [Dialog -> DialogState], NEW d \in Dialog, NEW s,
             dialog' = D, D = [dialog EXCEPT ![d] = s], s \in {"shown", "removed"},
             s = "shown" => dialog[d] = "queued" /\ op = "show",
             s = "removed" => dialog[d] \in {"dismissed", "removed"} /\ op = "remove",
             pending[1] = [op |-> op, dialog |-> d],
             UNCHANGED <<activity, flow>>
      PROVE  IInv'
  <2>1. D[d] = s /\ \A e \in Dialog : e # d => D[e] = dialog[e]
    BY <1>9 DEF TypeOK
  <2>2. \A i \in DOMAIN pending :
          pending[i].op \in {"show", "remove"} =>
            /\ pending[i].dialog \in Dialog
            /\ pending[i] = [op |-> pending[i].op, dialog |-> pending[i].dialog]
    BY QueueDomain, OpOperands
  <2>3. \A i \in DOMAIN pending : i # 1 /\ pending[i].op = "show" =>
                                    pending[i].dialog # d
    BY <1>2, <1>9, <2>2 DEF ShowsMatchDialogs
  <2>4. \A e \in Dialog : D[e] = "queued" =>
          dialog[e] = "queued" /\ pending[1] # [op |-> "show", dialog |-> e]
    <3>1. SUFFICES ASSUME NEW e \in Dialog, D[e] = "queued"
                   PROVE  dialog[e] = "queued" /\ pending[1] # [op |-> "show", dialog |-> e]
      OBVIOUS
    <3>2. e # d
      BY <1>9, <2>1, <3>1
    <3>3. pending[1].dialog = d
      BY <1>9
    <3> QED
      BY <2>1, <3>1, <3>2, <3>3
  <2>5. \A i \in DOMAIN pending : i # 1 /\ pending[i].op = "show" =>
                                    D[pending[i].dialog] = "queued"
    BY <1>2, <2>1, <2>2, <2>3 DEF ShowsMatchDialogs
  <2>6. \A i \in DOMAIN pending : i # 1 /\ pending[i].op = "remove" =>
          D[pending[i].dialog] \in {"dismissed", "removed"}
    BY <1>2, <1>9, <2>1, <2>2 DEF ShowsMatchDialogs
  <2>7. \A e \in Dialog : /\ D[e] \in {"queued", "shown"} <=> dialog[e] \in {"queued", "shown"}
                          /\ D[e] # "none" => dialog[e] # "none"
    BY <1>9, <2>1
  <2> QED
    BY <1>2, <1>5, <1>9, <2>4, <2>5, <2>6, <2>7
<1>10. CASE RunShow \/ RunRemove
  <2> DEFINE d == Head(pending).dialog
  <2>1. /\ op \in {"show", "remove"} /\ d \in Dialog
        /\ pending[1] = [op |-> op, dialog |-> d]
    BY <1>2, <1>10, QueueDomain, OpOperands DEF RunShow, RunRemove, Dequeue
  <2>2. op = "show" => dialog[d] = "queued"
    BY <1>2, <2>1 DEF ShowsMatchDialogs
  <2>3. op = "remove" => dialog[d] \in {"dismissed", "removed"}
    BY <1>2, <2>1 DEF ShowsMatchDialogs
  <2>4. CASE RunShow
    <3>1. /\ op = "show" /\ UNCHANGED <<activity, flow>>
          /\ dialog' = [dialog EXCEPT ![d] = "shown"]
      BY <1>2, <2>4 DEF RunShow, Dequeue, history
    <3> HIDE DEF d
    <3> QED
      BY <1>9, <2>1, <2>2, <3>1 DEF TypeOK
  <2>5. CASE RunRemove
    <3>1. /\ op = "remove" /\ UNCHANGED <<activity, flow>>
          /\ dialog' = [dialog EXCEPT ![d] = "removed"]
      BY <1>2, <2>5 DEF RunRemove, Dequeue, history
    <3> HIDE DEF d
    <3> QED
      BY <1>9, <2>1, <2>3, <3>1 DEF TypeOK
  <2> QED
    BY <1>10, <2>4, <2>5
<1>11. CASE RunPop \/ RunBack
  <2>1. op # "show" /\ UNCHANGED <<dialog, activity, flow>>
    BY <1>2, <1>11 DEF RunPop, RunBack, Dequeue, history
  <2> QED
    BY <1>7, <2>1
<1>12. CASE Finish \/ RunSave
  <2>1. op \in {"back", "save"} /\ flow' = flow
    BY <1>2, <1>12 DEF Finish, RunSave, Dequeue, history
  <2>2. Len(pending) = 1 /\ pending' = <<>> /\ ~draining'
    BY <1>2, <1>3, <2>1 DEF LastOpIsLast
  <2>3. \A d \in Dialog : dialog[d] # "queued"
    BY <1>2, <2>1, <2>2 DEF ShowsMatchDialogs
  <2>4. \A d \in Dialog : dialog'[d] \in {"queued", "shown"} =>
          dialog[d] \in {"queued", "shown"} /\ activity' = "stopped"
    BY <1>12, <2>3 DEF Finish, RunSave, DialogState, history
  <2>5. \/ activity' = "gone"
        \/ activity' = "stopped" /\ dialog' = dialog
    BY <1>12 DEF Finish, RunSave, history
  <2>6. FieldTracksDialog'
    BY <1>2, <1>4, <2>5 DEF FieldTracksDialog
  <2>7. ShowsMatchDialogs' /\ LastOpIsLast'
    BY <2>2, <2>3, <2>5 DEF ShowsMatchDialogs, LastOpIsLast
  <2>8. DialogsComeFromCallbacks'
    <3>1. \A d \in Dialog : dialog'[d] # "none" => dialog[d] # "none"
      BY <1>12 DEF Finish, RunSave, history
    <3> QED
      BY <1>2, <1>4, <2>1, <2>4, <3>1 DEF DialogsComeFromCallbacks
  <2>9. OwnersExist' /\ FreshFields'
    BY <1>2, <1>4, <2>1, <2>4 DEF OwnersExist, FreshFields
  <2> QED
    BY <2>6, <2>7, <2>8, <2>9
<1> QED
  BY <1>8, <1>10, <1>11, <1>12 DEF RunPending

\* Every step keeps the inductive invariant.
LEMMA InvNext == IInv /\ [Next]_vars => IInv'
<1> SUFFICES ASSUME IInv, [Next]_vars PROVE IInv'
  OBVIOUS
<1>1. TypeOK'
  BY TypeNext DEF IInv
<1>2. CASE Launch \/ \E killed \in BOOLEAN : Recreate(killed)
  BY <1>1, <1>2, CreateKeepsIInv
<1>3. CASE Stop \/ Back
  BY <1>1, <1>3, LeavingKeepsIInv
<1>4. CASE Restart
  BY <1>1, <1>4 DEF Restart, IInv, FieldTracksDialog, ShowsMatchDialogs, LastOpIsLast,
                    DialogsComeFromCallbacks, OwnersExist, FreshFields, history
<1>5. CASE RecreateWithDialog
  BY <1>1, <1>5 DEF RecreateWithDialog, IInv, FieldTracksDialog, ShowsMatchDialogs,
                    LastOpIsLast, DialogsComeFromCallbacks, OwnersExist, FreshFields,
                    history
<1>6. ASSUME NEW f \in Flow, OnLogin(f) \/ OnStartTransaction(f) PROVE IInv'
  BY <1>1, <1>6, StartKeepsIInv DEF OnLogin, OnStartTransaction
<1>7. ASSUME NEW f \in Flow, NEW code \in Code, NEW part \in {"code", "infos"},
             Callback(f, code, part) /\ part \notin flow[f].told
      PROVE  IInv'
  BY <1>1, <1>7, CallbackKeepsIInv
<1>8. ASSUME NEW d \in Dialog, OnDismiss(d) PROVE IInv'
  BY <1>1, <1>8, DismissKeepsIInv
<1>9. CASE ExecPending
  BY <1>1, <1>9 DEF ExecPending, Idle, IInv, FieldTracksDialog, ShowsMatchDialogs,
                    LastOpIsLast, DialogsComeFromCallbacks, OwnersExist, FreshFields,
                    history
<1>10. CASE RunPending
  BY <1>1, <1>10, RunKeepsIInv
<1>11. CASE UNCHANGED vars
  BY <1>1, <1>11 DEF vars, IInv, FieldTracksDialog, ShowsMatchDialogs, LastOpIsLast,
                     DialogsComeFromCallbacks, OwnersExist, FreshFields
<1>12. CASE Next
  BY <1>2, <1>3, <1>4, <1>5, <1>6, <1>7, <1>8, <1>9, <1>10, <1>12, NextCases
<1> QED
  BY <1>11, <1>12

(***************************************************************************)
(* In every state, MainActivity's field mMyDialog names the one dialog on  *)
(* the screen or about to be, and is null when there is none: showDialog's *)
(* test of the field decides by what the user sees, although the dialog    *)
(* itself comes and goes in later messages of the main looper.             *)
(***************************************************************************)
THEOREM FieldTracksDialogAlways == Spec => []FieldTracksDialog
<1>1. IInv => FieldTracksDialog
  BY DEF IInv
<1> QED
  BY <1>1, InvInit, InvNext, PTL DEF Spec

-----------------------------------------------------------------------------
(***************************************************************************)
(* Refinement: the screen flow drives MainFragment as FragmentLife says.   *)
(***************************************************************************)

\* The screen flow starts where FragmentLife does.
LEMMA LifeInitial == Init => Life!LifeInit
BY DEF Init, Life!LifeInit

\* onCreate gives the activity a new MainFragment or the one that was saved.
LEMMA OnCreateIsLife ==
  ASSUME TypeOK, NEW saved \in BOOLEAN, OnCreate(saved),
         saved = (activity # "gone")
  PROVE  Life!Added \/ Life!Restored
<1>1. host' = host + 1 /\ host < MaxHost /\ activity' # "gone"
  BY DEF OnCreate
<1>2. CASE saved
  <2>1. stack' = stack /\ activity # "gone"
    BY <1>2 DEF OnCreate
  <2> QED
    BY <1>1, <2>1 DEF Life!Restored
<1>3. CASE ~saved
  <2>1. stack' = <<>> /\ activity = "gone"
    BY <1>3 DEF OnCreate
  <2> QED
    BY <1>1, <2>1 DEF Life!Added
<1> QED
  BY <1>2, <1>3

\* The end of the activity detaches the fragment.
LEMMA EndIsLife ==
  ASSUME activity' = "gone", UNCHANGED <<host, stack>>
  PROVE  Life!Detached \/ UNCHANGED Life!lifeVars
<1>1. CASE activity = "gone"
  BY <1>1 DEF Life!lifeVars
<1>2. CASE activity # "gone"
  BY <1>2 DEF Life!Detached
<1> QED
  BY <1>1, <1>2

\* A change of the back stack covers the fragment, uncovers it or neither.
LEMMA StackIsLife ==
  ASSUME UNCHANGED <<host, activity>>
  PROVE  Life!Covered \/ Life!Uncovered \/ UNCHANGED Life!lifeVars
<1>1. CASE activity = "gone"
  BY <1>1 DEF Life!lifeVars
<1>2. CASE activity # "gone" /\ stack = <<>> /\ stack' # <<>>
  BY <1>2 DEF Life!Covered
<1>3. CASE activity # "gone" /\ stack # <<>> /\ stack' = <<>>
  BY <1>3 DEF Life!Uncovered
<1>4. CASE (stack = <<>>) <=> (stack' = <<>>)
  BY <1>4 DEF Life!lifeVars
<1> QED
  BY <1>1, <1>2, <1>3, <1>4

\* Every step of the screen flow is one of FragmentLife or leaves what it sees.
\* The saving of the state needs the invariant: the activity is still there.
LEMMA LifeStep == IInv /\ [Next]_vars => [Life!LifeNext]_(Life!lifeVars)
<1> SUFFICES ASSUME IInv, [Next]_vars PROVE [Life!LifeNext]_(Life!lifeVars)
  OBVIOUS
<1>0. TypeOK
  BY DEF IInv
<1>1. CASE Launch
  BY <1>0, <1>1, OnCreateIsLife DEF Launch, Life!LifeNext
<1>2. ASSUME NEW killed \in BOOLEAN, Recreate(killed)
      PROVE  [Life!LifeNext]_(Life!lifeVars)
  <2>1. OnCreate(TRUE) /\ TRUE = (activity # "gone")
    BY <1>2 DEF Recreate
  <2> QED
    BY <1>0, <2>1, OnCreateIsLife DEF Life!LifeNext
<1>3. CASE RecreateWithDialog
  BY <1>3, EndIsLife DEF RecreateWithDialog, Life!LifeNext
<1>4. CASE Finish
  BY <1>4, EndIsLife DEF Finish, Life!LifeNext
<1>5. ASSUME NEW f \in Flow, NEW code \in Code, NEW part \in {"code", "infos"},
             Callback(f, code, part)
      PROVE  [Life!LifeNext]_(Life!lifeVars)
  <2>1. UNCHANGED <<host, stack>>
    BY <1>5 DEF Callback
  <2>2. activity' = activity \/ activity' = "gone"
    BY <1>5 DEF Callback, ShowDialog, ShowNewDialog, RefreshDDInfos
  <2>3. CASE activity' = "gone"
    BY <2>1, <2>3, EndIsLife DEF Life!LifeNext
  <2>4. CASE activity' = activity
    BY <2>1, <2>4, StackIsLife DEF Life!LifeNext
  <2> QED
    BY <2>2, <2>3, <2>4
<1>6. CASE Restart \/ RunSave
  BY <1>6 DEF Restart, RunSave, Dequeue, IInv, LastOpIsLast, Life!lifeVars
<1>7. CASE UNCHANGED <<host, activity>>
  BY <1>7, StackIsLife DEF Life!LifeNext
<1>8. ASSUME Stop \/ Back \/ ExecPending \/ RunReplace \/ RunShow \/ RunRemove
             \/ RunPop \/ RunBack \/ UNCHANGED vars
      PROVE  [Life!LifeNext]_(Life!lifeVars)
  <2>1. UNCHANGED <<host, activity>>
    BY <1>8 DEF Stop, Back, ExecPending, RunReplace, RunShow, RunRemove, RunPop,
                RunBack, vars
  <2> QED
    BY <1>7, <2>1
<1>9. ASSUME NEW f \in Flow, OnLogin(f) \/ OnStartTransaction(f)
      PROVE  [Life!LifeNext]_(Life!lifeVars)
  BY <1>7, <1>9 DEF OnLogin, OnStartTransaction, StartFragment
<1>10. ASSUME NEW d \in Dialog, OnDismiss(d)
       PROVE  [Life!LifeNext]_(Life!lifeVars)
  BY <1>7, <1>10 DEF OnDismiss
<1>11. CASE RunPending
  BY <1>4, <1>6, <1>8, <1>11 DEF RunPending
<1> HIDE DEF IInv
<1> QED
  BY <1>1, <1>2, <1>3, <1>5, <1>6, <1>8, <1>9, <1>10, <1>11, NextCases

(***************************************************************************)
(* Whatever the fragment transactions, the lifecycle and the crashes do,   *)
(* MainFragment lives as FragmentLife promises it: covered by a flow it    *)
(* keeps its activity, an instance never comes back, and after a rotation  *)
(* there is still exactly one, because onCreate adds one only when nothing *)
(* is restored.                                                            *)
(***************************************************************************)
THEOREM MainFragmentLifeHolds == Spec => MainFragmentLife
<1>1. Init => Life!LifeInit
  BY LifeInitial
<1>2. IInv /\ [Next]_vars => [Life!LifeNext]_(Life!lifeVars)
  BY LifeStep
<1> QED
  BY <1>1, <1>2, InvInit, InvNext, PTL DEF Spec, MainFragmentLife, Life!LifeSpec

-----------------------------------------------------------------------------
(***************************************************************************)
(* What MainActivity gets right as long as the SDK answers while its       *)
(* fragment is there and the user starts one flow at a time: the inductive *)
(* invariant behind PopsOwnFlow, InfosOfOwnFlow, InfosReachDialog and      *)
(* EveryFlowReported. MainActivity keeps no link from a dialog to its      *)
(* flow: that the fragment on top of the back stack is the dialog's is a   *)
(* fact about the order of what is queued.                                 *)
(***************************************************************************)
Calm == ~late /\ ~overlap

\* A flow that waits to be started is the only one: the back stack is empty and
\* whatever an earlier dialog still pops is popped before.
OneFlowAtATime ==
  /\ stack = <<>> \/ \E f \in Flow : stack = <<f>>
  /\ \A i \in DOMAIN pending : pending[i].op = "replace" =>
       /\ stack = <<>>
       /\ DialogsShown = {}
       /\ flow[pending[i].flow].state = "queued"
       /\ flow[pending[i].flow].owner = host
       /\ \A j \in DOMAIN pending :
            /\ pending[j].op = "replace" => i = j
            /\ pending[j].op = "pop" => j < i
            /\ pending[j].op # "show"

\* A dialog that comes, is there or goes is the one of the flow on the back stack.
DialogsOfStackedFlow ==
  /\ \A i \in DOMAIN pending : pending[i].op \in {"show", "pop"} =>
       stack \in {<<>>, <<FlowOf(pending[i].dialog)>>}
  /\ \A i \in DOMAIN pending : pending[i].op = "show" /\ ~draining => stack # <<>>
  /\ \A d \in DialogsShown : stack \in {<<>>, <<FlowOf(d)>>}

\* The SDK is called only once a flow's fragment is there, for the activity that
\* started the flow, and an activity that left has no dialog of a flow still there.
FlowsOwned ==
  /\ \A f \in Flow : flow[f].state = "queued" => flow[f].told = {}
  /\ \A f \in Flow : flow[f].state # "idle" => flow[f].owner \in Host
  /\ crash = "none" =>
       \A f \in Flow : InBackStack(f) /\ flow[f].owner # host =>
                         mMyDialog[flow[f].owner] = NoDialog
  /\ activity = "gone" /\ crash = "none" => stack = <<>>

\* The DDInfos due to a dialog it was built with, or it has shown them since.
InfosAwaited ==
  crash = "none" =>
    \A d \in Dialog : Granted(d) /\ InfosDue(d) =>
      /\ dialog[d] = "queued" => d[2] = "infos"
      /\ dialog[d] = "shown" => infosShown[d] = FlowOf(d)

\* What a dialog removed and what it showed were its own flow's.
OwnFlowOnly ==
  \A d \in Dialog : /\ poppedBy[d] \in {NoFlow, FlowOf(d)}
                    /\ infosShown[d] \in {NoFlow, FlowOf(d)}

\* A flow that was answered for has its dialog.
Reported ==
  crash = "none" =>
    \A f \in Flow : flow[f].state = "open" /\ flow[f].told # {} =>
      \E d \in Dialog : FlowOf(d) = f /\ dialog[d] # "none"

CInv ==
  Calm => /\ OneFlowAtATime
          /\ DialogsOfStackedFlow
          /\ FlowsOwned
          /\ InfosAwaited
          /\ OwnFlowOnly
          /\ Reported

-----------------------------------------------------------------------------
(***************************************************************************)
(* CInv is inductive, given IInv.                                          *)
(***************************************************************************)

\* It holds at launch.
LEMMA CalmInit == Init => CInv
BY DEF Init, CInv, OneFlowAtATime, DialogsOfStackedFlow, FlowsOwned, InfosAwaited,
       OwnFlowOnly, Reported, InBackStack, DialogsShown, Granted, Dialog, FlowOf

\* The back stack of one flow at a time.
LEMMA SingleStack ==
  ASSUME NEW f \in Flow, stack = <<f>>
  PROVE  /\ stack # <<>>
         /\ \A g \in Flow : InBackStack(g) <=> g = f
         /\ \A g : stack = <<g>> => g = f
BY DEF InBackStack

\* Nothing is in an empty one.
LEMMA EmptyStack ==
  ASSUME stack = <<>>
  PROVE  \A g : ~ InBackStack(g) /\ stack # <<g>>
BY DEF InBackStack

\* The dialog of an activity that shows one, or is about to, is the stacked flow's.
LEMMA DialogIsStackedFlows ==
  ASSUME IInv, OneFlowAtATime, DialogsOfStackedFlow, NEW d \in Dialog,
         dialog[d] \in {"queued", "shown"}, activity # "gone"
  PROVE  stack \in {<<>>, <<FlowOf(d)>>}
<1>1. CASE dialog[d] = "shown"
  BY <1>1 DEF DialogsOfStackedFlow, DialogsShown
<1>2. CASE dialog[d] = "queued"
  <2>1. PICK i \in DOMAIN pending : pending[i] = [op |-> "show", dialog |-> d]
    BY <1>2 DEF IInv, ShowsMatchDialogs
  <2>2. pending[i].op = "show" /\ pending[i].dialog = d
    BY <2>1
  <2> QED
    BY <2>1, <2>2 DEF DialogsOfStackedFlow
<1> QED
  BY <1>1, <1>2

\* An activity has at most one dialog.
LEMMA OneDialog ==
  ASSUME IInv, activity # "gone", NEW d \in Dialog, NEW e \in Dialog,
         dialog[d] \in {"queued", "shown"}, dialog[e] \in {"queued", "shown"}
  PROVE  d = e /\ mMyDialog[host] = d
<1>1. {c \in Dialog : dialog[c] \in {"queued", "shown"}} = {mMyDialog[host]} \ {NoDialog}
  BY DEF IInv, FieldTracksDialog
<1> QED
  BY <1>1

\* Dialogs belong to flows.
LEMMA DialogFlows ==
  \A d \in Dialog : FlowOf(d) \in Flow /\ d[2] \in {"code", "infos"}
BY DEF Dialog, FlowOf

\* DDInfos become due only when they come.
LEMMA InfosDueStays ==
  ASSUME \A f \in Flow : flow'[f].told = flow[f].told,
         \A d \in Dialog : dialog[d] # "none" => dialog'[d] # "none"
  PROVE  \A d \in Dialog : InfosDue(d)' => InfosDue(d)
BY DEF InfosDue, Dialog, FlowOf

\* A new activity.
LEMMA LaunchCalm ==
  ASSUME IInv, CInv, Launch
  PROVE  CInv'
<1>1. /\ activity = "gone" /\ stack' = <<>> /\ pending' = <<>> /\ crash' = "none"
      /\ activity' = "resumed"
      /\ UNCHANGED <<mMyDialog, mCode, infosShown, poppedBy, late, overlap>>
  BY DEF Launch, OnCreate, history
<1>2. SUFFICES ASSUME Calm
               PROVE  CInv'
  BY <1>1 DEF CInv, Calm
<1>3. /\ flow \in [Flow -> FlowRecord]
      /\ \A f \in Flow : flow[f] \in FlowRecord
  BY DEF IInv, TypeOK
<1>4. \A d \in Dialog : dialog'[d] \notin {"queued", "shown"}
  <2>1. CASE crash = "none"
    BY <1>1, <2>1 DEF Launch, IInv, FreshFields
  <2>2. CASE crash # "none"
    BY <2>2 DEF Launch, DialogsLost
  <2> QED
    BY <2>1, <2>2
<1>5. \A f \in Flow : /\ flow'[f].told = flow[f].told
                      /\ flow'[f].owner = flow[f].owner
                      /\ flow'[f].state = "queued" => flow[f].state = "queued"
                      /\ flow[f].state = "idle" => flow'[f].state = "idle"
                      /\ flow'[f].state = "open" => crash = "none" /\ flow[f].state = "open"
  <2>1. CASE crash = "none"
    BY <2>1 DEF Launch
  <2>2. CASE crash # "none"
    <3>1. flow' = CallbacksLost
      BY <2>2 DEF Launch
    <3>2. \A f \in Flow : CallbacksLost[f].state = (IF flow[f].state = "idle" THEN "idle" ELSE "lost")
      BY <1>3 DEF CallbacksLost, FlowRecord
    <3> QED
      BY <1>3, <2>2, <3>1, <3>2, CallbacksLostKeeps
  <2> QED
    BY <2>1, <2>2
<1>6. OneFlowAtATime' /\ DialogsOfStackedFlow'
  BY <1>1, <1>4 DEF OneFlowAtATime, DialogsOfStackedFlow, DialogsShown
<1>7. FlowsOwned'
  <2>1. \A f \in Flow : (flow[f].state # "idle" => flow[f].owner \in Host)
                        /\ (flow[f].state = "queued" => flow[f].told = {})
    BY <1>2 DEF CInv, FlowsOwned
  <2>2. \A f : ~InBackStack(f)'
    BY <1>1 DEF InBackStack
  <2>3. \A f \in Flow : flow'[f].state # "idle" => flow[f].state # "idle"
    BY <1>5
  <2>4. (\A f \in Flow : flow[f].state = "queued" => flow[f].told = {})'
    BY <1>5, <2>1
  <2>5. (\A f \in Flow : flow[f].state # "idle" => flow[f].owner \in Host)'
    BY <1>5, <2>1, <2>3 DEF Host
  <2> QED
    BY <1>1, <2>2, <2>4, <2>5 DEF FlowsOwned
<1>8. InfosAwaited'
  BY <1>4 DEF InfosAwaited
<1>9. OwnFlowOnly'
  BY <1>1, <1>2 DEF CInv, OwnFlowOnly
<1>10. Reported'
  <2>1. \A d \in Dialog : crash = "none" => dialog'[d] = dialog[d]
    BY DEF Launch
  <2> QED
    BY <1>2, <1>5, <2>1 DEF CInv, Reported
<1> QED
  BY <1>6, <1>7, <1>8, <1>9, <1>10 DEF CInv

\* The activity is created again, or not because a dialog was on the screen.
LEMMA RecreateCalm ==
  ASSUME IInv, CInv, NEW killed \in BOOLEAN, Recreate(killed)
  PROVE  CInv'
<1>1. /\ activity = "stopped" /\ stack' = stack /\ pending = <<>> /\ pending' = <<>>
      /\ host' = host + 1 /\ activity' = "resumed" /\ DialogsShown = {}
      /\ UNCHANGED <<crash, mMyDialog, mCode, infosShown, dialog, poppedBy, late, overlap>>
  BY DEF Recreate, OnCreate, history, IInv, LastOpIsLast
<1>2. SUFFICES ASSUME Calm
               PROVE  CInv'
  BY <1>1 DEF CInv, Calm
<1>3. \A f \in Flow : flow[f] \in FlowRecord
  BY DEF IInv, TypeOK
<1>4. \A f \in Flow : /\ flow'[f].told = flow[f].told
                      /\ flow'[f].owner = flow[f].owner
                      /\ flow'[f].state = "queued" => flow[f].state = "queued"
                      /\ flow[f].state = "idle" => flow'[f].state = "idle"
                      /\ flow'[f].state = "open" => flow[f].state = "open"
  <2>1. CASE ~killed
    BY <2>1 DEF Recreate
  <2>2. CASE killed
    <3>1. flow' = CallbacksLost
      BY <2>2 DEF Recreate
    <3>2. \A f \in Flow : CallbacksLost[f].state = (IF flow[f].state = "idle" THEN "idle" ELSE "lost")
      BY <1>3 DEF CallbacksLost, FlowRecord
    <3>3. flow \in [Flow -> FlowRecord]
      BY DEF IInv, TypeOK
    <3> QED
      BY <3>1, <3>2, <3>3, CallbacksLostKeeps
  <2> QED
    BY <2>1, <2>2
<1>5. OneFlowAtATime' /\ DialogsOfStackedFlow'
  BY <1>1, <1>2 DEF CInv, OneFlowAtATime, DialogsOfStackedFlow, DialogsShown
<1>6. FlowsOwned'
  <2>1. mMyDialog[host] = NoDialog
    <3>1. \A d \in Dialog : dialog[d] # "queued"
      BY <1>1 DEF IInv, ShowsMatchDialogs
    <3>2. host \in Host
      BY <1>1 DEF IInv, OwnersExist
    <3>3. mMyDialog[host] \in Dialog \cup {NoDialog}
      BY <3>2 DEF IInv, TypeOK
    <3> QED
      BY <1>1, <3>1, <3>3 DEF IInv, FieldTracksDialog, DialogsShown
  <2>2. /\ \A f \in Flow : (flow[f].state # "idle" => flow[f].owner \in Host)
        /\ \A f \in Flow : (flow[f].state = "queued" => flow[f].told = {})
        /\ crash = "none" =>
             \A f \in Flow : InBackStack(f) /\ flow[f].owner # host =>
                               mMyDialog[flow[f].owner] = NoDialog
    BY <1>2 DEF CInv, FlowsOwned
  <2>3. \A f : InBackStack(f)' <=> InBackStack(f)
    BY <1>1 DEF InBackStack
  <2>4. (\A f \in Flow : flow[f].state = "queued" => flow[f].told = {})'
    BY <1>4, <2>2
  <2>5. (\A f \in Flow : flow[f].state # "idle" => flow[f].owner \in Host)'
    BY <1>4, <2>2 DEF Host
  <2>6. (crash = "none" =>
           \A f \in Flow : InBackStack(f) /\ flow[f].owner # host =>
                             mMyDialog[flow[f].owner] = NoDialog)'
    BY <1>1, <1>4, <2>1, <2>2, <2>3
  <2> QED
    BY <1>1, <2>4, <2>5, <2>6 DEF FlowsOwned
<1>7. InfosAwaited'
  BY <1>1, <1>2, <1>4, InfosDueStays DEF CInv, InfosAwaited, Granted
<1>8. OwnFlowOnly'
  BY <1>1, <1>2 DEF CInv, OwnFlowOnly
<1>9. Reported'
  BY <1>1, <1>2, <1>4 DEF CInv, Reported
<1> QED
  BY <1>5, <1>6, <1>7, <1>8, <1>9 DEF CInv

\* Leaving the screen and the back key only enqueue what no flow is in.
LEMMA LeavingCalm ==
  ASSUME IInv, CInv, Stop \/ Back
  PROVE  CInv'
<1>1. PICK o \in Op : o.op \in {"back", "save"} /\ pending' = Append(pending, o)
  BY OpTypes DEF Stop, Back
<1>2. UNCHANGED <<host, activity, stack, flow, mMyDialog, dialog, mCode, infosShown,
                  crash, poppedBy, late, overlap>> /\ draining'
  BY DEF Stop, Back, history
<1>3. SUFFICES ASSUME Calm
               PROVE  CInv'
  BY <1>2 DEF CInv, Calm
<1>4. \A i \in DOMAIN pending' : pending'[i].op \notin {"back", "save"} =>
        i \in DOMAIN pending /\ pending'[i] = pending[i]
  <2>1. pending \in Seq(Op)
    BY DEF IInv, TypeOK
  <2>2. /\ DOMAIN pending = 1 .. Len(pending) /\ Len(pending) \in Nat
        /\ DOMAIN pending' = 1 .. Len(pending) + 1
        /\ \A i \in 1 .. Len(pending) : pending'[i] = pending[i]
        /\ pending'[Len(pending) + 1] = o
    BY <1>1, <2>1, EnqueueTypes
  <2> QED
    BY <1>1, <2>2
<1>5. OneFlowAtATime'
  BY <1>2, <1>3, <1>4 DEF CInv, OneFlowAtATime, DialogsShown
<1>6. DialogsOfStackedFlow'
  BY <1>2, <1>3, <1>4 DEF CInv, DialogsOfStackedFlow, DialogsShown
<1> QED
  BY <1>2, <1>3, <1>5, <1>6
     DEF CInv, FlowsOwned, InfosAwaited, InfosDue, OwnFlowOnly, Reported, InBackStack,
         Granted

\* A button of MainFragment starts a flow: nothing that is still queued is of
\* an earlier one's dialog, but pops that come first.
LEMMA StartCalm ==
  ASSUME IInv, CInv, NEW f \in Flow, NEW kind, StartFragment(f, kind)
  PROVE  CInv'
<1> DEFINE o == [op |-> "replace", flow |-> f]
<1>1. /\ ~draining /\ activity = "resumed" /\ DialogsShown = {} /\ stack = <<>>
      /\ flow[f].state = "idle"
      /\ UNCHANGED <<host, activity, stack, draining, mMyDialog, dialog, mCode,
                     infosShown, crash, poppedBy, late>>
      /\ pending' = Append(pending, o)
      /\ overlap' = (overlap \/ \E i \in 1 .. Len(pending) : pending[i].op = "replace")
  BY DEF StartFragment, Idle
<1>2. CASE overlap'
  BY <1>2 DEF CInv, Calm
<1>3. CASE ~overlap'
  <2>1. SUFFICES ASSUME Calm
                 PROVE  CInv'
    BY <1>1, <1>3 DEF CInv, Calm
  <2>2. o \in Op /\ o.op = "replace" /\ o.flow = f
    BY OpTypes
  <2> HIDE DEF o
  <2>3. /\ DOMAIN pending = 1 .. Len(pending) /\ Len(pending) \in Nat
        /\ DOMAIN pending' = 1 .. Len(pending) + 1
        /\ \A i \in DOMAIN pending : i < Len(pending) + 1 /\ pending'[i] = pending[i]
        /\ pending'[Len(pending) + 1] = o
    BY <1>1, <2>2, EnqueueTypes DEF IInv, TypeOK
  <2>4. \A i \in DOMAIN pending : pending[i].op # "replace"
    BY <1>1, <1>3, <2>3
  <2>5. \A i \in DOMAIN pending : pending[i].op # "show"
    BY <1>1, <2>1 DEF CInv, DialogsOfStackedFlow
  <2>6. \A i \in DOMAIN pending' : \/ i \in DOMAIN pending
                                   \/ i = Len(pending) + 1
    BY <2>3
  <2>7. /\ flow'[f].state = "queued" /\ flow'[f].owner = host
        /\ flow'[f].told = flow[f].told
        /\ \A g \in Flow \ {f} : flow'[g] = flow[g]
    BY DEF StartFragment, IInv, TypeOK, FlowRecord
  <2>8. flow[f].told = {} /\ host \in Host
    BY <1>1 DEF IInv, DialogsComeFromCallbacks, OwnersExist
  <2>9. OneFlowAtATime'
    <3>1. ASSUME NEW i \in DOMAIN pending', pending'[i].op = "replace"
          PROVE  i = Len(pending) + 1
      BY <2>3, <2>4, <2>6, <3>1
    <3>2. \A j \in DOMAIN pending' :
            /\ pending'[j].op = "replace" => j = Len(pending) + 1
            /\ pending'[j].op = "pop" => j < Len(pending) + 1
            /\ pending'[j].op # "show"
      BY <2>2, <2>3, <2>5, <2>6, <3>1
    <3>3. stack' = <<>> /\ DialogsShown' = {} /\ host' = host
      BY <1>1 DEF DialogsShown
    <3> QED
      BY <2>2, <2>3, <2>7, <3>1, <3>2, <3>3 DEF OneFlowAtATime
  <2>10. DialogsOfStackedFlow'
    BY <1>1, <2>2, <2>3, <2>5, <2>6 DEF DialogsOfStackedFlow, DialogsShown
  <2>11. FlowsOwned'
    <3>1. (\A g \in Flow : flow[g].state = "queued" => flow[g].told = {})'
      BY <2>1, <2>7, <2>8 DEF CInv, FlowsOwned
    <3>2. (\A g \in Flow : flow[g].state # "idle" => flow[g].owner \in Host)'
      BY <2>1, <2>7, <2>8 DEF CInv, FlowsOwned, Host
    <3> QED
      BY <1>1, <3>1, <3>2 DEF FlowsOwned, InBackStack
  <2>12. InfosAwaited' /\ Reported'
    <3>1. \A g \in Flow : flow'[g].told = flow[g].told
      BY <2>7
    <3>2. \A g \in Flow : flow'[g].state = "open" => flow[g].state = "open"
      BY <2>7
    <3>3. InfosAwaited'
      BY <1>1, <2>1, <3>1, InfosDueStays DEF CInv, InfosAwaited, Granted
    <3>4. Reported'
      BY <1>1, <2>1, <3>1, <3>2 DEF CInv, Reported
    <3> QED
      BY <3>3, <3>4
  <2>13. OwnFlowOnly'
    BY <1>1, <2>1 DEF CInv, OwnFlowOnly
  <2> QED
    BY <2>9, <2>10, <2>11, <2>12, <2>13 DEF CInv
<1> QED
  BY <1>2, <1>3

\* The dialog's button: what it queues is popped from its own flow's stack.
LEMMA DismissCalm ==
  ASSUME IInv, CInv, NEW d \in Dialog, OnDismiss(d)
  PROVE  CInv'
<1> DEFINE r == [op |-> "remove", dialog |-> d]
           p == [op |-> "pop", dialog |-> d]
           q == Append(pending, r)
<1>1. /\ ~draining /\ activity = "resumed" /\ dialog[d] = "shown"
      /\ UNCHANGED <<host, activity, stack, draining, flow, mCode, infosShown, crash,
                     poppedBy, late, overlap>>
      /\ pending' = Append(q, p)
      /\ dialog' = [dialog EXCEPT ![d] = "dismissed"]
  BY DEF OnDismiss, Idle, history
<1>2. /\ r \in Op /\ r.op = "remove" /\ r.dialog = d
      /\ p \in Op /\ p.op = "pop" /\ p.dialog = d
  BY OpTypes
<1>3. SUFFICES ASSUME Calm
               PROVE  CInv'
  BY <1>1 DEF CInv, Calm
<1> HIDE DEF r, p
<1>4. /\ DOMAIN pending = 1 .. Len(pending) /\ Len(pending) \in Nat
      /\ DOMAIN pending' = 1 .. Len(pending) + 2
      /\ \A i \in DOMAIN pending : pending'[i] = pending[i]
      /\ pending'[Len(pending) + 1] = r
      /\ pending'[Len(pending) + 2] = p
  <2>1. /\ q \in Seq(Op) /\ Len(q) = Len(pending) + 1
        /\ \A i \in 1 .. Len(pending) : q[i] = pending[i]
        /\ q[Len(pending) + 1] = r
    BY <1>2, EnqueueTypes DEF IInv, TypeOK
  <2>2. /\ DOMAIN pending' = 1 .. Len(q) + 1
        /\ \A i \in 1 .. Len(q) : pending'[i] = q[i]
        /\ pending'[Len(q) + 1] = p
    BY <1>1, <1>2, <2>1, EnqueueTypes
  <2>3. DOMAIN pending = 1 .. Len(pending) /\ Len(pending) \in Nat
    BY QueueDomain DEF IInv
  <2> HIDE DEF q
  <2> QED
    BY <2>1, <2>2, <2>3
<1>5. \A i \in DOMAIN pending' : \/ i \in DOMAIN pending
                                 \/ i = Len(pending) + 1
                                 \/ i = Len(pending) + 2
  BY <1>4
<1>6. \A e \in Dialog : dialog'[e] = IF e = d THEN "dismissed" ELSE dialog[e]
  BY <1>1 DEF IInv, TypeOK
<1>7. d \in DialogsShown /\ DialogsShown' \subseteq DialogsShown
  BY <1>1, <1>6 DEF DialogsShown
<1>8. \A i \in DOMAIN pending : pending[i].op # "replace"
  BY <1>3, <1>7 DEF CInv, OneFlowAtATime
<1>9. OneFlowAtATime'
  <2>1. \A i \in DOMAIN pending' : pending'[i].op # "replace"
    BY <1>2, <1>4, <1>5, <1>8
  <2> QED
    BY <1>1, <1>3, <2>1 DEF CInv, OneFlowAtATime
<1>10. DialogsOfStackedFlow'
  <2>1. stack \in {<<>>, <<FlowOf(d)>>}
    BY <1>3, <1>7 DEF CInv, DialogsOfStackedFlow
  <2>2. \A i \in DOMAIN pending : pending[i].op \in {"show", "pop"} =>
          stack \in {<<>>, <<FlowOf(pending[i].dialog)>>}
    BY <1>3 DEF CInv, DialogsOfStackedFlow
  <2>3. (\A i \in DOMAIN pending : pending[i].op \in {"show", "pop"} =>
          stack \in {<<>>, <<FlowOf(pending[i].dialog)>>})'
    BY <1>1, <1>2, <1>4, <1>5, <2>1, <2>2
  <2>4. (\A i \in DOMAIN pending : pending[i].op = "show" /\ ~draining => stack # <<>>)'
    BY <1>1, <1>2, <1>3, <1>4, <1>5 DEF CInv, DialogsOfStackedFlow
  <2>5. (\A e \in DialogsShown : stack \in {<<>>, <<FlowOf(e)>>})'
    BY <1>1, <1>3, <1>7 DEF CInv, DialogsOfStackedFlow
  <2> QED
    BY <2>3, <2>4, <2>5 DEF DialogsOfStackedFlow
<1>11. FlowsOwned'
  <2>3. \A f : InBackStack(f)' <=> InBackStack(f)
    BY <1>1 DEF InBackStack
  <2>5. mMyDialog' = [mMyDialog EXCEPT ![flow[FlowOf(d)].owner] = NoDialog]
    BY DEF OnDismiss
  <2>6. \A h : mMyDialog[h] = NoDialog => mMyDialog'[h] = NoDialog
    BY <2>5 DEF IInv, TypeOK
  <2> QED
    BY <1>1, <1>3, <2>3, <2>6 DEF CInv, FlowsOwned
<1>12. InfosAwaited'
  <2>1. \A e \in Dialog : InfosDue(e)' => InfosDue(e)
    BY <1>1, <1>3, <1>6, InfosDueStays
  <2> QED
    BY <1>1, <1>3, <1>6, <2>1 DEF CInv, InfosAwaited, Granted
<1>13. OwnFlowOnly' /\ Reported'
  BY <1>1, <1>3, <1>6 DEF CInv, OwnFlowOnly, Reported
<1> QED
  BY <1>9, <1>10, <1>11, <1>12, <1>13 DEF CInv

\* showDialog, while the flow is the one on the back stack: its activity's field
\* is null, and the result gets a dialog, or it names a dialog of this flow.
LEMMA CallbackCalm ==
  ASSUME IInv, CInv, NEW f \in Flow, NEW code \in Code,
         NEW part \in {"code", "infos"}, part \notin flow[f].told,
         Callback(f, code, part)
  PROVE  CInv'
<1> DEFINE h == flow[f].owner
           d == <<f, part>>
           m == mMyDialog[h]
           o == [op |-> "show", dialog |-> d]
<1>1. /\ ~draining /\ crash = "none" /\ flow[f].state = "open"
      /\ late' = (late \/ ~InBackStack(f))
      /\ UNCHANGED <<host, stack, draining, poppedBy, overlap>>
  BY DEF Callback
<1>2. CASE late' \/ overlap
  BY <1>1, <1>2 DEF CInv, Calm
<1>3. CASE ~late' /\ ~overlap
  <2>1. Calm /\ InBackStack(f) /\ CInv
    BY <1>1, <1>3 DEF Calm
  <2>2. OneFlowAtATime /\ DialogsOfStackedFlow /\ FlowsOwned /\ InfosAwaited
        /\ OwnFlowOnly /\ Reported
    BY <2>1 DEF CInv
  <2>3. stack = <<f>>
    BY <2>1, <2>2, SingleStack, EmptyStack DEF OneFlowAtATime
  <2>4. stack # <<>> /\ \A g : stack = <<g>> => g = f
    BY <2>3
  <2>5. activity # "gone" /\ h \in Host
    BY <1>1, <2>2, <2>4 DEF FlowsOwned
  <2>6. \A i \in DOMAIN pending : pending[i].op # "replace"
    BY <2>2, <2>4 DEF OneFlowAtATime
  <2>7. /\ flow'[f].told = flow[f].told \cup {part} /\ flow'[f].owner = flow[f].owner
        /\ flow'[f].state = "open"
        /\ \A g \in Flow \ {f} : flow'[g] = flow[g]
    BY <1>1 DEF Callback, IInv, TypeOK, FlowRecord
  <2>8. /\ d \in Dialog /\ FlowOf(d) = f /\ d[2] = part /\ o \in Op /\ o.op = "show"
        /\ o.dialog = d
    BY OpTypes DEF Dialog, FlowOf
  <2>9. /\ mMyDialog \in [Host -> Dialog \cup {NoDialog}]
        /\ dialog \in [Dialog -> DialogState]
        /\ mCode \in [Dialog -> Code \cup {"null"}]
        /\ infosShown \in [Dialog -> Flow \cup {NoFlow}]
    BY DEF IInv, TypeOK
  <2>10. \A g : InBackStack(g)' <=> InBackStack(g)
    BY <1>1 DEF InBackStack
  \* What the flow's record promises stays as it was.
  <2>11. /\ (\A g \in Flow : flow[g].state = "queued" => flow[g].told = {})'
         /\ (\A g \in Flow : flow[g].state # "idle" => flow[g].owner \in Host)'
         /\ \A g \in Flow : flow'[g].owner = flow[g].owner
    BY <1>1, <2>2, <2>7 DEF FlowsOwned, Host
  \* The field names a dialog of this flow, shown or about to be, by the activity
  \* on the screen.
  <2>12. ASSUME m # NoDialog
         PROVE  /\ h = host /\ m \in Dialog /\ FlowOf(m) = f
                /\ dialog[m] \in {"queued", "shown"}
                /\ \A e \in Dialog : dialog[e] \in {"queued", "shown"} => e = m
    <3>1. h = host
      BY <1>1, <2>1, <2>2, <2>12 DEF FlowsOwned
    <3>2. m \in Dialog /\ dialog[m] \in {"queued", "shown"}
      BY <2>5, <2>12, <3>1 DEF IInv, FieldTracksDialog
    <3>3. FlowOf(m) = f
      BY <2>2, <2>3, <2>4, <2>5, <3>2, DialogIsStackedFlows
    <3> QED
      BY <2>5, <3>1, <3>2, <3>3, OneDialog
  <2> HIDE DEF d, h, m, o
  <2>13. CInv' <=> /\ OneFlowAtATime' /\ DialogsOfStackedFlow' /\ FlowsOwned'
                   /\ InfosAwaited' /\ OwnFlowOnly' /\ Reported'
    BY <1>1, <1>3 DEF CInv, Calm
  \* The process ends.
  <2>14. ASSUME crash' # "none", UNCHANGED <<dialog, pending, infosShown>>
         PROVE  CInv'
    <3>1. OneFlowAtATime'
      BY <1>1, <2>2, <2>6, <2>14 DEF OneFlowAtATime
    <3>2. DialogsOfStackedFlow'
      BY <1>1, <2>2, <2>14 DEF DialogsOfStackedFlow, DialogsShown
    <3>3. FlowsOwned' /\ InfosAwaited' /\ Reported'
      BY <2>11, <2>14 DEF FlowsOwned, InfosAwaited, Reported
    <3>4. OwnFlowOnly'
      BY <1>1, <2>2, <2>14 DEF OwnFlowOnly
    <3> QED
      BY <2>13, <3>1, <3>2, <3>3, <3>4
  \* A new dialog.
  <2>15. ASSUME m = NoDialog, h = host, activity = "resumed",
                mCode' = [mCode EXCEPT ![d] = code],
                mMyDialog' = [mMyDialog EXCEPT ![h] = d],
                dialog' = [dialog EXCEPT ![d] = "queued"],
                pending' = Append(pending, o),
                UNCHANGED <<activity, crash, infosShown>>
         PROVE  CInv'
    <3>1. /\ DOMAIN pending = 1 .. Len(pending) /\ Len(pending) \in Nat
          /\ DOMAIN pending' = 1 .. Len(pending) + 1
          /\ \A i \in DOMAIN pending : pending'[i] = pending[i]
          /\ pending'[Len(pending) + 1] = o
      BY <2>8, <2>15, EnqueueTypes DEF IInv, TypeOK
    <3>2. \A i \in DOMAIN pending' : i \in DOMAIN pending \/ pending'[i] = o
      BY <3>1
    <3>3. \A e \in Dialog : /\ dialog'[e] = IF e = d THEN "queued" ELSE dialog[e]
                            /\ mCode'[e] = IF e = d THEN code ELSE mCode[e]
      BY <2>8, <2>9, <2>15
    <3>4. \A e \in Dialog : dialog[e] \notin {"queued", "shown"}
      BY <2>5, <2>15 DEF IInv, FieldTracksDialog, m
    <3>5. OneFlowAtATime'
      <4>1. \A i \in DOMAIN pending' : pending'[i].op # "replace"
        BY <2>6, <2>8, <3>1, <3>2
      <4> QED
        BY <1>1, <2>2, <4>1 DEF OneFlowAtATime
    <3>6. DialogsOfStackedFlow'
      <4>1. DialogsShown' \subseteq DialogsShown
        BY <3>3 DEF DialogsShown
      <4>2. (\A i \in DOMAIN pending : pending[i].op \in {"show", "pop"} =>
               stack \in {<<>>, <<FlowOf(pending[i].dialog)>>})'
        BY <1>1, <2>2, <2>3, <2>8, <3>1, <3>2 DEF DialogsOfStackedFlow
      <4> QED
        BY <1>1, <2>2, <2>4, <4>1, <4>2 DEF DialogsOfStackedFlow
    <3>7. FlowsOwned'
      <4>1. \A g : g # host => mMyDialog'[g] = mMyDialog[g]
        BY <2>9, <2>15
      <4> QED
        BY <1>1, <2>2, <2>10, <2>11, <2>15, <4>1 DEF FlowsOwned
    <3>8. InfosAwaited'
      <4>1. SUFFICES ASSUME NEW e \in Dialog, Granted(e)', dialog'[e] \in {"queued", "shown"},
                            InfosDue(e)'
                     PROVE  dialog'[e] = "queued" /\ e[2] = "infos"
        BY DEF InfosAwaited
      <4>2. e = d /\ dialog'[e] = "queued"
        BY <3>3, <3>4, <4>1
      <4>3. CASE part = "infos"
        BY <2>8, <4>2, <4>3
      \* DDInfos that came before the code made a dialog of their own.
      <4>4. CASE part = "code"
        <5>1. flow[f].told # {} /\ "code" \notin flow[f].told
          BY <2>7, <2>8, <4>1, <4>2, <4>4 DEF InfosDue
        <5>2. PICK c \in Dialog : FlowOf(c) = f /\ dialog[c] # "none"
          BY <1>1, <2>2, <5>1 DEF Reported
        <5>3. c[2] \in flow[f].told
          BY <5>2 DEF IInv, DialogsComeFromCallbacks
        <5>4. c = <<f, "infos">>
          BY <5>1, <5>2, <5>3 DEF Dialog, FlowOf
        <5>5. dialog'[<<f, "infos">>] # "none"
          BY <3>3, <5>2, <5>4
        <5> QED
          BY <2>8, <4>1, <4>2, <4>4, <5>5 DEF InfosDue
      <4> QED
        BY <4>3, <4>4
    <3>9. OwnFlowOnly'
      BY <1>1, <2>2, <2>15 DEF OwnFlowOnly
    <3>10. Reported'
      <4>1. dialog'[d] # "none" /\ \A e \in Dialog : dialog[e] # "none" => dialog'[e] # "none"
        BY <2>8, <3>3
      <4> QED
        BY <1>1, <2>2, <2>7, <2>8, <4>1 DEF Reported
    <3> QED
      BY <2>13, <3>5, <3>6, <3>7, <3>8, <3>9, <3>10
  \* DDInfos for a dialog there is, or nothing new.
  <2>16. ASSUME m # NoDialog,
                UNCHANGED <<mMyDialog, dialog, mCode, pending, activity, crash>>,
                \/ part = "infos" /\ ~Granted(m) /\ UNCHANGED infosShown
                \/ part = "code" /\ UNCHANGED infosShown
                \/ /\ part = "infos" /\ ViewCreated(m)
                   /\ infosShown' = [infosShown EXCEPT ![m] = f]
         PROVE  CInv'
    <3>1. /\ h = host /\ m \in Dialog /\ FlowOf(m) = f
          /\ dialog[m] \in {"queued", "shown"}
          /\ \A e \in Dialog : dialog[e] \in {"queued", "shown"} => e = m
      BY <2>12, <2>16
    <3>2. OneFlowAtATime'
      BY <1>1, <2>2, <2>6, <2>16 DEF OneFlowAtATime
    <3>3. DialogsOfStackedFlow'
      BY <1>1, <2>2, <2>16 DEF DialogsOfStackedFlow, DialogsShown
    <3>4. FlowsOwned'
      BY <1>1, <2>2, <2>10, <2>11, <2>16 DEF FlowsOwned
    <3>5. OwnFlowOnly'
      BY <1>1, <2>2, <2>9, <2>16, <3>1 DEF OwnFlowOnly
    <3>6. Reported'
      BY <1>1, <2>2, <2>7, <2>16, <3>1 DEF Reported
    <3>7. InfosAwaited'
      <4>1. SUFFICES ASSUME NEW e \in Dialog, Granted(e), dialog[e] \in {"queued", "shown"},
                            InfosDue(e)'
                     PROVE  /\ dialog[e] = "queued" => e[2] = "infos"
                            /\ dialog[e] = "shown" => infosShown'[e] = FlowOf(e)
        BY <2>16 DEF InfosAwaited, Granted
      <4>2. e = m /\ FlowOf(e) = f
        BY <3>1, <4>1
      <4>3. CASE part = "code"
        <5>1. InfosDue(e)
          BY <2>7, <2>16, <4>1, <4>2, <4>3 DEF InfosDue
        <5>2. infosShown' = infosShown
          BY <2>16, <4>3
        <5> QED
          BY <1>1, <2>2, <4>1, <5>1, <5>2 DEF InfosAwaited
      <4>4. CASE part = "infos"
        <5>1. ViewCreated(m) /\ infosShown' = [infosShown EXCEPT ![m] = f]
          BY <2>16, <4>1, <4>2, <4>4
        <5> QED
          BY <2>9, <3>1, <4>2, <5>1 DEF ViewCreated
      <4> QED
        BY <4>3, <4>4
    <3> QED
      BY <2>13, <3>2, <3>3, <3>4, <3>5, <3>6, <3>7
  <2>17. ShowDialog(h, f, code, part)
    BY DEF Callback, h
  <2>18. CASE ShowNewDialog(h, d, code)
    BY <2>14, <2>15, <2>18 DEF ShowNewDialog, m, o
  <2>19. CASE m # NoDialog /\ part = "infos" /\ RefreshDDInfos(m, f)
    BY <2>14, <2>16, <2>19 DEF RefreshDDInfos
  <2>20. CASE /\ m # NoDialog /\ part = "code"
              /\ UNCHANGED <<mMyDialog, dialog, pending, mCode, infosShown, activity, crash>>
    BY <2>16, <2>20
  <2> QED
    BY <2>17, <2>18, <2>19, <2>20 DEF ShowDialog, d, m
<1> QED
  BY <1>1, <1>2, <1>3

\* The FragmentManager executes the first operation of its queue.
LEMMA RunCalm ==
  ASSUME IInv, CInv, RunPending
  PROVE  CInv'
<1>1. PICK op : Dequeue(op)
  BY DEF RunPending, RunReplace, RunShow, RunRemove, RunPop, RunBack, Finish, RunSave
<1>2. /\ DOMAIN pending = 1 .. Len(pending) /\ Len(pending) \in Nat
      /\ DOMAIN pending' = 1 .. Len(pending) - 1
      /\ \A i \in DOMAIN pending' : i + 1 \in DOMAIN pending /\ pending'[i] = pending[i + 1]
      /\ 1 \in DOMAIN pending
      /\ pending[1].op = op /\ Head(pending) = pending[1]
      /\ draining /\ draining' = (pending' # <<>>)
      /\ activity = "resumed"
  BY <1>1, DequeueShifts DEF IInv, LastOpIsLast
<1>3. /\ pending[1] \in Op
      /\ \A i \in DOMAIN pending' : draining' /\ i \in Nat
  <2>1. pending[1] \in Op
    BY <1>1, <1>2, DequeueTypes DEF IInv
  <2>2. ASSUME NEW i \in DOMAIN pending'
        PROVE  draining' /\ i \in Nat
    <3>1. pending' # <<>>
      OBVIOUS
    <3>2. draining' = (pending' # <<>>)
      BY <1>2
    <3>3. i \in 1 .. Len(pending) - 1
      BY <1>2
    <3>4. i \in Nat
      BY <1>2, <3>3
    <3> QED
      BY <3>1, <3>2, <3>4
  <2> QED
    BY <2>1, <2>2
<1>4. UNCHANGED <<host, mMyDialog, mCode, crash, late, overlap>>
  BY DEF RunPending, RunReplace, RunShow, RunRemove, RunPop, RunBack, Finish,
         RunSave, history
<1>5. SUFFICES ASSUME Calm
               PROVE  CInv'
  BY <1>4 DEF CInv, Calm
<1>6. /\ OneFlowAtATime /\ DialogsOfStackedFlow /\ FlowsOwned /\ InfosAwaited
      /\ OwnFlowOnly /\ Reported
  BY <1>5 DEF CInv
<1>7. pending[1].op \in {"show", "remove", "pop"} =>
        /\ pending[1].dialog \in Dialog
        /\ pending[1] = [op |-> pending[1].op, dialog |-> pending[1].dialog]
  BY <1>3, OpOperands
<1>8. /\ dialog \in [Dialog -> DialogState]
      /\ infosShown \in [Dialog -> Flow \cup {NoFlow}]
      /\ poppedBy \in [Dialog -> Flow \cup {NoFlow}]
      /\ flow \in [Flow -> FlowRecord]
  BY DEF IInv, TypeOK
\* What is left of the queue promises what the whole queue did.
<1>9. \A i \in DOMAIN pending' :
        /\ pending'[i].op \in {"show", "pop"} =>
             stack \in {<<>>, <<FlowOf(pending'[i].dialog)>>}
        /\ pending'[i].op = "replace" =>
             /\ op # "show" /\ op # "replace"
             /\ stack = <<>> /\ DialogsShown = {}
             /\ flow[pending'[i].flow].state = "queued"
             /\ flow[pending'[i].flow].owner = host
             /\ \A j \in DOMAIN pending' :
                  /\ pending'[j].op = "replace" => i = j
                  /\ pending'[j].op = "pop" => j < i
                  /\ pending'[j].op # "show"
  <2>1. SUFFICES ASSUME NEW i \in DOMAIN pending'
                 PROVE  /\ pending'[i].op \in {"show", "pop"} =>
                             stack \in {<<>>, <<FlowOf(pending'[i].dialog)>>}
                        /\ pending'[i].op = "replace" =>
                             /\ op # "show" /\ op # "replace"
                             /\ stack = <<>> /\ DialogsShown = {}
                             /\ flow[pending'[i].flow].state = "queued"
                             /\ flow[pending'[i].flow].owner = host
                             /\ \A j \in DOMAIN pending' :
                                  /\ pending'[j].op = "replace" => i = j
                                  /\ pending'[j].op = "pop" => j < i
                                  /\ pending'[j].op # "show"
    OBVIOUS
  <2>2. i \in Nat /\ i + 1 \in DOMAIN pending /\ pending'[i] = pending[i + 1] /\ i + 1 # 1
    BY <1>2, <1>3
  <2>3. CASE pending'[i].op = "replace"
    <3>1. /\ stack = <<>> /\ DialogsShown = {}
          /\ flow[pending'[i].flow].state = "queued"
          /\ flow[pending'[i].flow].owner = host
          /\ \A k \in DOMAIN pending :
               /\ pending[k].op = "replace" => i + 1 = k
               /\ pending[k].op = "pop" => k < i + 1
               /\ pending[k].op # "show"
      BY <1>6, <2>2, <2>3 DEF OneFlowAtATime
    <3>2. op # "show" /\ op # "replace"
      BY <1>2, <2>2, <3>1
    <3>3. ASSUME NEW j \in DOMAIN pending'
          PROVE  /\ pending'[j].op = "replace" => i = j
                 /\ pending'[j].op = "pop" => j < i
                 /\ pending'[j].op # "show"
      <4>1. j \in Nat /\ j + 1 \in DOMAIN pending /\ pending'[j] = pending[j + 1]
        BY <1>2, <1>3
      <4>2. /\ pending'[j].op = "replace" => i + 1 = j + 1
            /\ pending'[j].op = "pop" => j + 1 < i + 1
            /\ pending'[j].op # "show"
        BY <3>1, <4>1
      <4> QED
        BY <2>2, <4>1, <4>2
    <3> QED
      BY <2>3, <3>1, <3>2, <3>3
  <2>4. pending'[i].op \in {"show", "pop"} =>
          stack \in {<<>>, <<FlowOf(pending'[i].dialog)>>}
    BY <1>6, <2>2 DEF DialogsOfStackedFlow
  <2> QED
    BY <2>3, <2>4
<1>10. CInv' <=> /\ OneFlowAtATime' /\ DialogsOfStackedFlow' /\ FlowsOwned'
                 /\ InfosAwaited' /\ OwnFlowOnly' /\ Reported'
  BY <1>4, <1>5 DEF CInv, Calm
<1>11. CASE RunReplace
  <2> DEFINE f == Head(pending).flow
  <2>1. op = "replace" /\ f \in Flow
    BY <1>2, <1>3, <1>11, OpOperands DEF RunReplace, Dequeue
  <2>2. /\ stack = <<>> /\ DialogsShown = {}
        /\ flow[f].state = "queued" /\ flow[f].owner = host
        /\ \A j \in DOMAIN pending : /\ pending[j].op = "replace" => 1 = j
                                     /\ pending[j].op = "pop" => j < 1
                                     /\ pending[j].op # "show"
    BY <1>2, <1>6, <2>1 DEF OneFlowAtATime
  <2>3. /\ stack' = <<f>>
        /\ flow' = [flow EXCEPT ![f].state = "open"]
        /\ UNCHANGED <<activity, dialog, infosShown, poppedBy>>
    BY <1>11, <2>2 DEF RunReplace, history
  <2> HIDE DEF f
  <2>4. \A j \in DOMAIN pending' : pending'[j].op \notin {"replace", "pop", "show"}
    <3>1. SUFFICES ASSUME NEW j \in DOMAIN pending'
                   PROVE  pending'[j].op \notin {"replace", "pop", "show"}
      OBVIOUS
    <3>2. j \in Nat /\ j + 1 \in DOMAIN pending /\ j + 1 # 1 /\ ~(j + 1 < 1)
          /\ pending'[j] = pending[j + 1]
      BY <1>2, <1>3
    <3> QED
      BY <2>2, <3>2
  <2>5. /\ \A g \in Flow : /\ flow'[g].told = flow[g].told
                           /\ flow'[g].owner = flow[g].owner
                           /\ flow'[g].state = IF g = f THEN "open" ELSE flow[g].state
        /\ flow[f].told = {} /\ flow[f].owner \in Host
    <3>1. flow[f].told = {} /\ flow[f].owner \in Host
      BY <1>6, <2>1, <2>2 DEF FlowsOwned
    <3> QED
      BY <1>8, <2>1, <2>3, <3>1 DEF FlowRecord
  <2>6. \A g \in Flow : InBackStack(g)' => g = f
    BY <2>3 DEF InBackStack
  <2>7. OneFlowAtATime'
    BY <2>1, <2>3, <2>4 DEF OneFlowAtATime
  <2>8. DialogsOfStackedFlow'
    BY <2>2, <2>3, <2>4 DEF DialogsOfStackedFlow, DialogsShown
  <2>9. FlowsOwned'
    <3>1. (\A g \in Flow : flow[g].state = "queued" => flow[g].told = {})'
      BY <1>6, <2>5 DEF FlowsOwned
    <3>2. (\A g \in Flow : flow[g].state # "idle" => flow[g].owner \in Host)'
      BY <1>6, <2>5 DEF FlowsOwned, Host
    <3>3. (\A g \in Flow : InBackStack(g) /\ flow[g].owner # host =>
                             mMyDialog[flow[g].owner] = NoDialog)'
      BY <1>4, <2>2, <2>5, <2>6
    <3> QED
      BY <1>2, <2>3, <3>1, <3>2, <3>3 DEF FlowsOwned
  <2>10. InfosAwaited'
    BY <1>4, <1>6, <2>3, <2>5, InfosDueStays DEF InfosAwaited, Granted
  <2>11. OwnFlowOnly'
    BY <1>6, <2>3 DEF OwnFlowOnly
  <2>12. Reported'
    BY <1>4, <1>6, <2>3, <2>5 DEF Reported
  <2> QED
    BY <1>10, <2>7, <2>8, <2>9, <2>10, <2>11, <2>12
\* A dialog comes or goes: it was the stacked flow's when that was enqueued.
<1>12. ASSUME NEW d \in Dialog, NEW s \in {"shown", "removed"},
              dialog' = [dialog EXCEPT ![d] = s],
              s = "shown" => op = "show" /\ stack \in {<<>>, <<FlowOf(d)>>},
              infosShown' = infosShown
                \/ infosShown' = [infosShown EXCEPT ![d] = FlowOf(d)],
              crash = "none" /\ s = "shown" /\ Granted(d) /\ InfosDue(d) =>
                infosShown' = [infosShown EXCEPT ![d] = FlowOf(d)],
              UNCHANGED <<activity, stack, flow, poppedBy>>
       PROVE  CInv'
  <2>1. \A e \in Dialog : dialog'[e] = IF e = d THEN s ELSE dialog[e]
    BY <1>8, <1>12
  <2>2. \A e \in DialogsShown' : e \in DialogsShown \/ (e = d /\ s = "shown")
    BY <2>1 DEF DialogsShown
  <2>3. OneFlowAtATime'
    BY <1>4, <1>6, <1>9, <1>12, <2>2 DEF OneFlowAtATime
  <2>4. DialogsOfStackedFlow'
    BY <1>3, <1>6, <1>9, <1>12, <2>2 DEF DialogsOfStackedFlow
  <2>5. FlowsOwned'
    BY <1>4, <1>6, <1>12 DEF FlowsOwned, InBackStack
  <2>6. InfosAwaited'
    <3>1. \A e \in Dialog : \/ infosShown'[e] = infosShown[e]
                            \/ infosShown'[e] = FlowOf(e)
      BY <1>8, <1>12
    <3>2. crash = "none" /\ s = "shown" /\ Granted(d) /\ InfosDue(d) =>
            infosShown'[d] = FlowOf(d)
      BY <1>8, <1>12
    <3>3. \A e \in Dialog : InfosDue(e)' => InfosDue(e)
      BY <1>12, <2>1, InfosDueStays
    <3> QED
      BY <1>4, <1>6, <1>12, <2>1, <3>1, <3>2, <3>3 DEF InfosAwaited, Granted
  <2>7. OwnFlowOnly'
    BY <1>6, <1>8, <1>12 DEF OwnFlowOnly
  <2>8. Reported'
    BY <1>4, <1>6, <1>12, <2>1 DEF Reported
  <2> QED
    BY <1>10, <2>3, <2>4, <2>5, <2>6, <2>7, <2>8
<1>13. CASE RunShow
  <2> DEFINE d == pending[1].dialog
  <2>1. op = "show" /\ d \in Dialog /\ pending[1] = [op |-> "show", dialog |-> d]
    BY <1>2, <1>7, <1>13 DEF RunShow, Dequeue
  <2>2. stack \in {<<>>, <<FlowOf(d)>>}
    BY <1>2, <1>6, <2>1 DEF DialogsOfStackedFlow
  <2>3. dialog[d] = "queued" /\ activity # "gone"
    BY <1>2, <2>1 DEF IInv, ShowsMatchDialogs
  <2>4. /\ dialog' = [dialog EXCEPT ![d] = "shown"]
        /\ infosShown' = IF Granted(d) /\ d[2] = "infos"
                           THEN [infosShown EXCEPT ![d] = FlowOf(d)] ELSE infosShown
        /\ UNCHANGED <<activity, stack, flow, poppedBy>>
    BY <1>2, <1>13 DEF RunShow, history
  <2>5. crash = "none" /\ Granted(d) /\ InfosDue(d) => d[2] = "infos"
    BY <1>6, <2>1, <2>3 DEF InfosAwaited
  <2> HIDE DEF d
  <2> QED
    BY <1>12, <2>1, <2>2, <2>4, <2>5
<1>14. CASE RunRemove
  <2> DEFINE d == pending[1].dialog
  <2>1. op = "remove" /\ d \in Dialog
    BY <1>2, <1>7, <1>14 DEF RunRemove, Dequeue
  <2>2. /\ dialog' = [dialog EXCEPT ![d] = "removed"]
        /\ UNCHANGED <<activity, stack, flow, infosShown, poppedBy>>
    BY <1>2, <1>14 DEF RunRemove, history
  <2> HIDE DEF d
  <2> QED
    BY <1>12, <2>1, <2>2
\* The back stack is left empty.
<1>15. ASSUME stack' = <<>>, op # "replace", UNCHANGED <<flow, infosShown>>,
              \A d \in Dialog : \/ dialog'[d] = dialog[d]
                                \/ dialog'[d] = "removed",
              OwnFlowOnly'
       PROVE  CInv'
  <2>1. DialogsShown' \subseteq DialogsShown
    BY <1>15 DEF DialogsShown
  <2>2. OneFlowAtATime'
    <3>1. \A i \in DOMAIN pending' : pending'[i].op = "replace" => DialogsShown' = {}
      BY <1>9, <2>1
    <3> QED
      BY <1>4, <1>9, <1>15, <3>1 DEF OneFlowAtATime
  <2>3. DialogsOfStackedFlow'
    BY <1>3, <1>15 DEF DialogsOfStackedFlow
  <2>4. FlowsOwned'
    BY <1>4, <1>6, <1>15 DEF FlowsOwned, InBackStack
  <2>5. InfosAwaited'
    <3>1. \A d \in Dialog : InfosDue(d)' => InfosDue(d)
      BY <1>15, InfosDueStays
    <3> QED
      BY <1>4, <1>6, <1>15, <3>1 DEF InfosAwaited, Granted
  <2>6. Reported'
    <3>1. \A d \in Dialog : dialog[d] # "none" => dialog'[d] # "none"
      BY <1>15
    <3> QED
      BY <1>4, <1>6, <1>15, <3>1 DEF Reported
  <2> QED
    BY <1>10, <1>15, <2>2, <2>3, <2>4, <2>5, <2>6
<1>16. CASE RunPop
  <2> DEFINE d == pending[1].dialog
  <2>1. op = "pop" /\ d \in Dialog
    BY <1>2, <1>7, <1>16 DEF RunPop, Dequeue
  <2>2. stack \in {<<>>, <<FlowOf(d)>>}
    BY <1>2, <1>6, <2>1 DEF DialogsOfStackedFlow
  <2>3. UNCHANGED <<activity, flow, dialog, infosShown>>
    BY <1>16 DEF RunPop
  <2>4. CASE stack = <<>>
    <3>1. stack' = <<>> /\ poppedBy' = poppedBy
      BY <1>16, <2>4 DEF RunPop
    <3>2. OwnFlowOnly'
      BY <1>6, <2>3, <3>1 DEF OwnFlowOnly
    <3> QED
      BY <1>15, <2>1, <2>3, <3>1, <3>2
  <2>5. CASE stack # <<>>
    <3>1. stack = <<FlowOf(d)>>
      BY <2>2, <2>5
    <3>2. Len(stack) = 1 /\ stack[1] = FlowOf(d)
      BY <3>1
    <3>3. stack' = SubSeq(stack, 1, 0) /\ poppedBy' = [poppedBy EXCEPT ![d] = FlowOf(d)]
      BY <1>2, <1>16, <2>5, <3>2 DEF RunPop, PopStack
    <3>4. stack' = <<>>
      BY <3>1, <3>3
    <3> HIDE DEF d
    <3>5. OwnFlowOnly'
      BY <1>6, <1>8, <2>1, <2>3, <3>3 DEF OwnFlowOnly
    <3> QED
      BY <1>15, <2>1, <2>3, <3>4, <3>5
  <2> QED
    BY <2>4, <2>5
<1>17. CASE RunBack
  <2>1. op = "back" /\ stack # <<>> /\ PopStack
        /\ UNCHANGED <<flow, dialog, infosShown, poppedBy>>
    BY <1>2, <1>17 DEF RunBack, Dequeue, history
  <2>2. PICK f \in Flow : stack = <<f>>
    BY <1>6, <2>1 DEF OneFlowAtATime
  <2>3. Len(stack) = 1
    BY <2>2
  <2>4. stack' = SubSeq(stack, 1, 0)
    BY <2>1, <2>3 DEF PopStack
  <2>5. stack' = <<>>
    BY <2>2, <2>4
  <2> QED
    BY <1>6, <1>15, <2>1, <2>5 DEF OwnFlowOnly
<1>18. CASE Finish
  <2>1. op = "back" /\ stack' = <<>> /\ UNCHANGED <<flow, infosShown, poppedBy>>
    BY <1>2, <1>18 DEF Finish, Dequeue, history
  <2>2. \A d \in Dialog : dialog'[d] = dialog[d] \/ dialog'[d] = "removed"
    BY <1>18 DEF Finish
  <2> QED
    BY <1>6, <1>15, <2>1, <2>2 DEF OwnFlowOnly
<1>19. CASE RunSave
  <2>1. /\ activity' = "stopped" /\ op = "save"
        /\ UNCHANGED <<stack, flow, dialog, infosShown, poppedBy>>
    BY <1>2, <1>19 DEF RunSave, Dequeue, history
  <2>2. OneFlowAtATime'
    BY <1>4, <1>6, <1>9, <2>1 DEF OneFlowAtATime, DialogsShown
  <2>3. DialogsOfStackedFlow'
    BY <1>3, <1>6, <1>9, <2>1 DEF DialogsOfStackedFlow, DialogsShown
  <2> QED
    BY <1>4, <1>6, <1>10, <2>1, <2>2, <2>3
       DEF FlowsOwned, InfosAwaited, InfosDue, OwnFlowOnly, Reported, InBackStack,
           Granted
<1> QED
  BY <1>11, <1>13, <1>14, <1>16, <1>17, <1>18, <1>19 DEF RunPending

\* Every step keeps it.
LEMMA CalmNext == IInv /\ CInv /\ [Next]_vars => CInv'
<1> SUFFICES ASSUME IInv, CInv, [Next]_vars PROVE CInv'
  OBVIOUS
<1>1. CASE Restart
  <2>1. pending = <<>> /\ activity = "stopped" /\ activity' = "resumed"
        /\ UNCHANGED <<host, stack, pending, draining, flow, mMyDialog, dialog, mCode,
                       infosShown, crash, poppedBy, late, overlap>>
    BY <1>1 DEF Restart, history, IInv, LastOpIsLast
  <2> QED
    BY <2>1 DEF CInv, Calm, OneFlowAtATime, DialogsOfStackedFlow, FlowsOwned, InfosAwaited,
                InfosDue, OwnFlowOnly, Reported, InBackStack, Granted, DialogsShown
<1>2. CASE RecreateWithDialog
  <2>1. crash' # "none"
        /\ UNCHANGED <<host, stack, pending, draining, flow, mMyDialog, dialog, mCode,
                       infosShown, poppedBy, late, overlap>>
    BY <1>2 DEF RecreateWithDialog, history
  <2> QED
    BY <2>1 DEF CInv, Calm, OneFlowAtATime, DialogsOfStackedFlow, FlowsOwned, InfosAwaited,
                OwnFlowOnly, Reported, DialogsShown
<1>3. CASE ExecPending
  <2>1. draining'
        /\ UNCHANGED <<host, activity, stack, pending, flow, mMyDialog, dialog, mCode,
                       infosShown, crash, poppedBy, late, overlap>>
    BY <1>3 DEF ExecPending, history
  <2> QED
    BY <2>1 DEF CInv, Calm, OneFlowAtATime, DialogsOfStackedFlow, FlowsOwned, InfosAwaited,
                InfosDue, OwnFlowOnly, Reported, InBackStack, Granted, DialogsShown
<1>4. CASE UNCHANGED vars
  BY <1>4 DEF vars, CInv, Calm, OneFlowAtATime, DialogsOfStackedFlow, FlowsOwned,
              InfosAwaited, InfosDue, OwnFlowOnly, Reported, InBackStack, Granted,
              DialogsShown
<1>5. ASSUME NEW f \in Flow, OnLogin(f) \/ OnStartTransaction(f) PROVE CInv'
  BY <1>5, StartCalm DEF OnLogin, OnStartTransaction
<1>6. ASSUME NEW f \in Flow, NEW code \in Code, NEW part \in {"code", "infos"},
             Callback(f, code, part), part \notin flow[f].told
      PROVE  CInv'
  BY <1>6, CallbackCalm
<1>7. CASE Next
  BY <1>1, <1>2, <1>3, <1>5, <1>6, <1>7, LaunchCalm, RecreateCalm, LeavingCalm,
     DismissCalm, RunCalm, NextCases
<1> QED
  BY <1>4, <1>7

\* Every reachable state has both invariants.
LEMMA CalmAlways == Spec => [](IInv /\ CInv)
<1>1. Init => IInv /\ CInv
  BY InvInit, CalmInit
<1>2. (IInv /\ CInv) /\ [Next]_vars => (IInv /\ CInv)'
  BY InvNext, CalmNext
<1> QED
  BY <1>1, <1>2, PTL DEF Spec

(***************************************************************************)
(* Dismissing a dialog removes the fragment of its own flow or nothing,    *)
(* for any number of flows and instances, as long as the SDK answers while *)
(* its fragment is there and flows are started one at a time.              *)
(***************************************************************************)
THEOREM DismissPopsOwnFlow == Spec => []PopsOwnFlow
<1>1. IInv /\ CInv => PopsOwnFlow
  BY DEF CInv, Calm, OwnFlowOnly, PopsOwnFlow
<1> QED
  BY <1>1, CalmAlways, PTL

(***************************************************************************)
(* Under the same conditions, no dialog shows the elevator and floor of    *)
(* another flow than the one whose access it reports.                      *)
(***************************************************************************)
THEOREM DialogShowsOwnInfos == Spec => []InfosOfOwnFlow
<1>1. IInv /\ CInv => InfosOfOwnFlow
  BY DEF CInv, Calm, OwnFlowOnly, InfosOfOwnFlow
<1> QED
  BY <1>1, CalmAlways, PTL

(***************************************************************************)
(* Under the same conditions, a dialog on the screen that reports an       *)
(* access shows the DDInfos its flow was sent, in whatever order the two   *)
(* callbacks and the dialog's view come, but for DDInfos that came first   *)
(* and were dismissed with a dialog of their own.                          *)
(***************************************************************************)
THEOREM InfosNeverLost == Spec => []InfosReachDialog
<1>1. IInv /\ CInv => InfosReachDialog
  BY DEF CInv, Calm, InfosAwaited, InfosReachDialog
<1> QED
  BY <1>1, CalmAlways, PTL

(***************************************************************************)
(* Under the same conditions, every flow the SDK answered for gets a       *)
(* dialog: showDialog never finds one that an earlier flow left behind.    *)
(***************************************************************************)
THEOREM AnswersAreReported == Spec => []EveryFlowReported
<1>1. IInv /\ CInv => EveryFlowReported
  BY DEF CInv, Calm, Reported, EveryFlowReported
<1> QED
  BY <1>1, CalmAlways, PTL
====
