# Waltz SDK example apps: a TLA+ verification project

The repository holds two small apps that show how to use the Waltz access SDK:
one for Android (`src/Android`, five Java files) and one for iOS
(`src/iOS/ThirdParty`, three Swift files). The SDK itself comes as a binary. What
is left in the repository is the part that is hard to test: screens and dialogs
that react to answers which the SDK gives later, in any order, and whatever the
user and the operating system have done in between. The iOS app also carries the
source of its pods. Two of them have a protocol or an algorithm of their own that
a test hardly reaches, and run in the app: nanopb, the codec, and Google's data
transport, which uploads Firebase's events and encodes them with nanopb. These
modules model the two apps and the two pods.

## 1. Inventory

Paths are relative to `src/`; `waltzsdk/` stands for
`Android/app/src/main/java/com/waltzapp/android/waltzsdk/`.

| Component | State it keeps | Operations | Interacts with |
|---|---|---|---|
| `waltzsdk/MainActivity.java` | the field `mMyDialog`; through its FragmentManager the back stack and the queue of fragment transactions | `onCreate`, `onLogin`, `onStartTransaction`, `startFragment`, `showDialog`, `onDismiss` | called by MainFragment's buttons and the SDK's login and transaction callbacks; shows MyDialog |
| `waltzsdk/MyDialog.java` | `mCode`, `mData`, `mListener`, its views | `with`, `setListener`, `setDDInfos`, `onViewCreated`, `onStart`, `refreshDDInfos`, the dismiss button | owned by MainActivity, restored by Android without its fields |
| `waltzsdk/MainFragment.java` | `mListener`, two text views | ten buttons, the callbacks of the SDK's invitation and geofence services | MainActivity through `Listener`; the SDK through callbacks that capture the fragment |
| `waltzsdk/MyApplication.java` | none | `onCreate` initialises the SDK and asks Firebase for the token | hands the token to the SDK |
| `waltzsdk/firebase/MyMessagingService.java` | none | `onNewToken`, `onMessageReceived` | hands new tokens to the SDK, on a thread of its own |
| `iOS/ThirdParty/ViewController.swift` | `responseTV`, and the tab bar's selected tab | buttons, the callbacks of `WltzSDKMgrDelegate` | is the SDK's one delegate |
| `iOS/ThirdParty/AppDelegate.swift` | none | launch, remote notifications, registration token | hands the token to the SDK |
| `iOS/ThirdParty/NewCustomVC.swift` | none | the view a transaction is drawn in | outlet only |
| `iOS/Pods/nanopb` (`pb_encode.c`, `pb_decode.c`, `pb_common.c`) | streams (`bytes_written`, `bytes_left`, `state`), the iterator over a message's fields, the caller's struct and what its pointers own | `pb_encode` and its sizing pass, `pb_decode`, `pb_decode_noinit`, `pb_decode_delimited`, `pb_release`, the varint loops | called by `GDTCCTNanopbHelpers.m`; asks the caller's callbacks |
| `iOS/Pods/GoogleDataTransport*` (`GDTCORStorage.m`, `GDTCORUploadCoordinator.m`, `GDTCCTPrioritizer.m`, `GDTCCTUploader.m`) | stored events; packages in flight per target; the prioritizer's set per target; the uploader's current package and task | store, prioritize, upload on the timer or when forced, package, deliver, remove | each has a serial dispatch queue; blocks from one to the other; the URL session answers on a queue of its own |
| Waltz SDKs, Firebase, Google utilities, Alamofire, Protobuf and the other pods | | | vendored or binary, see section 7 |

The repository has no tests. Its docs are the two READMEs, which the code follows.

### What is hard here

* **Asynchronous fragment transactions** (Android). `commit()`, `show()`,
  `dismiss()` and `popBackStack()` only enqueue; the field `mMyDialog`, the
  dialog and the back stack therefore change in different messages of the main
  looper, and taps and callbacks run in between.
* **Late answers.** A callback belongs to the activity or fragment instance that
  made it, and may run after the flow was left, after the view was destroyed, or
  after the instance itself was replaced by a rotation.
* **Saved state.** Android stops, destroys, restores and kills; fragments come
  back through their default constructors.
* **Two sources of one value.** The push token reaches the SDK from the main
  thread and from the messaging service's thread, and nothing orders the two.
* **Four serial queues** (data transport). The coordinator looks at the packages
  in flight, asks the uploader, asks the prioritizer and queues the upload; events
  and deliveries come in between, and a delivery is taken apart on two queues.
* **Two passes** (nanopb's encoder): a submessage is measured and then encoded,
  and the second pass need not be like the first.
* **Any input, any failure** (nanopb's decoder): fields come in any order and more
  than once, reads and allocations fail anywhere, and what had been allocated by
  then must be freed once, by the decoder or by its caller.
* **Widths**: signed fields of four widths through casts, zigzag and sign extension.
* **Shared outputs** (both apps): one dialog, one text view and one delegate
  for answers to several requests.

What makes each component correct:

* MainActivity and MyDialog: one dialog at a time; the result, the DDInfos and
  the pop belong to the flow that was answered; no answered flow goes
  unreported; a dismissed dialog brings the user back; one MainFragment.
* MainFragment: what comes while it is visible is shown; a covered fragment can
  still take its answers.
* Token: the SDK ends up with the token that messages are delivered to.
* ViewController: a running transaction stays in front; the text shown answers
  the last request; nothing the user asked for goes unanswered.
* nanopb: what an encoder makes, the decoder reads back; all loops over a varint
  stop at the same byte; the encoder stays in its buffer and its lengths are true;
  a decoded message is complete, an undecoded one holds no memory.
* Data transport: an event that is stored is sent, once, and removed only then.

## 2. Modules

| Module | What it is |
|---|---|
| `MainActivity.tla` | the Android screen flow: MainActivity, MyDialog, the FragmentManager's queue |
| `MainActivityProofs.tla` | its theorems |
| `FragmentLife.tla` | abstract: the life of MainFragment's instances, their activity and their view |
| `MainFragment.tla` | MainFragment's requests, composed with FragmentLife |
| `FcmToken.tla` | MyApplication and MyMessagingService against Firebase and Android |
| `ViewController.tla` | the iOS app: AppDelegate's launch, tabs, buttons and the SDK's delegate callbacks |
| `AndroidProofs.tla` | the theorems of MainFragment and of FcmToken |
| `ViewControllerProofs.tla` | its theorems |
| `PbVarint.tla` | nanopb's integers: encodings, and the four loops that read a varint |
| `PbEncode.tla` | nanopb's encoder, as a stack of nested `pb_encode` calls |
| `PbMemory.tla` | what a decoded struct owns: pointers, counts, release, clearing |
| `PbDecode.tla` | nanopb's decoder over PbMemory, as a stack of nested calls |
| `Outbox.tla` | abstract: events are kept, sent once and removed when sent |
| `DataTransport.tla` | storage, coordinator, prioritizer and uploader with their queues; implements Outbox |
| `PbMemoryProofs.tla` | lemmas about places in a struct and about what each operation on it leaves |
| `PbDecodeProofs.tla` | the decoder's theorems, over PbMemoryProofs |
| `PbVarintProofs.tla`, `PbEncodeProofs.tla`, `DataTransportProofs.tla` | the theorems of the other three |
| `MC*.tla` | the constants of TLC's instances and symmetry sets |

`FragmentLife` joins the two halves of the Android app. MainFragment extends it
and synchronises its own actions with FragmentLife's (`Appear` with `Added` or
`Uncovered`, `Disappear` with `Covered` or `Detached`, and so on). MainActivity
instantiates it under the refinement mapping `Life` (an instance is attached
while its activity lives, and has a view while the back stack is empty), and its
property `MainFragmentLife` says that the screen flow implements it. So what the
MainFragment module assumes of its surroundings is what MainActivity does.

### MainActivity

State and code: `mMyDialog` is the field of that name, one per activity instance
because a callback made by an old instance still writes the old instance's
field; `mCode` and `infosShown` are MyDialog's field and what its `mDDInfos` view
shows; `stack` and `pending` are the FragmentManager's back stack and its queue;
`draining` says that `execPendingActions` runs, during which nothing else does;
`flow` records each login or transaction fragment. `poppedBy`, `late` and
`overlap` are history variables that the properties read.

A dialog is named after the callback that made it (`Flow \X {"code", "infos"}`),
since each callback of a flow may build one. Actions: `OnLogin`,
`OnStartTransaction`, `LoginComplete`, `TransactionDone`,
`TransactionDoneWithInfos` and `OnDismiss` are the handlers; `Launch`, `Stop`,
`Restart`, `Recreate`, `RecreateWithDialog` and `Back` the lifecycle and the back
key; `ExecPending` starts the queue, and `RunReplace`, `RunShow`, `RunRemove`,
`RunPop`, `RunBack`, `Finish` and `RunSave` execute one operation each. `Stop`
and `Back` drain the queue before they act, as the support library does. The
three exceptions that this code can run into are modelled as what they are, the
end of the process: `stateLoss` (`show()` after the state was saved or the
activity destroyed), `noCode` (a restored dialog has no `mCode`) and `noView`
(`refreshDDInfos` before `onViewCreated`). The next `Launch` starts a new process.

The SDK is external. It is assumed to call a login's callback once, and a
transaction's callback with the code, with the code and DDInfos, or both in
either order, at any time after its fragment was started: the source shows no
more. `late` records a callback that came after its fragment had left the back
stack, `overlap` a second tap while the first flow was still queued; the
properties that hold only without them name them.

### MainFragment

`kind`, `owner` and `open` describe each request; `owner` is the fragment
instance whose `getContext()` the callback's Toast uses. `wzCallback` is the SDK's one
`WaltzCallback`, replaced by both geofence buttons. `found` says whether
`mInvitationsResult` is a text view of the current view. A callback without a
context ends the process (`crash`, `ProcessEnds`).

### FcmToken

Tokens are numbered in the order in which Firebase issues them. `token` is the
current one, `sdkToken` what the SDK was last given. `task` and `result` are the
`Task` of `getInstanceId()`, whose listener runs on the main thread; `newTokens` are
the calls of `onNewToken` that are due on the service's thread.

### ViewController

`phase` and `delegate` are the launch, `tab` the selected tab, `login`,
`transaction` and `update` the SDK's unfinished work, `kind`, `open` and `last` the requests,
`responseTV` the request whose answer is shown. The SDK's answers run on the
main queue, and go nowhere as long as there is no delegate.

### PbVarint

A machine word is the set of positions of its 1 bits, so that any width can be
checked and proved about: `|` is union, a shift moves the positions, a cast keeps
those below the width. `r32`, `r64`, `skip` and `raw` are the loops of
`pb_decode_varint32_eof`, `pb_decode_varint`, `pb_skip_varint` and `read_raw_value`, which
all take the same byte in a step (`ReadByte`, `EndOfStream`). `bitpos` wraps as the `uint_fast8_t`
it is. `exact` is an observer: the number the bytes spell without any width. The encoders
and the conversions around the loops (`EncVarint`, `DecSvarint`, `DecodeTag`, ...) are operators.

### PbEncode

`frames` is the stack of nested `pb_encode` calls, each with its `pb_ostream_t`: a sizing
stream or a part of the caller's buffer. `Fresh` is the caller, who measures or
encodes; `Walk` is the encoder, one action per field, item, tag, length or body.
`Measure` opens the sizing pass of `pb_encode_submessage`, `Measured` puts the length
and opens the substream, `Encoded` hands its state back to the parent.
`EncodeMeasured` is `GDTCCTEncodeBatchedLogRequest`, which encodes into a buffer of the size
the first pass counted even when that pass failed. A message type carries its
values, as the encoder cannot change them; a callback writes any of a set of lengths
each time or fails. `whole` and `wild` are observers.

### PbMemory and PbDecode

PbMemory names every place in a struct by its path. `ptr` has the pointers that are set,
`has` the `has_` and `which_` members, `count` and `room` the arrays. `Visits` says where
`pb_release_single_field` gets to, `Cleared` what `memset` and
`pb_message_set_to_defaults` forget. PbDecode is the stack of `pb_decode_noinit` calls and
substreams over it: `KnownField`, `UnknownField`, `OpenSubmessage`, `PackedItem`, the
callbacks, and `Return`, which closes the substream. What the next bytes are is
chosen in each step. `Caller` decodes (plainly, delimited, or merging into what he
holds) and releases; a failed `pb_decode` releases by itself. A union's members are of
one kind of allocation, and a fixed-count array holds scalars (`MessageAssumption`).
The build is the pod's: `PB_FIELD_32BIT`, `PB_NO_PACKED_STRUCTS`, `PB_ENABLE_MALLOC`
(`iOS/Pods/Target Support Files/nanopb/nanopb.xcconfig`, line 2).

### DataTransport

`storageQ`, `coordQ`, `prioQ` and `uploadQ` are the dispatch queues, sequences of blocks.
The coordinator's `dispatch_sync` calls make its one block several steps:
`coord.stage` says which queue it waits for (`NextTarget` asks the uploader, `Ready`
answers, `Fill` is the prioritizer's answer together with what the coordinator does with it).
`stored`, `prio`, `inflight`, `current` are the fields `storedEvents`, `CCTEvents` and its like,
`targetToInFlightPackages` and `currentUploadPackage`. A package whose `events` is the
prioritizer's own set, because the upload was forced or the target is CSH, is
`live`: it has what the set has when it is looked at. `Answer` and `TaskOver` are the two
halves of the completion handler, which runs on the URL session's queue.
Its property `ImplementsOutbox` says that storing, requesting and removing are an
Outbox.

## 3. Runs and what they show

| Run | States | Checks |
|---|---|---|
| `screen_flow` | 1,215,427 | safety, refinement and liveness of the screen flow |
| `fcm_token` | 599 | safety, an action property and liveness of the token |
| `main_fragment` | 214,681 | safety of MainFragment's answers |
| `view_controller` | 133,537 | safety of the iOS app |
| `pb_varint` | 40,274 | exactness and agreement of nanopb's varint code |
| `pb_encode` | 21,411 | bounds, lengths and termination of the encoder |
| `pb_decode` | 137,651 | completeness, ownership and termination of the decoder |
| `pb_decode_union` | | a violation: a union's second submessage |
| `data_transport` | 2,857,600 | safety and refinement of the transport |
| `data_transport_live` | 645,541 | liveness of the transport with a fast event |
| `data_transport_unsent` | | a violation: an event removed unsent |
| `data_transport_retry` | | a violation: a retry that is none |

**screen_flow** (two flows, two activity instances).
`FieldTracksDialog`: the field is non-null exactly while one dialog is queued or
on the screen. `PopsOwnFlow`, `InfosOfOwnFlow`, `InfosReachDialog` and
`EveryFlowReported` hold as long as the SDK answers while its fragment is there
and two flows are not started at once. Both conditions are needed: without either
of them TLC finds the dismissal of one flow's dialog popping the other flow. That
is what the code does; the app relies on the SDK and on a single tap for it.
`InfosReachDialog` also excludes the runs in which `refreshDDInfos` met a dialog
without a view, and says which DDInfos a dialog has to show (`InfosDue`). When they
come first, make a dialog of their own and the user dismisses it before the callback with the
code runs, the dialog of the code has none: showDialog keeps them nowhere else.
`MainFragmentLife` is the refinement. Two flows are enough for
every way in which a dialog can meet another flow's fragment, two activity
instances for a callback of a replaced one. `ResultShown`: a dialog that was given to `show()`
gets to the screen. `DismissReturns`: a dismissed dialog's flow leaves the back stack, again unless an
answer was late or flows overlapped. *Fairness:* weak fairness of `ExecPending` and `RunPending` only, which is the
main looper reaching a posted message and `execPendingActions` running to its
end. Neither the user nor the SDK is assumed to act.

**fcm_token** (three tokens, three starts). `SdkHasToken`: with no call of `onNewToken` due,
the SDK's token is the current one unless the main thread's older answer came last
(`overtaken`) or a process ended before `onNewToken` (`missed`). `StartMends`: the
answer of a later start repairs a missed token. `TokenArrives`: so does time, in a
process that goes on. *Fairness:* the two threads run what is due on them
(`OnComplete`, `OnNewToken`); Firebase is not assumed to answer. Three tokens and
three starts let a token be overtaken, missed and mended in one run.

**main_fragment** (three symmetric requests, three instances). `VisibleListsDisplayed`:
a list that comes while the fragment is visible is shown, however often it was covered
in between; a list that comes while it is covered is written into a destroyed view
and lost, which the model's history variable `hidden` records.
`FirstActivityNeverCrashes`: as long as the first activity lives no answer crashes the app.
After it finished, or was created again, a late answer of its fragment does. `GeofenceTapSuffices`: after
that, a tap on either geofence button makes the geofence's results safe again. Older requests for
invitations remain dangerous.

**view_controller** (three symmetric requests). `TransactionStaysVisible`: no callback
selects a tab over a transaction that was started with no login unfinished; with one unfinished,
`didFinishWaltzLogin` does. `ResponseIsCurrent`: the text shown answers the last button,
except for an answer that came late and for `getUserInfo`, which does not clear the text.
`OnlyUpdatesDropped`: only the answer to a token of the launch can find no delegate.

**pb_varint** (bytes with 2 payload bits, words of 3 and 9 bits, up to 12 bytes, every byte). As
in the code the words are no multiple of the group and the last group of the long one
has one bit that fits, so every cut happens; small widths let every sequence be sent.
`DecodeExact`: `pb_decode_varint` delivers what the bytes spell, modulo the word.
`ReadersAgree`: what it accepts is skipped and copied to the same byte.
`EncodedReadBack`: every encoding is read back by the 64-bit loop, and by the 32-bit loop when it is
a `uint32_t` or a sign-extended `int32_t`. `FieldRoundTrip`: fields of every width and encoding come
back, and tags with their number and wire type. What the 32-bit loop makes of other bytes is not promised, and it does accept some that
spell no 32-bit number: excess bits of the group at bitpos 28 are looked for only when
that group is the last.

**pb_encode** (groups of 2 bits, so that lengths of 4 and 16 take another byte; buffers of 22 sizes from
0 to 48; up to 4 nested calls). The messages have the shape of
`gdt_cct_BatchedLogRequest` and, in three others, every remaining branch of `encode_array`. `InBuffer`: no byte
behind the buffer. `CountsWhatItPut`: `bytes_written` is what lies there, after a
failure too. `LengthsTrue`: a length prefix is the number of bytes behind it,
whatever a callback wrote the second time. `MeasuredSizeFits`: a buffer of the measured
size is filled to the last byte, or the second pass fails as the first did, unless a callback failed or had
a choice of what to write. `EncoderReturns`.

**pb_decode** (6 messages with the kinds of field between them, 5 or 6 bytes, `VarLens`, `FixedLens`
and `Lengths` the sizes of what is read, two required fields with a bit, 4 nested calls).
Six bytes hold a submessage in a submessage, or three items and an unknown field;
`Lengths` has one that is longer than what is left. `StreamsInStep`: a substream
ends where its parent goes on. `RequiredThere`: a decoded message has its required fields at every level.
`FixedArraysWhole`: it has each fixed-count array whole or not at all. `ItemsInRoom`: no item outside its array.
`NothingLost`: no block is forgotten. `ReleasedWhole`: a struct whose decode failed, or that was released,
owns nothing. `MergeKeepsOthers`: a merge, also one that fails, frees only in the field it is reading, or in the union of that field. `DecoderReturns`, as long as
a callback reads something or fails.

**pb_decode_union** is `NothingLost` for a message whose union has a static
submessage with pointers in it, which pb_decode leaves out for this reason. When
it comes twice the decoder keeps the first one ("Ok, old data is of same type => merge",
`pb_decode.c:1113`) and then clears it (line 467): what it owned is lost.

**data_transport** (events e1 and e2 of CCT, e3 of FLL, in the tiers default, wifi and telemetry; all
networks). `AtMostOnce`: no event is part of two requests. `NotForgotten`: an
event in the storage that was not sent is in the prioritizer's set, or a queued block puts it there; one
that has left the set was sent, and its removal is on the way.
`ImplementsOutbox`: an event leaves the storage only after it was sent. Two events of one target
meet in a package or follow each other, a third of another target competes for the uploader. None is
fast: with a fast event none of the three need hold, as the next run shows for the last.

**data_transport_unsent** is `ImplementsOutbox` with a fast event beside an ordinary one of the same target. The forced
package is the prioritizer's own set. The ordinary event joins it after the request
was made, counts as delivered and is removed without having been sent.

**data_transport_retry**: `packageDelivered:successful:` does not read `successful`, so that
an event that `retryDeliveryInTheFuture` sent back is removed (`RetriedAreKept`).

**data_transport_live** (a fast event of CCT and an ordinary one of FLL; wifi comes and goes).
`EventuallySent`: both are sent. With both of one target the ordinary one need not be (`data_transport_unsent`). `UploaderFree`: a package that `readyToUploadTarget` allowed finds the
uploader free, although the question and the upload are two blocks and deliveries and
forced uploads come between them; it is what `EventuallySent` rests on, since the
uploader drops such a package without a word. *Fairness:* each of the four queues is served,
the timer fires again and again, a request ends (the URL session has a time-out), its
handler ends, and, strongly, the timer meets wifi again and again. Not assumed: that events are
sent at all, or how a request ends.

*Fairness of the codec:* `pb_encode` and `pb_decode` are plain calls, which run on once entered
(`WF_vars(Walk)`); the caller need not call.

Deadlock is checked in the runs of the encoder, the decoder and the transport. It is not in the
others: every request, flow and instance is used up at some point, a user who does
nothing is no error, and a varint's bytes come to their end.

Bounds of the apps' runs: `Flow`, `MaxHost`, `Request`, `MaxInstance`, `MaxToken` and `MaxStart`.
Each bounds how often something new is created; none of them cuts
short what happens to it. Queues are not bounded: the one-shot flows, callbacks
and dialogs bound them. Bounds of the pods' runs: `MaxBytes` (a varint and more), `MaxDepth` (the
messages nest no deeper; a `Push` beyond it is not taken), the sets of sizes above, and
`Backlog`, which lets the timer fire only while the storage has no block waiting. The
transport's timer has an interval of many seconds, its blocks take none.

Every property is also run against a mutant of the code (named `<operator>_<what is wrong>`,
next to the operator it replaces), which must break it.

## 4. What is proved

What a theorem needs beyond the model is an assumption on constants, named in the module
that declares them, or a hypothesis written out in the theorem. The invariants are in
the `*Proofs` modules, each with a comment on what it says of the code. The type invariant
of PbDecode, which says that `bytes_left` never wraps, is checked by TLC as well, the others only proved.

`MainActivityProofs.tla`, for any set of flows and any number of activity instances,
from `ConstantAssumption` alone (`NoFlow` and `NoDialog` are not flows or dialogs,
`MaxHost` is a natural number):

* `TypeCorrect`: `Spec => []TypeOK`.
* `FieldTracksDialogAlways`: `Spec => []FieldTracksDialog`.
* `MainFragmentLifeHolds`: `Spec => MainFragmentLife`, the refinement.
* `DismissPopsOwnFlow`, `DialogShowsOwnInfos`, `InfosNeverLost`, `AnswersAreReported`:
  `PopsOwnFlow`, `InfosOfOwnFlow`, `InfosReachDialog` and `EveryFlowReported`.

`FieldTracksDialog` is not inductive: what a queued operation will do to a dialog
matters before it does it. The invariant `IInv` adds

* `ShowsMatchDialogs`: a dialog is in state "queued" exactly while one `show` for
  it waits, and a waiting `remove` concerns a dialog already dismissed, so that
  executing the queue never brings back a dialog or removes a visible one;
* `LastOpIsLast`: the operations of `Stop` and `Back` are last in the queue, so
  that when the activity stops or finishes nothing is left that could still show a dialog;
* `DialogsComeFromCallbacks` and `OwnersExist`: a dialog exists only because its
  callback was made, each callback is made once, and a visible dialog belongs to
  the current instance, so that `onDismiss` clears the right field;
* `FreshFields`: a new activity starts with a null field and no dialog.

The proof that `Next` preserves `IInv` has one lemma per group of actions. The
refinement uses `IInv` too: saving the state leaves the activity attached only because
the queue is drained by an activity that is still there (`LastOpIsLast`).

The last four properties speak of the runs in which neither `late` nor `overlap` happened.
MainActivity keeps no link from a dialog to its flow, so that the fragment which a
dismissal pops is the right one only by the order of what is queued. `CInv`, on top of
`IInv`, says so: one flow at a time, and a pop left by an earlier dialog comes before the
next flow is added (`OneFlowAtATime`); what a queued `show` or pop, or a dialog that is
there, belongs to is alone on the back stack (`DialogsOfStackedFlow`); callbacks go to
the instance that started the flow (`FlowsOwned`); the infos due to a dialog are in it
when `show` is queued and in its view once it has one (`InfosAwaited`).

The other modules of the apps are proved for any values of their constants, with
`TypeCorrect` and every safety property of their runs:

* `AndroidProofs`, of the token: `SdkHasTokenAlways`, `StartMendsAlways`. `SdkHasToken` needs
  that the last call due brings the current token (`LastDueIsCurrent`), and
  that an answer waiting for the main thread is current unless the SDK already
  is (`AnswerOrSdkCurrent`); the second also gives `StartMends`. Assumption: the bounds
  are natural numbers.
* `AndroidProofs`, of MainFragment: `VisibleListsDisplayedAlways`, `FirstActivityNeverCrashesAlways`,
  `GeofenceTapSufficesAlways`. The invariant adds that the text view is found
  exactly while there is a view (`FoundWithView`), that callbacks belong to instances
  created by then (`OwnersExist`) and that a tap in the current instance has the
  last word on the SDK's one callback (`TapIsCurrent`). Assumption: `MaxInstance` is
  a natural number.
* `ViewControllerProofs`: `TransactionStaysVisibleAlways`, `ResponseIsCurrentAlways`,
  `OnlyUpdatesDroppedAlways`. The invariant adds that an undisturbed transaction
  has no unfinished login beside it (`TransactionUndisturbed`) and that nothing is
  asked before the delegate is set (`AskedAfterLoading`).

nanopb's integers and encoder:

* `PbVarintProofs`, for every width of word and group (`WidthAssumption`, which the code's
  7, 32, 64 and 256 satisfy): `TypeCorrect`; `ZigzagRoundTrip` and `SignedFieldRoundTrip`, about the
  operators alone; `DecodesExactly` and `ReadersStopTogether`. The invariant `R64Inv` ties
  `bitpos` to the number of bytes read and the value to the bits of `exact` below it, for as
  long as the loop has not refused; that the other two loops are at the same byte is inductive with it.
  `FieldsRoundTrip` (`FieldRoundTrip`) rests on `SpeltEncoding`: the bytes of `pb_encode_varint` spell the
  number it was given; a tag is such a number. It is defined by the highest bit, not by recursion, so that no induction is
  needed. `EncodingsReadBack` (`EncodedReadBack`) adds to the invariant where each loop stops
  (`LoopsStop`) and why the 32-bit loop refuses (`R32Inv`): a bit that is neither in the word nor sign extension,
  or one byte too many. The proof found that this needs more of the widths than
  that one word is shorter than the other. They must end in different groups
  (`LastPos(Word) + Group < Dword`): with words of 3 and 4 bits in groups of 2, the 32-bit loop takes the last
  byte of a sign extended number for one that is too large. In the code 28 + 7 < 64.
* `PbEncodeProofs`, for any messages, buffers and callbacks: `TypeCorrect`, `SubstreamsFit`
  (`StreamsNested`), `StaysInBuffer` (`InBuffer`) and `CountsExactly` (`CountsWhatItPut`). The invariant
  relates each frame to the one above it: a substream begins where its parent's bytes end and its
  room, as long as it is open, is within what the parent has left, so that by
  induction over the stack it is within the buffer.

  `LengthsAreTrue` (`LengthsTrue`) has the invariant `MeasuresInv`: what a frame has counted of an array, and what
  it has put behind a length, are running totals of the same lengths (`Totals`, `PackedSums`). Between a
  submessage's length and its end the invariant needs nothing: `Encoded` compares the two.

  `MeasuredSizesFit` (`MeasuredSizeFits`) and `EncodesExactly` need to know what the size of a message is.
  `Size` says it without the encoder: the sum of the fields, with the sizes of the submessages. As messages may name one another, it
  is the least relation that is closed under that (`SizePairs`), and `Sizable` are the messages that have one, those
  in which no field is refused and that do not contain themselves; `SizeLaw` is the equation one
  expects. The invariant `TracksInv` follows every frame of the stack: it has written what `Size` gives the fields and items
  behind it, none of which was refused (`Tracks`); a call that returned "ok" is at the end of its message, and one that failed
  has a message without a size or without room for it (`Refused`). A substream gets the size that the sizing
  pass found, hence never fails. `EncodesExactly` is about the step in which the outermost call returns:
  it succeeds exactly if the message has a size that fits into the stream, and `bytes_written` is then that
  size. No run checks it: TLC cannot enumerate the relation.

nanopb's decoder, `PbMemoryProofs` and `PbDecodeProofs`, for any messages that satisfy `MessageAssumption`, any bytes, any
sizes, and any depth of nesting. Five invariants, the last two on the ones before:

* `Calls` is about the stack. Every frame is a call that its parent makes (`Link`): it is for a place
  in the parent's place, of the type the field there has, and its stream ends within the parent's. It gives `TypeCorrect` and `SubstreamsInStep`
  (`StreamsInStep`).
* `Counting`: every array counts no more items than it has room for, with the one exception that
  `decode_pointer_field` makes, an item that is counted and has not been allocated, after which
  the decoder fails. It gives `NoItemOutOfRoom` (`ItemsInRoom`).
* `Owned` is why a release finds everything. A pointer is set only where every step on the way to it
  is one that `pb_release` takes: a union member that `which_` names, a
  pointer that is set, an item that is counted (`Rooted`, `Standing`). The message being
  decoded is such a place, and so is the item about to be read (`Ready`), which holds nothing yet.
  That this survives a step is the bulk of the proof: a release of one field takes exactly what is
  below it, `memset` and the defaults take no `has_` or count from a place above. It gives
  `NothingLeftBehind` (`ReleasedWhole`).
* `Filling` is about fixed-count arrays. One that is neither empty nor full is an array that an open
  call for its message has as `fixed_count_field` (`InArray`); another field of the message, or its end, is met only with
  that one full. It gives `ArraysWhole` (`FixedArraysWhole`).
* `Settling` is about required fields. An object that a release would visit has been read completely, or a call for
  it is open (`InProgress`), and what that call has in `fields_seen` was read, but for the field it is at
  (`SeenRead`). An object can come back into use, when a step sets a pointer, counts an item or sets `which_`, so the
  invariant also says that what was ever read lies where its static ancestors are marked or counted (`Homed`); the
  only steps that bring a place back clear it first, and `Lean` compares the memory
  before and after: no step lets an object stand that did not, with less read. It gives `RequiredRead`
  (`RequiredThere`).

Two more theorems rest on the first three. `MergeSparesTheRest` (`MergeKeepsOthers`): what a step frees is in the field
being read, or in the message of a call that failed and owned it. The first step of every place on the
stack is the field that the call for the caller's struct is reading, and that field is in the input, so that
what is freed at any depth is too. `NothingForgotten` (`NothingLost`) has the hypothesis `UnionsBare`: in what the caller decodes, the
submessages of static unions hold no pointers, however deep. The messages of `pb_decode` satisfy it,
the one of `pb_decode_union` does not, and there the property is violated: the hypothesis
is the exact line between the two runs. The proof takes the least step of a place at which it enters such a union
(`LeastNumber`, from the well-foundedness of the natural numbers).

The transport, `DataTransportProofs`, for any events, tiers, networks and answers, from
`TransportAssumption` (constants are of their kinds; each target is registered once):

* `TypeCorrect`.
* `PackagesNeverDropped`, which is `UploaderFree`, as long as CSH is no target. The coordinator waits for the
  uploader's block and then for the prioritizer's; its stage says what the uploader's queue
  can hold (`UploadQueue`), and that queue is served in order, so that at most one package is in it
  and none while another is in the uploader's hands.
* `SentAtMostOnce` (`AtMostOnce`), `NeverForgotten` (`NotForgotten`) and `TransportIsOutbox`
  (`ImplementsOutbox`, the refinement), under the hypothesis `Batched`: CSH is no target and no event is
  fast. It is what makes every package a set of its own, and it is needed: with a fast event the run
  `data_transport_unsent` violates the third. The invariant follows an event through the
  queues. A target is passed over until its delivery has reached the prioritizer, though the coordinator
  forgets the package in flight before that (`Flights`, `Deliveries`): what saves it is that the prioritizer's queue has the
  removal before the next package is filled (`Removals`), and that uploads take turns (`Turns`). A
  stored event is with the prioritizer, on its way there, or covered by a removal on its way to the
  storage (`Remembered`), and such removals are of events that were sent.

## 5. Only model-checked

Liveness (`ResultShown`, `DismissReturns`, `TokenArrives`, `EncoderReturns`, `DecoderReturns`,
`EventuallySent`) is out of the prover's reach and stays with TLC. Every safety property, every
action property and both refinements that a passing run checks are proved.

The library's induction theorems cannot be used, since no prover here instantiates an operator that
is a parameter. What they would be used for was had in three other ways: from a least
counterexample (`LeastNumber`, of well-foundedness), from a function that is chosen by the equations it
satisfies and shown to exist (`Totals`), and from a least relation (`SizePairs`).

## 6. Plan

Done: the two apps, the codec (integers, encoder, decoder) and the transport with its outbox, with the safety of
all of them proved. To do, if the project goes on:

1. The transport's archives: which events a restart brings back, and the packages that were in flight.
2. The iOS token path through `FIRInstanceID` and `FIRMessaging` to
   `messaging(_:didReceiveRegistrationToken:)`, with "the SDK has the current token" as its abstract
   specification.

## 7. Not modelled

* **The Waltz SDKs** (the Gradle artifact, `iOS/Pods/WaltzAccess` and `WaltzPBC`): binaries. They
  appear as callbacks at any time.
* **Of nanopb**: extensions, the errors of custom streams, `pb_decode_delimited_noinit`, the branches of
  `PB_WITHOUT_64BIT` (not built), unions that mix static members with pointers, fixed-count arrays of anything
  but scalars, and the values of strings and bytes. `bytes_written` is unbounded in the model: a
  message of 2^32 bytes is out of the app's reach. After an array of pointers could not grow, its count
  is one more than its items (`pb_decode.c:643`); the model has the count, the properties
  speak of blocks that were allocated.
* **Of the transport**: the archives, the background (the timer stops, tasks expire), the expiry of
  packages (its timer is put on a run loop that nobody runs), the making and parsing of the HTTP messages.
  The uploader's next-upload times are left out because nothing depends on them:
  `readyToUploadTarget` compares them with the clock and then sets `result = YES`
  (`GDTCCTUploader.m:333`). CSH, which no event of the app's SDKs uses in these sources, is in the model but in no run.
* **The other pods**: Firebase, GoogleUtilities, Promises, Alamofire, Protobuf, SwiftyJSON, JWTDecode,
  UICKeyChainStore. Third-party code that the apps call at two or three points. Most of what the
  repository has in C files and headers is of this kind, declarations without a body
  (`GPBDictionary.h`, `gmp.h`, `zbar.h`), in which there is no behaviour to model; the only C code
  that is built from source is nanopb.
* **Pure display**: layouts, colours, the wording of results, logging, the JSON of the lists.
* **Buttons that only call the SDK** (camera permission, user information, logout,
  geofence on iOS, `initSDK`) and callbacks that only print: no state of the app that
  another step reads.
* **Message handlers**: `onMessageReceived` and `didReceiveRemoteNotification` keep no
  state. The latter never calls its completion handler; what follows from that is
  iOS's scheduling and not a state of the app.
* **The forced unwraps of the JWT's claims** are in the model as a crash, but no
  property is about them: they depend on a single input.
