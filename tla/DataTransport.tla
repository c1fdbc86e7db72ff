---------------------------- MODULE DataTransport ----------------------------
(***************************************************************************)
(* Google's data transport, which uploads Firebase's events: the storage,  *)
(* the upload coordinator, the prioritizer and the uploader, each with a   *)
(* serial dispatch queue, and the URL session that answers the uploader.   *)
(*                                                                         *)
(* A queue is a sequence of blocks.  dispatch_async appends one and goes   *)
(* on; dispatch_sync appends one and waits, which only the coordinator     *)
(* does: its block is then between two stages.  A package whose events are *)
(* the prioritizer's own mutable set is "live": it has whatever the set    *)
(* has.  The transformer's queue is taken with the storage's.              *)
(*                                                                         *)
(* The app stays in the foreground: the archive, the stopping of the timer *)
(* and the expiry of background tasks are left out.  So is the expiry of   *)
(* packages, whose NSTimer is put on the run loop of a dispatch worker,    *)
(* which nobody runs, and so are the next-upload times: the uploader keeps *)
(* them, compares them and then is ready whatever they say.                *)
(***************************************************************************)
EXTENDS Integers, FiniteSets, Sequences

CONSTANTS CCT, FLL, CSH,  \* kGDTCORTarget
          Registered,     \* allKeys of targetToUploader, as far as in use: keys, so no two are one
          Events,         \* the events the program sends
          TargetOf,       \* the target of each
          QosOf,          \* the qosTier of each
          Answers,        \* how a request may end
          Nets,           \* the networks the phone meets
          Backlog         \* bound: blocks the storage may have waiting when the timer fires

Targets == {Registered[n] : n \in DOMAIN Registered}
Tiers == {"default", "fast", "daily", "telemetry", "wifi"}

ASSUME TransportAssumption ==
    /\ Registered \in Seq({CCT, FLL, CSH}) /\ Registered # <<>>
    /\ \A m, n \in DOMAIN Registered : m # n => Registered[m] # Registered[n]
    /\ TargetOf \in [Events -> Targets]
    /\ QosOf \in [Events -> Tiers]
    /\ Backlog \in Nat
    /\ Nets \subseteq {"none", "mobile", "wifi"}
    /\ Answers \subseteq {"done", "retry"} /\ Answers # {}

VARIABLES storageQ, coordQ, prioQ, uploadQ,   \* the four queues
          stored,       \* storedEvents
          prio,         \* the prioritizer's set of each target
          lastDaily,    \* timeOfLastDailyUpload of each
          coord,        \* what the coordinator's running block is at
          inflight,     \* targetToInFlightPackages, as sets of at most one
          current,      \* currentUploadPackage, as a set of at most one
          running,      \* packages whose upload task runs
          answered,     \* packages whose completion handler has not freed the uploader
          ever,         \* observer: events that were ever stored
          sent,         \* observer: in how many requests each event was
          returned      \* observer: events whose last request was to be retried

queues == <<storageQ, coordQ, prioQ, uploadQ>>
coordinator == <<coord, inflight>>
uploader == <<current, running, answered>>
observers == <<ever, sent, returned>>
vars == <<queues, stored, prio, lastDaily, coordinator, uploader, observers>>

\* A live package has the events of the prioritizer's set, not its own.
Package == [target : Targets, live : BOOLEAN, events : SUBSET Events]

StorageBlock == [op : {"store"}, event : Events] \cup [op : {"remove"}, events : SUBSET Events]
CoordBlock ==
    [op : {"tick"}] \cup [op : {"force"}, target : Targets]
    \cup [op : {"upload"}, targets : Seq(Targets) \ {<<>>}, net : Nets, high : BOOLEAN]
    \cup [op : {"delivered"}, package : Package]
PrioBlock ==
    [op : {"add"}, event : Events] \cup [op : {"remove"}, package : Package]
    \cup [op : {"fill"}]
UploadBlock == [op : {"upload"}, package : Package] \cup [op : {"ready"}]
CoordState == [stage : {"idle", "target", "ready", "fill", "forget"}, todo : Seq(Targets),
               net : Nets \cup {"none"}, high : BOOLEAN, package : SUBSET Package]

TypeOK ==
    /\ storageQ \in Seq(StorageBlock) /\ coordQ \in Seq(CoordBlock)
    /\ prioQ \in Seq(PrioBlock) /\ uploadQ \in Seq(UploadBlock)
    /\ stored \subseteq ever /\ ever \subseteq Events
    /\ prio \in [Targets -> SUBSET Events]
    /\ \A t \in Targets, e \in Events : e \in prio[t] => TargetOf[e] = t
    /\ lastDaily \in [Targets -> {"never", "today", "past"}]
    /\ coord \in CoordState
    /\ (coord.todo = <<>>) <=> (coord.stage \in {"idle", "forget"})
    /\ inflight \in [Targets -> SUBSET Package]
    /\ \A t \in Targets : \A p \in inflight[t] : p.target = t
    /\ current \cup running \cup answered \subseteq Package
    /\ sent \in [Events -> 0 .. 2] /\ returned \subseteq Events

-----------------------------------------------------------------------------
(* Packages *)

\* Mutant: the prioritizer's set is handed over, not a copy of it.
EventsOf_NotCopied(p) == prio[p.target]

EventsOf(p) == IF p.live THEN prio[p.target] ELSE p.events

Blocks(q, op) == {q[n] : n \in {k \in DOMAIN q : q[k].op = op}}

\* completeDelivery and retryDeliveryInTheFuture tell the coordinator.
Tell(p) == coordQ' = Append(coordQ, [op |-> "delivered", package |-> p])

-----------------------------------------------------------------------------
(* The storage *)

\* sendDataEvent and sendTelemetryEvent, through the transformer to storeEvent.
SendEvent(e) ==
    /\ e \notin ever /\ [op |-> "store", event |-> e] \notin Blocks(storageQ, "store")
    /\ storageQ' = Append(storageQ, [op |-> "store", event |-> e])
    /\ UNCHANGED <<coordQ, prioQ, uploadQ, stored, prio, lastDaily, coordinator, uploader,
                   observers>>

Store ==
    /\ storageQ # <<>> /\ Head(storageQ).op = "store"
    /\ LET e == Head(storageQ).event
       IN  /\ stored' = stored \cup {e} /\ ever' = ever \cup {e}
           /\ prioQ' = Append(prioQ, [op |-> "add", event |-> e])
           /\ coordQ' = IF QosOf[e] = "fast"
                        THEN Append(coordQ, [op |-> "force", target |-> TargetOf[e]])
                        ELSE coordQ
    /\ storageQ' = Tail(storageQ)
    /\ UNCHANGED <<uploadQ, prio, lastDaily, coordinator, uploader, sent, returned>>

RemoveEvents ==
    /\ storageQ # <<>> /\ Head(storageQ).op = "remove"
    /\ stored' = stored \ Head(storageQ).events
    /\ storageQ' = Tail(storageQ)
    /\ UNCHANGED <<coordQ, prioQ, uploadQ, prio, lastDaily, coordinator, uploader, observers>>

-----------------------------------------------------------------------------
(* The coordinator *)

Idle == [stage |-> "idle", todo |-> <<>>, net |-> "none", high |-> FALSE, package |-> {}]
Wanted == Head(coord.todo)
Take(op) == coord.stage = "idle" /\ coordQ # <<>> /\ Head(coordQ).op = op

\* The timer's handler is queued like a block; a second one joins the first.
TimerFires ==
    /\ Blocks(coordQ, "tick") = {} /\ Len(storageQ) <= Backlog
    /\ coordQ' = Append(coordQ, [op |-> "tick"])
    /\ UNCHANGED <<storageQ, prioQ, uploadQ, stored, prio, lastDaily, coordinator, uploader,
                   observers>>

\* uploadTargets only queues its block; uploadConditions is asked before that.
Upload(targets, net, high) ==
    /\ coordQ' = Append(Tail(coordQ), [op |-> "upload", targets |-> targets,
                                       net |-> net, high |-> high])
    /\ UNCHANGED <<storageQ, prioQ, uploadQ, stored, prio, lastDaily, coordinator, uploader,
                   observers>>

Tick(net) == Take("tick") /\ Upload(Registered, net, FALSE)

ForceUpload(net) == Take("force") /\ Upload(<<Head(coordQ).target>>, net, TRUE)

UploadTargets ==
    /\ Take("upload")
    /\ coordQ' = Tail(coordQ)
    /\ LET b == Head(coordQ)
       IN  coord' = IF b.net = "none" THEN coord
                    ELSE [Idle EXCEPT !.stage = "target", !.todo = b.targets,
                                      !.net = b.net, !.high = b.high]
    /\ UNCHANGED <<storageQ, prioQ, uploadQ, stored, prio, lastDaily, inflight,
                   uploader, observers>>

NextWanted ==
    IF Len(coord.todo) > 1
    THEN [coord EXCEPT !.stage = "target", !.todo = Tail(@)] ELSE Idle

\* Mutant: a package in flight is not looked for.
NextTarget_InFlightToo ==
    /\ coord.stage = "target"
    /\ coord' = [coord EXCEPT !.stage = "ready"]
    /\ uploadQ' = Append(uploadQ, [op |-> "ready"])
    /\ UNCHANGED <<storageQ, coordQ, prioQ, stored, prio, lastDaily, inflight,
                   uploader, observers>>

\* A target with a package in flight is passed over, the uploader is asked
\* about another.
NextTarget ==
    /\ coord.stage = "target"
    /\ IF inflight[Wanted] # {}
       THEN coord' = NextWanted /\ UNCHANGED uploadQ
       ELSE /\ coord' = [coord EXCEPT !.stage = "ready"]
            /\ uploadQ' = Append(uploadQ, [op |-> "ready"])
    /\ UNCHANGED <<storageQ, coordQ, prioQ, stored, prio, lastDaily, inflight,
                   uploader, observers>>

\* Mutant: the storage is not told.
Delivered_KeepsStored ==
    /\ Take("delivered")
    /\ LET p == Head(coordQ).package
       IN  /\ inflight' = [inflight EXCEPT ![p.target] = {}]
           /\ prioQ' = Append(prioQ, [op |-> "remove", package |-> p])
    /\ coordQ' = Tail(coordQ)
    /\ UNCHANGED <<storageQ, uploadQ, stored, prio, lastDaily, coord, uploader, observers>>

\* packageDelivered: the target is free again and the prioritizer is told ...
Delivered ==
    /\ Take("delivered")
    /\ LET p == Head(coordQ).package
       IN  /\ inflight' = [inflight EXCEPT ![p.target] = {}]
           /\ prioQ' = Append(prioQ, [op |-> "remove", package |-> p])
           /\ coord' = [Idle EXCEPT !.stage = "forget", !.package = {p}]
    /\ coordQ' = Tail(coordQ)
    /\ UNCHANGED <<storageQ, uploadQ, stored, prio, lastDaily, uploader, observers>>

\* ... and then the storage, which copies the events it is handed.
Forget ==
    /\ coord.stage = "forget"
    /\ \E p \in coord.package :
          storageQ' = Append(storageQ, [op |-> "remove", events |-> EventsOf(p)])
    /\ coord' = Idle
    /\ UNCHANGED <<coordQ, prioQ, uploadQ, stored, prio, lastDaily, inflight,
                   uploader, observers>>

-----------------------------------------------------------------------------
(* The prioritizer *)

Prioritize ==
    /\ prioQ # <<>> /\ Head(prioQ).op = "add"
    /\ prio' = [prio EXCEPT ![TargetOf[Head(prioQ).event]] = @ \cup {Head(prioQ).event}]
    /\ prioQ' = Tail(prioQ)
    /\ UNCHANGED <<storageQ, coordQ, uploadQ, stored, lastDaily, coordinator, uploader,
                   observers>>

\* Its packageDelivered removes the events the package has by then.
Unprioritize ==
    /\ prioQ # <<>> /\ Head(prioQ).op = "remove"
    /\ prio' = [t \in Targets |-> prio[t] \ EventsOf(Head(prioQ).package)]
    /\ prioQ' = Tail(prioQ)
    /\ UNCHANGED <<storageQ, coordQ, uploadQ, stored, lastDaily, coordinator, uploader,
                   observers>>

\* GDTCCTQosTierFromGDTCOREventQosTier
Tier(e) == CASE QosOf[e] = "wifi" -> "wifi"
             [] QosOf[e] \in {"daily", "telemetry"} -> "daily"
             [] OTHER -> "default"

\* eventsForTarget, when it makes a set of its own.
EventsFor(t, net) ==
    LET day   == IF lastDaily[t] = "today" THEN {} ELSE {"daily"}
        tiers == day \cup IF net = "wifi" THEN {"default", "wifi", "daily"} ELSE {"default"}
    IN  {e \in prio[t] : Tier(e) \in tiers}

\* uploadPackageWithTarget, and the coordinator goes on with the package: an
\* empty one is delivered at once.
Fill ==
    /\ coord.stage = "fill" /\ prioQ # <<>> /\ Head(prioQ).op = "fill"
    /\ LET t == Wanted
           live == t = CSH \/ coord.high
           events == IF live THEN prio[t] ELSE EventsFor(t, coord.net)
           p == [target |-> t, live |-> live, events |-> IF live THEN {} ELSE events]
       IN  /\ lastDaily' = IF ~ live /\ lastDaily[t] = "never"
                           THEN [lastDaily EXCEPT ![t] = "today"] ELSE lastDaily
           /\ IF events = {}
              THEN Tell(p) /\ UNCHANGED <<inflight, uploadQ>>
              ELSE /\ inflight' = [inflight EXCEPT ![t] = {p}]
                   /\ uploadQ' = Append(uploadQ, [op |-> "upload", package |-> p])
                   /\ UNCHANGED coordQ
    /\ coord' = NextWanted
    /\ prioQ' = Tail(prioQ)
    /\ UNCHANGED <<storageQ, stored, prio, uploader, observers>>

\* More than kMillisPerDay have gone by since the time was taken.
DayPasses(t) ==
    /\ lastDaily[t] = "today" /\ lastDaily' = [lastDaily EXCEPT ![t] = "past"]
    /\ UNCHANGED <<queues, stored, prio, coordinator, uploader, observers>>

-----------------------------------------------------------------------------
(* The uploader *)

\* Mutant: the current package is not looked at.
IsReady_Always(t) == t \in Targets

\* readyToUploadTarget: the next-upload times are looked at, to no effect.
IsReady(t) == (t = CSH /\ prio[t] # {}) \/ current = {}

Ready ==
    /\ coord.stage = "ready" /\ uploadQ # <<>> /\ Head(uploadQ).op = "ready"
    /\ IF IsReady(Wanted)
       THEN /\ coord' = [coord EXCEPT !.stage = "fill"]
            /\ prioQ' = Append(prioQ, [op |-> "fill"])
       ELSE coord' = NextWanted /\ UNCHANGED prioQ
    /\ uploadQ' = Tail(uploadQ)
    /\ UNCHANGED <<storageQ, coordQ, stored, prio, lastDaily, inflight, uploader,
                   observers>>

\* uploadPackage makes the request of the events the package has now; it leaves
\* a package alone when another is in progress.
UploadPackage ==
    /\ uploadQ # <<>> /\ Head(uploadQ).op = "upload"
    /\ LET p == Head(uploadQ).package
       IN  IF current # {} THEN UNCHANGED <<current, running, sent>>
           ELSE /\ current' = {p} /\ running' = running \cup {p}
                /\ sent' = [e \in Events |-> IF e \in EventsOf(p) /\ sent[e] < 2
                                             THEN sent[e] + 1 ELSE sent[e]]
    /\ uploadQ' = Tail(uploadQ)
    /\ UNCHANGED <<storageQ, coordQ, prioQ, stored, prio, lastDaily, coordinator, answered,
                   ever, returned>>

\* The completion handler: the package is told ...
Answer(p, answer) ==
    /\ running' = running \ {p} /\ answered' = answered \cup {p}
    /\ Tell(p)
    /\ returned' = IF answer = "retry" THEN returned \cup EventsOf(p) ELSE returned \ EventsOf(p)
    /\ UNCHANGED <<storageQ, prioQ, uploadQ, stored, prio, lastDaily, coordinator, current,
                   ever, sent>>

\* Mutant: the completion handler leaves currentUploadPackage.
TaskOver_NotFreed(p) ==
    /\ answered' = answered \ {p}
    /\ UNCHANGED <<queues, stored, prio, lastDaily, coordinator, current, running,
                   observers>>

\* ... and then the uploader is free.
TaskOver(p) ==
    /\ answered' = answered \ {p} /\ current' = {}
    /\ UNCHANGED <<queues, stored, prio, lastDaily, coordinator, running, observers>>

-----------------------------------------------------------------------------
Init ==
    /\ storageQ = <<>> /\ coordQ = <<>> /\ prioQ = <<>> /\ uploadQ = <<>>
    /\ stored = {}
    /\ prio = [t \in Targets |-> {}] /\ lastDaily = [t \in Targets |-> "never"]
    /\ coord = Idle /\ inflight = [t \in Targets |-> {}]
    /\ current = {} /\ running = {} /\ answered = {}
    /\ ever = {} /\ sent = [e \in Events |-> 0] /\ returned = {}

\* What the queues and the completion handler do on their own.
Serve == \/ Store \/ RemoveEvents
         \/ UploadTargets \/ NextTarget \/ Delivered \/ Forget
         \/ Prioritize \/ Unprioritize \/ Fill
         \/ Ready \/ UploadPackage
         \/ \E p \in answered : TaskOver(p)
         \/ \E net \in Nets : Tick(net) \/ ForceUpload(net)

Next ==
    \/ \E e \in Events : SendEvent(e)
    \/ Serve \/ TimerFires
    \/ \E p \in running, a \in Answers : Answer(p, a)
    \/ \E t \in Targets : DayPasses(t)

Spec == Init /\ [][Next]_vars

\* Every queue is served, the timer fires again and again, a request ends (the
\* URL session has a time-out), and the phone is on wifi often enough.
Fairness ==
    /\ WF_vars(Store \/ RemoveEvents)
    /\ WF_vars(UploadTargets \/ NextTarget \/ Delivered \/ Forget
               \/ \E net \in Nets : Tick(net) \/ ForceUpload(net))
    /\ WF_vars(Prioritize \/ Unprioritize \/ Fill)
    /\ WF_vars(Ready \/ UploadPackage)
    /\ WF_vars(\E p \in answered : TaskOver(p))
    /\ WF_vars(TimerFires)
    /\ WF_vars(\E p \in running, a \in Answers : Answer(p, a))
    /\ SF_vars(Tick("wifi"))

FairSpec == Spec /\ Fairness

-----------------------------------------------------------------------------
\* No event is part of two requests, whatever the order in which a delivery, the
\* prioritizer's removal and the next upload are served (the check of the
\* in-flight package in uploadTargets, the queues behind packageDelivered).
AtMostOnce == \A e \in Events : sent[e] <= 1

\* The uploader has at most one package in hand, and one that it was found ready
\* for is never dropped: "An upload shouldn't be initiated with another in
\* progress" (readyToUploadTarget, then uploadPackage, with other blocks between).
UploaderFree ==
    /\ Cardinality(running \cup answered) <= 1
    /\ \A b \in Blocks(uploadQ, "upload") : current = {}
    /\ Cardinality(Blocks(uploadQ, "upload")) <= 1

\* The storage and the prioritizer agree about every event, but for blocks that
\* are on their way.  An event in the storage that was not sent is in the set from
\* which the next packages are made, or a queued block puts it there; only one that
\* was sent may have left the set, and then the storage is told to remove it.  None
\* stays on the disk that is neither uploaded nor removed.
NotForgotten ==
    \A e \in stored :
        \/ e \in prio[TargetOf[e]]
        \/ [op |-> "add", event |-> e] \in Blocks(prioQ, "add")
        \/ /\ sent[e] > 0
           /\ \/ \E p \in coord.package : e \in EventsOf(p)
              \/ \E b \in Blocks(storageQ, "remove") : e \in b.events

\* The transport is an outbox: what it removes from the storage it has sent
\* (GDTCORUploadCoordinator "informing the storage what events were successfully
\* uploaded or not").
O == INSTANCE Outbox WITH kept <- stored, sent <- {e \in Events : sent[e] > 0}
ImplementsOutbox == O!Spec

\* Every event that was stored is sent in the end.  The run has a fast event, which
\* forces an upload, and an ordinary one of another target, which waits for the timer;
\* with both of one target the ordinary one may be removed unsent.
EventuallySent == \A e \in Events : e \in stored ~> sent[e] > 0

\* An event whose request was to be retried stays stored until it is sent again:
\* "Sends the package back, indicating that delivery should be attempted again
\* in the future" (retryDeliveryInTheFuture).
RetriedAreKept == returned \subseteq stored
=============================================================================
