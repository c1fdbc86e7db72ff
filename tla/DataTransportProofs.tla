------------------------- MODULE DataTransportProofs -------------------------
(***************************************************************************)
(* Theorems about the data transport, for every set of events and targets, *)
(* every answer and any order of the blocks.                               *)
(*                                                                         *)
(* Without the CSH target the uploader never drops a package: the          *)
(* coordinator waits for the uploader's and then for the prioritizer's     *)
(* block, its own stage says which blocks the uploader's queue can hold,   *)
(* and that queue is served in order.  Where, besides, no event is fast,   *)
(* an event is in one package at a time, which says where it is: it is     *)
(* sent at most once, never forgotten, and the transport is an Outbox.     *)
(***************************************************************************)
EXTENDS DataTransport, FiniteSetTheorems, SequenceTheorems, TLAPS

\* The registered targets are a list of targets, which is not empty.
LEMMA RegisteredTargets == Registered \in Seq(Targets) \ {<<>>}
  BY TransportAssumption DEF Targets

\* The rest of a sequence of two or more is not empty.
LEMMA LongTail ==
    ASSUME NEW S, NEW q \in Seq(S), Len(q) > 1
    PROVE  Tail(q) \in Seq(S) \ {<<>>}
<1>1. Tail(q) \in Seq(S) /\ Len(Tail(q)) = Len(q) - 1 /\ Len(q) \in Nat
  OBVIOUS
<1>2. Len(<<>>) = 0
  OBVIOUS
<1>3. Len(Tail(q)) # 0
  BY <1>1
<1> QED
  BY <1>1, <1>2, <1>3

\* A coordinator's state: targets are left to do in the three stages of an upload.
CoordOK(c) == c \in CoordState /\ ((c.todo = <<>>) <=> (c.stage \in {"idle", "forget"}))

\* The coordinator at rest.
LEMMA IdleOK ==
    /\ CoordOK(Idle) /\ Idle.stage = "idle" /\ Idle.todo = <<>> /\ Idle.package = {}
    /\ Idle.high = FALSE
  BY DEF CoordOK, CoordState, Idle

\* What a coordinator goes on to after a target: the next one, or rest.
LEMMA AfterTarget ==
    ASSUME CoordOK(coord), coord.stage \in {"target", "ready", "fill"}
    PROVE  /\ CoordOK(NextWanted) /\ NextWanted.high \in {coord.high, FALSE}
           /\ NextWanted.package \subseteq coord.package
           /\ \/ NextWanted.stage = "target" /\ Len(coord.todo) > 1
                 /\ NextWanted.todo = Tail(coord.todo)
              \/ NextWanted.stage = "idle" /\ NextWanted.todo = <<>>
<1>1. coord \in CoordState /\ coord.todo \in Seq(Targets) \ {<<>>}
  BY DEF CoordOK, CoordState
<1>2. CASE Len(coord.todo) > 1
  <2>1. NextWanted = [coord EXCEPT !.stage = "target", !.todo = Tail(coord.todo)]
    BY <1>1, <1>2 DEF NextWanted
  <2>2. Tail(coord.todo) \in Seq(Targets) \ {<<>>}
    BY <1>1, <1>2, LongTail
  <2> QED
    BY <1>1, <1>2, <2>1, <2>2 DEF CoordOK, CoordState
<1>3. CASE ~ (Len(coord.todo) > 1)
  BY <1>3, IdleOK DEF NextWanted, Idle
<1> QED
  BY <1>2, <1>3

\* The coordinator that still has to tell the storage of a package.
LEMMA ForgetOK ==
    ASSUME NEW p \in Package
    PROVE  LET c == [Idle EXCEPT !.stage = "forget", !.package = {p}]
           IN  /\ CoordOK(c) /\ c.stage = "forget" /\ c.todo = <<>> /\ c.package = {p}
               /\ c.high = FALSE
<1>1. Idle \in CoordState /\ Idle.todo = <<>> /\ Idle.high = FALSE
  BY IdleOK DEF CoordOK
<1>2. "forget" \in {"idle", "target", "ready", "fill", "forget"} /\ {p} \in SUBSET Package
  OBVIOUS
<1> DEFINE c == [Idle EXCEPT !.stage = "forget", !.package = {p}]
<1>3. c \in CoordState
  BY <1>1, <1>2 DEF CoordState
<1>4. c.stage = "forget" /\ c.todo = <<>> /\ c.package = {p} /\ c.high = FALSE
  BY <1>1 DEF CoordState
<1> QED
  BY <1>3, <1>4 DEF CoordOK

\* The stages in which the coordinator has asked and waits.
LEMMA Waits ==
    ASSUME CoordOK(coord), coord.todo # <<>>, NEW stage \in {"ready", "fill"}
    PROVE  /\ CoordOK([coord EXCEPT !.stage = stage])
           /\ [coord EXCEPT !.stage = stage].stage = stage
           /\ [coord EXCEPT !.stage = stage].todo = coord.todo
           /\ [coord EXCEPT !.stage = stage].high = coord.high
           /\ [coord EXCEPT !.stage = stage].package = coord.package
  BY DEF CoordOK, CoordState

\* The target asked about is one of the registered.
LEMMA WantedTarget == ASSUME CoordOK(coord), coord.todo # <<>> PROVE Wanted \in Targets
<1>1. coord.todo \in Seq(Targets) /\ coord.todo # <<>>
  BY DEF CoordOK, CoordState
<1> QED
  BY <1>1 DEF Wanted

\* At launch nothing is queued.
LEMMA InitTypeOK == Init => TypeOK
  BY IdleOK DEF Init, TypeOK, CoordOK, CoordState

\* A package's events are events.
LEMMA EventsOfPackage == ASSUME TypeOK, NEW p \in Package PROVE EventsOf(p) \subseteq Events
  BY DEF TypeOK, EventsOf, Package

\* Every step keeps the types.
LEMMA TypeStep == TypeOK /\ [Next]_vars => TypeOK'
<1> SUFFICES ASSUME TypeOK, [Next]_vars PROVE TypeOK'
  OBVIOUS
<1> USE DEF observers, uploader, coordinator, queues
<1>0. CoordOK(coord)
  BY DEF TypeOK, CoordOK
<1>1. ASSUME NEW e \in Events, SendEvent(e) PROVE TypeOK'
  <2>1. [op |-> "store", event |-> e] \in StorageBlock
    BY DEF StorageBlock
  <2> QED
    BY <1>1, <2>1 DEF SendEvent, TypeOK
<1>2. CASE Store
  <2> DEFINE e == Head(storageQ).event
  <2>1. storageQ \in Seq(StorageBlock) /\ storageQ # <<>> /\ Head(storageQ).op = "store"
    BY <1>2 DEF Store, TypeOK
  <2>2. e \in Events
    <3>1. Head(storageQ) \in StorageBlock
      BY <2>1
    <3> QED
      BY <2>1, <3>1 DEF StorageBlock
  <2>3. [op |-> "add", event |-> e] \in PrioBlock
        /\ [op |-> "force", target |-> TargetOf[e]] \in CoordBlock
    BY <2>2, TransportAssumption DEF PrioBlock, CoordBlock
  <2>4. Tail(storageQ) \in Seq(StorageBlock)
    BY <2>1
  <2>5. coordQ' \in Seq(CoordBlock) /\ prioQ' \in Seq(PrioBlock)
    BY <1>2, <2>3 DEF Store, TypeOK
  <2> QED
    BY <1>2, <2>2, <2>4, <2>5 DEF Store, TypeOK
<1>3. CASE RemoveEvents
  BY <1>3 DEF RemoveEvents, TypeOK
<1>4. CASE UploadTargets
  <2>1. coordQ \in Seq(CoordBlock) /\ coordQ # <<>> /\ Head(coordQ).op = "upload"
    BY <1>4 DEF UploadTargets, Take, TypeOK
  <2>2. Head(coordQ) \in [op : {"upload"}, targets : Seq(Targets) \ {<<>>}, net : Nets, high : BOOLEAN]
    <3>1. Head(coordQ) \in CoordBlock
      BY <2>1
    <3> QED
      BY <2>1, <3>1 DEF CoordBlock
  <2>3. CoordOK(coord')
    BY <1>0, <1>4, <2>2 DEF UploadTargets, CoordOK, CoordState, Idle
  <2> QED
    BY <1>4, <2>1, <2>3 DEF UploadTargets, TypeOK, CoordOK
<1>5. CASE NextTarget
  <2>1. coord.todo # <<>> /\ coord.stage = "target"
    BY <1>5 DEF TypeOK, NextTarget
  <2>2. CoordOK(coord')
    BY <1>0, <1>5, <2>1, AfterTarget, Waits DEF NextTarget
  <2>3. uploadQ' \in Seq(UploadBlock)
    BY <1>5 DEF NextTarget, TypeOK, UploadBlock
  <2> QED
    BY <1>5, <2>2, <2>3 DEF NextTarget, TypeOK, CoordOK
<1>6. CASE Delivered
  <2> DEFINE p == Head(coordQ).package
  <2>1. coordQ \in Seq(CoordBlock) /\ coordQ # <<>> /\ Head(coordQ).op = "delivered"
    BY <1>6 DEF Delivered, Take, TypeOK
  <2>2. p \in Package
    <3>1. Head(coordQ) \in CoordBlock
      BY <2>1
    <3> QED
      BY <2>1, <3>1 DEF CoordBlock
  <2>3. [op |-> "remove", package |-> p] \in PrioBlock /\ p.target \in Targets
    BY <2>2 DEF PrioBlock, Package
  <2>4. CoordOK(coord')
    BY <1>6, <2>2, ForgetOK DEF Delivered
  <2>5. /\ inflight' \in [Targets -> SUBSET Package]
        /\ \A t \in Targets : \A q \in inflight'[t] : q.target = t
    BY <1>6, <2>2, <2>3 DEF Delivered, TypeOK
  <2>6. prioQ' \in Seq(PrioBlock) /\ coordQ' \in Seq(CoordBlock)
    BY <1>6, <2>1, <2>3 DEF Delivered, TypeOK
  <2> HIDE DEF p
  <2> QED
    BY <1>6, <2>4, <2>5, <2>6 DEF Delivered, TypeOK, CoordOK
<1>7. CASE Forget
  <2>1. PICK p \in coord.package :
           storageQ' = Append(storageQ, [op |-> "remove", events |-> EventsOf(p)])
    BY <1>7 DEF Forget
  <2>2. p \in Package
    BY <1>0 DEF CoordOK, CoordState
  <2>3. [op |-> "remove", events |-> EventsOf(p)] \in StorageBlock
    BY <2>2, EventsOfPackage DEF StorageBlock
  <2>4. storageQ' \in Seq(StorageBlock)
    BY <2>1, <2>3 DEF TypeOK
  <2> QED
    BY <1>7, <2>4, IdleOK DEF Forget, TypeOK, CoordOK
<1>8. CASE Prioritize
  <2>1. prioQ \in Seq(PrioBlock) /\ prioQ # <<>> /\ Head(prioQ).op = "add"
    BY <1>8 DEF Prioritize, TypeOK
  <2>2. Head(prioQ).event \in Events
    <3>1. Head(prioQ) \in PrioBlock
      BY <2>1
    <3> QED
      BY <2>1, <3>1 DEF PrioBlock
  <2>3. TargetOf[Head(prioQ).event] \in Targets
    BY <2>2, TransportAssumption
  <2>4. /\ prio' \in [Targets -> SUBSET Events]
        /\ \A t \in Targets, e \in Events : e \in prio'[t] => TargetOf[e] = t
    BY <1>8, <2>2, <2>3 DEF Prioritize, TypeOK
  <2> QED
    BY <1>8, <2>1, <2>4 DEF Prioritize, TypeOK
<1>9. CASE Unprioritize
  <2>1. /\ prio' \in [Targets -> SUBSET Events]
        /\ \A t \in Targets, e \in Events : e \in prio'[t] => TargetOf[e] = t
    BY <1>9 DEF Unprioritize, TypeOK
  <2> QED
    BY <1>9, <2>1 DEF Unprioritize, TypeOK
<1>10. CASE Fill
  <2>1. coord.todo # <<>> /\ coord.stage = "fill"
    BY <1>10 DEF TypeOK, Fill
  <2>2. Wanted \in Targets /\ CoordOK(coord')
    BY <1>0, <1>10, <2>1, AfterTarget, WantedTarget DEF Fill
  <2> DEFINE t == Wanted
             live == t = CSH \/ coord.high
             events == IF live THEN prio[t] ELSE EventsFor(t, coord.net)
             p == [target |-> t, live |-> live, events |-> IF live THEN {} ELSE events]
  <2>3. p \in Package
    <3>1. EventsFor(t, coord.net) \subseteq Events
      BY <2>2 DEF TypeOK, EventsFor
    <3>2. live \in BOOLEAN
      BY DEF TypeOK, CoordState
    <3> HIDE DEF live
    <3> QED
      BY <2>2, <3>1, <3>2 DEF Package
  <2>4. /\ lastDaily' = [lastDaily EXCEPT ![t] = "today"] \/ lastDaily' = lastDaily
        /\ \/ Tell(p) /\ UNCHANGED <<inflight, uploadQ>>
           \/ /\ inflight' = [inflight EXCEPT ![t] = {p}]
              /\ uploadQ' = Append(uploadQ, [op |-> "upload", package |-> p])
              /\ UNCHANGED coordQ
        /\ prioQ' = Tail(prioQ) /\ prioQ # <<>>
        /\ UNCHANGED <<storageQ, stored, prio, uploader, observers>>
    BY <1>10 DEF Fill
  <2>5. p.target = t /\ t \in Targets
    BY <2>2
  <2> HIDE DEF t, p
  <2>6. [op |-> "upload", package |-> p] \in UploadBlock
        /\ [op |-> "delivered", package |-> p] \in CoordBlock
    BY <2>3 DEF UploadBlock, CoordBlock
  <2>7. lastDaily' \in [Targets -> {"never", "today", "past"}]
    BY <2>4, <2>5 DEF TypeOK
  <2>8. /\ inflight' \in [Targets -> SUBSET Package]
        /\ \A s \in Targets : \A q \in inflight'[s] : q.target = s
    <3>1. /\ inflight \in [Targets -> SUBSET Package]
          /\ \A s \in Targets : \A q \in inflight[s] : q.target = s
      BY DEF TypeOK
    <3>2. CASE inflight' = inflight
      BY <3>1, <3>2
    <3>3. CASE inflight' = [inflight EXCEPT ![t] = {p}]
      BY <2>3, <2>5, <3>1, <3>3
    <3> QED
      BY <2>4, <3>2, <3>3
  <2>9. coordQ' \in Seq(CoordBlock) /\ uploadQ' \in Seq(UploadBlock)
    <3>1. coordQ \in Seq(CoordBlock) /\ uploadQ \in Seq(UploadBlock)
      BY DEF TypeOK
    <3>2. CASE Tell(p) /\ uploadQ' = uploadQ
      BY <2>6, <3>1, <3>2 DEF Tell
    <3>3. CASE uploadQ' = Append(uploadQ, [op |-> "upload", package |-> p]) /\ coordQ' = coordQ
      BY <2>6, <3>1, <3>3
    <3> QED
      BY <2>4, <3>2, <3>3
  <2>10. prioQ' \in Seq(PrioBlock)
    BY <2>4 DEF TypeOK
  <2> QED
    BY <2>2, <2>4, <2>7, <2>8, <2>9, <2>10 DEF TypeOK, CoordOK
<1>11. CASE Ready
  <2>1. coord.todo # <<>> /\ coord.stage = "ready"
    BY <1>11 DEF TypeOK, Ready
  <2>2. CoordOK(coord')
    BY <1>0, <1>11, <2>1, AfterTarget, Waits DEF Ready
  <2>3. prioQ' \in Seq(PrioBlock)
    <3>1. [op |-> "fill"] \in PrioBlock /\ prioQ \in Seq(PrioBlock)
      BY DEF PrioBlock, TypeOK
    <3>2. prioQ' = prioQ \/ prioQ' = Append(prioQ, [op |-> "fill"])
      BY <1>11 DEF Ready
    <3> QED
      BY <3>1, <3>2
  <2> QED
    BY <1>11, <2>2, <2>3 DEF Ready, TypeOK, CoordOK
<1>12. CASE UploadPackage
  <2>1. uploadQ \in Seq(UploadBlock) /\ uploadQ # <<>> /\ Head(uploadQ).op = "upload"
    BY <1>12 DEF UploadPackage, TypeOK
  <2>2. Head(uploadQ).package \in Package
    <3>1. Head(uploadQ) \in UploadBlock
      BY <2>1
    <3> QED
      BY <2>1, <3>1 DEF UploadBlock
  <2>3. current' \cup running' \cup answered' \subseteq Package
    BY <1>12, <2>2 DEF UploadPackage, TypeOK
  <2>4. sent' \in [Events -> 0 .. 2]
    <3>1. sent \in [Events -> 0 .. 2]
      BY DEF TypeOK
    <3>2. \A S : [e \in Events |-> IF e \in S /\ sent[e] < 2 THEN sent[e] + 1 ELSE sent[e]]
                 \in [Events -> 0 .. 2]
      BY <3>1
    <3>3. sent' = sent
          \/ sent' = [e \in Events |-> IF e \in EventsOf(Head(uploadQ).package) /\ sent[e] < 2
                                       THEN sent[e] + 1 ELSE sent[e]]
      BY <1>12 DEF UploadPackage
    <3> QED
      BY <3>1, <3>2, <3>3
  <2> QED
    BY <1>12, <2>1, <2>3, <2>4 DEF UploadPackage, TypeOK
<1>13. ASSUME NEW p \in answered, TaskOver(p) PROVE TypeOK'
  BY <1>13 DEF TaskOver, TypeOK
<1>14. ASSUME NEW net \in Nets, Tick(net) \/ ForceUpload(net) PROVE TypeOK'
  <2>1. ASSUME NEW targets \in Seq(Targets) \ {<<>>}, NEW high \in BOOLEAN, coordQ # <<>>,
               Upload(targets, net, high)
        PROVE  TypeOK'
    <3> DEFINE b == [op |-> "upload", targets |-> targets, net |-> net, high |-> high]
    <3>1. b \in CoordBlock
      BY DEF CoordBlock
    <3>2. coordQ' = Append(Tail(coordQ), b)
      BY <2>1 DEF Upload
    <3> HIDE DEF b
    <3>3. coordQ' \in Seq(CoordBlock)
      BY <2>1, <3>1, <3>2 DEF TypeOK
    <3> QED
      BY <2>1, <3>3 DEF TypeOK, Upload
  <2>2. CASE Tick(net)
    BY <2>1, <2>2, RegisteredTargets DEF Tick, Take
  <2>3. CASE ForceUpload(net)
    <3>1. coordQ \in Seq(CoordBlock) /\ coordQ # <<>> /\ Head(coordQ).op = "force"
      BY <2>3 DEF ForceUpload, Take, TypeOK
    <3>2. Head(coordQ) \in CoordBlock
      BY <3>1
    <3>3. Head(coordQ).target \in Targets
      BY <3>1, <3>2 DEF CoordBlock
    <3>4. <<Head(coordQ).target>> \in Seq(Targets) \ {<<>>}
      BY <3>3
    <3>5. Upload(<<Head(coordQ).target>>, net, TRUE)
      BY <2>3 DEF ForceUpload
    <3> QED
      BY <2>1, <3>1, <3>4, <3>5
  <2> QED
    BY <1>14, <2>2, <2>3
<1>15. CASE TimerFires
  BY <1>15 DEF TimerFires, TypeOK, CoordBlock
<1>16. ASSUME NEW p \in running, NEW a \in Answers, Answer(p, a) PROVE TypeOK'
  <2>1. p \in Package
    BY DEF TypeOK
  <2>2. [op |-> "delivered", package |-> p] \in CoordBlock /\ EventsOf(p) \subseteq Events
    BY <2>1, EventsOfPackage DEF CoordBlock
  <2>3. coordQ' \in Seq(CoordBlock)
    BY <1>16, <2>2 DEF Answer, Tell, TypeOK
  <2> QED
    BY <1>16, <2>1, <2>2, <2>3 DEF Answer, TypeOK
<1>17. ASSUME NEW t \in Targets, DayPasses(t) PROVE TypeOK'
  BY <1>17 DEF DayPasses, TypeOK
<1>18. CASE UNCHANGED vars
  BY <1>18 DEF vars, TypeOK
<1> QED
  BY <1>1, <1>2, <1>3, <1>4, <1>5, <1>6, <1>7, <1>8, <1>9, <1>10, <1>11, <1>12, <1>13, <1>14,
     <1>15, <1>16, <1>17, <1>18 DEF Next, Serve

\* The queues hold blocks of their kinds, the stores events of the program and the
\* coordinator is between two stages only while targets are left, whatever the
\* targets, events, tiers, networks and answers.
THEOREM TypeCorrect == Spec => []TypeOK
  BY InitTypeOK, TypeStep, PTL DEF Spec

-----------------------------------------------------------------------------
\* At most one package waits for the uploader or is in its hands, and while the
\* coordinator asks about the next target its question comes after that package.
UploadQueue ==
    \/ coord.stage # "ready" /\ uploadQ = <<>>
    \/ coord.stage \notin {"ready", "fill"} /\ current = {}
       /\ \E b : b.op = "upload" /\ uploadQ = <<b>>
    \/ coord.stage = "ready" /\ uploadQ = <<[op |-> "ready"]>>
    \/ coord.stage = "ready" /\ current = {}
       /\ \E b : b.op = "upload" /\ uploadQ = <<b, [op |-> "ready"]>>

\* The tasks are the current package's, and the coordinator takes events for a
\* package only while there is none.
Tasks ==
    /\ coord.stage = "fill" => current = {}
    /\ \A p, q \in current : p = q
    /\ running \cup answered \subseteq current
    /\ running \cap answered = {}

\* What the short queues of the uploader are when a block is put or taken.
LEMMA Short ==
    ASSUME NEW a, NEW b
    PROVE  /\ Append(<<>>, a) = <<a>> /\ Append(<<a>>, b) = <<a, b>>
           /\ Head(<<a>>) = a /\ Tail(<<a>>) = <<>>
           /\ Head(<<a, b>>) = a /\ Tail(<<a, b>>) = <<b>>
           /\ <<a>> # <<>> /\ <<a, b>> # <<>>
<1>1. <<>> \in Seq({a}) /\ Len(<<>>) = 0
  OBVIOUS
<1>6. Append(<<>>, a) = <<a>>
  BY <1>1
<1>7. Append(<<a>>, b) = <<a, b>>
  <2>1. <<a>> \in Seq({a, b}) /\ Len(<<a>>) = 1 /\ <<a>>[1] = a
    OBVIOUS
  <2>2. Append(<<a>>, b) \in Seq({a, b}) /\ Len(Append(<<a>>, b)) = 2
        /\ Append(<<a>>, b)[1] = a /\ Append(<<a>>, b)[2] = b
    BY <2>1
  <2>3. <<a, b>> \in Seq({a, b}) /\ Len(<<a, b>>) = 2
        /\ <<a, b>>[1] = a /\ <<a, b>>[2] = b
    OBVIOUS
  <2>4. \A n \in 1 .. 2 : n = 1 \/ n = 2
    OBVIOUS
  <2> QED
    BY <2>2, <2>3, <2>4, SeqEqual
<1>2. Head(<<a>>) = a /\ Head(<<a, b>>) = a
  OBVIOUS
<1>3. Tail(<<a>>) = <<>>
  OBVIOUS
<1>4. Tail(<<a, b>>) = <<b>>
  OBVIOUS
<1>5. <<a>> # <<>> /\ <<a, b>> # <<>>
  OBVIOUS
<1> QED
  BY <1>2, <1>3, <1>4, <1>5, <1>6, <1>7

\* At launch the uploader's queue is empty and it has no package.
LEMMA InitUploader == Init => UploadQueue /\ Tasks
  BY DEF Init, Idle, UploadQueue, Tasks

\* The stages a coordinator's block can be in, as far as the uploader is concerned.
LEMMA StageStep ==
    ASSUME TypeOK, CSH \notin Targets, coord.stage = "ready"
    PROVE  IsReady(Wanted) <=> current = {}
<1>1. CoordOK(coord) /\ coord.todo # <<>>
  BY DEF TypeOK, CoordOK
<1>2. Wanted \in Targets
  BY <1>1, WantedTarget
<1> QED
  BY <1>2 DEF IsReady

\* Every step keeps what the uploader's queue and tasks have to do with the coordinator.
LEMMA UploadQueueStep ==
    ASSUME TypeOK, CSH \notin Targets, UploadQueue, Tasks, [Next]_vars
    PROVE  UploadQueue' /\ Tasks'
<1> USE DEF observers, uploader, coordinator, queues
<1>1. CoordOK(coord)
  BY DEF TypeOK, CoordOK
<1>2. CASE UNCHANGED <<coord, uploadQ, current, running, answered>>
  BY <1>2 DEF UploadQueue, Tasks
<1>3. CASE UploadTargets
  <2>1. coord.stage = "idle" /\ coord'.stage \in {"idle", "target"}
        /\ UNCHANGED <<uploadQ, current, running, answered>>
    BY <1>3 DEF UploadTargets, Take, Idle
  <2> QED
    BY <2>1 DEF UploadQueue, Tasks
<1>4. CASE NextTarget
  <2>1. coord.stage = "target" /\ UNCHANGED <<current, running, answered>>
    BY <1>4 DEF NextTarget
  <2>2. CASE uploadQ' = uploadQ /\ coord' = NextWanted
    BY <1>1, <2>1, <2>2, AfterTarget DEF UploadQueue, Tasks
  <2>3. CASE uploadQ' = Append(uploadQ, [op |-> "ready"]) /\ coord' = [coord EXCEPT !.stage = "ready"]
    <3>1. coord'.stage = "ready"
      BY <1>1, <2>1, <2>3, Waits DEF CoordOK
    <3>2. CASE uploadQ = <<>>
      BY <2>1, <2>3, <3>1, <3>2, Short DEF UploadQueue, Tasks
    <3>3. ASSUME NEW b, b.op = "upload", uploadQ = <<b>>, current = {}
          PROVE  UploadQueue' /\ Tasks'
      <4>1. uploadQ' = <<b, [op |-> "ready"]>>
        BY <2>3, <3>3, Short
      <4> QED
        BY <2>1, <3>1, <3>3, <4>1 DEF UploadQueue, Tasks
    <3> QED
      BY <2>1, <3>2, <3>3 DEF UploadQueue
  <2> QED
    BY <1>4, <2>2, <2>3 DEF NextTarget
<1>5. CASE Delivered
  <2>1. coord.stage = "idle" /\ coord'.stage = "forget"
        /\ UNCHANGED <<uploadQ, current, running, answered>>
    BY <1>5 DEF Delivered, Take, Idle
  <2> QED
    BY <2>1 DEF UploadQueue, Tasks
<1>6. CASE Forget
  <2>1. coord.stage = "forget" /\ coord'.stage = "idle"
        /\ UNCHANGED <<uploadQ, current, running, answered>>
    BY <1>6 DEF Forget, Idle
  <2> QED
    BY <2>1 DEF UploadQueue, Tasks
<1>7. CASE Fill
  <2>1. coord.stage = "fill" /\ coord' = NextWanted /\ UNCHANGED <<current, running, answered>>
    BY <1>7 DEF Fill
  <2>2. uploadQ = <<>> /\ current = {}
    BY <2>1 DEF UploadQueue, Tasks
  <2>3. coord'.stage \in {"target", "idle"}
    BY <1>1, <2>1, AfterTarget
  <2>4. uploadQ' = uploadQ \/ \E p : uploadQ' = Append(uploadQ, [op |-> "upload", package |-> p])
    BY <1>7 DEF Fill
  <2>5. uploadQ' = <<>> \/ \E b : b.op = "upload" /\ uploadQ' = <<b>>
    BY <2>2, <2>4, Short
  <2> QED
    BY <2>1, <2>2, <2>3, <2>5 DEF UploadQueue, Tasks
<1>8. CASE Ready
  <2>1. coord.stage = "ready" /\ Head(uploadQ).op = "ready" /\ uploadQ' = Tail(uploadQ)
        /\ UNCHANGED <<current, running, answered>>
    BY <1>8 DEF Ready
  <2>2. uploadQ' = <<>>
    <3>1. ASSUME NEW b, b.op = "upload", uploadQ = <<b, [op |-> "ready"]>> PROVE FALSE
      <4>1. Head(uploadQ) = b
        BY <3>1, Short
      <4> QED
        BY <2>1, <3>1, <4>1
    <3>2. uploadQ = <<[op |-> "ready"]>>
      BY <2>1, <3>1 DEF UploadQueue
    <3> QED
      BY <2>1, <3>2, Short
  <2>3. CASE current = {}
    <3>1. coord' = [coord EXCEPT !.stage = "fill"]
      BY <1>8, <2>1, <2>3, StageStep DEF Ready
    <3>2. coord'.stage = "fill"
      BY <1>1, <2>1, <3>1, Waits DEF CoordOK
    <3> QED
      BY <2>1, <2>2, <2>3, <3>2 DEF UploadQueue, Tasks
  <2>4. CASE current # {}
    <3>1. coord' = NextWanted
      BY <1>8, <2>1, <2>4, StageStep DEF Ready
    <3>2. coord'.stage \in {"target", "idle"}
      BY <1>1, <2>1, <3>1, AfterTarget
    <3> QED
      BY <2>1, <2>2, <3>2 DEF UploadQueue, Tasks
  <2> QED
    BY <2>3, <2>4
<1>9. CASE UploadPackage
  <2>1. uploadQ # <<>> /\ Head(uploadQ).op = "upload" /\ uploadQ' = Tail(uploadQ)
        /\ UNCHANGED <<coord, answered>>
    BY <1>9 DEF UploadPackage
  <2>2. /\ current = {}
        /\ coord.stage # "fill"
        /\ \/ coord.stage # "ready" /\ Tail(uploadQ) = <<>>
           \/ coord.stage = "ready" /\ Tail(uploadQ) = <<[op |-> "ready"]>>
    <3>1. uploadQ # <<>> /\ uploadQ # <<[op |-> "ready"]>>
      BY <2>1, Short
    <3>2. ASSUME NEW b, coord.stage \notin {"ready", "fill"}, current = {}, uploadQ = <<b>>
          PROVE  <2>2!1 /\ <2>2!2 /\ <2>2!3
      BY <3>2, Short
    <3>3. ASSUME NEW b, coord.stage = "ready", current = {}, uploadQ = <<b, [op |-> "ready"]>>
          PROVE  <2>2!1 /\ <2>2!2 /\ <2>2!3
      BY <3>3, Short
    <3> QED
      BY <3>1, <3>2, <3>3 DEF UploadQueue
  <2>3. \E p : current' = {p} /\ running' = running \cup {p}
    BY <1>9, <2>2 DEF UploadPackage
  <2>4. Tasks'
    BY <2>1, <2>2, <2>3 DEF Tasks
  <2>5. UploadQueue'
    BY <2>1, <2>2 DEF UploadQueue
  <2> QED
    BY <2>4, <2>5
<1>10. ASSUME NEW p \in running, NEW a \in Answers, Answer(p, a)
       PROVE  UploadQueue' /\ Tasks'
  <2>1. running' = running \ {p} /\ answered' = answered \cup {p}
        /\ UNCHANGED <<coord, uploadQ, current>>
    BY <1>10 DEF Answer
  <2> QED
    BY <2>1 DEF UploadQueue, Tasks
<1>11. ASSUME NEW p \in answered, TaskOver(p) PROVE UploadQueue' /\ Tasks'
  <2>1. answered' = answered \ {p} /\ current' = {} /\ UNCHANGED <<coord, uploadQ, running>>
    BY <1>11 DEF TaskOver
  <2>2. running = {} /\ answered' = {}
    BY <2>1 DEF Tasks
  <2> QED
    BY <2>1, <2>2 DEF UploadQueue, Tasks
<1>12. \/ \E e \in Events : SendEvent(e)
       \/ Store \/ RemoveEvents \/ TimerFires \/ Prioritize \/ Unprioritize
       \/ \E net \in Nets : Tick(net) \/ ForceUpload(net)
       \/ \E t \in Targets : DayPasses(t)
       \/ UNCHANGED vars
       => UNCHANGED <<coord, uploadQ, current, running, answered>>
  BY DEF SendEvent, Store, RemoveEvents, TimerFires, Prioritize, Unprioritize, Tick, ForceUpload,
         Upload, DayPasses, vars
<1> QED
  BY <1>2, <1>3, <1>4, <1>5, <1>6, <1>7, <1>8, <1>9, <1>10, <1>11, <1>12 DEF Next, Serve

\* A set of at most one element has at most one.
LEMMA Few == ASSUME NEW S, S = {} \/ \E x : S = {x} PROVE Cardinality(S) <= 1
<1>1. CASE S = {}
  <2>1. Cardinality(S) = 0
    BY <1>1, FS_EmptySet
  <2> QED
    BY <2>1
<1>2. ASSUME NEW x, S = {x} PROVE Cardinality(S) <= 1
  <2>1. Cardinality(S) = 1
    BY <1>2, FS_Singleton
  <2> QED
    BY <2>1
<1> QED
  BY <1>1, <1>2

\* The uploader has at most one package in hand, and one that it was found ready
\* for is never dropped (readyToUploadTarget, then uploadPackage), whatever the
\* events, their tiers, the networks and the answers, as long as no uploader is
\* asked about the CSH target.
THEOREM PackagesNeverDropped ==
    ASSUME CSH \notin Targets
    PROVE  Spec => []UploaderFree
<1> DEFINE Inv == TypeOK /\ UploadQueue /\ Tasks
<1>3. Init => Inv
  BY InitTypeOK, InitUploader
<1>1. Inv /\ [Next]_vars => Inv'
  BY TypeStep, UploadQueueStep
<1>2. UploadQueue /\ Tasks => UploaderFree
  <2> SUFFICES ASSUME UploadQueue, Tasks PROVE UploaderFree
    OBVIOUS
  <2>1. Cardinality(running \cup answered) <= 1
    <3>1. running \cup answered = {} \/ \E p : running \cup answered = {p}
      BY DEF Tasks
    <3> QED
      BY <3>1, Few
  <2>2. Blocks(uploadQ, "upload") = {} \/ (current = {} /\ \E b : Blocks(uploadQ, "upload") = {b})
    <3>1. Blocks(<<>>, "upload") = {} /\ Blocks(<<[op |-> "ready"]>>, "upload") = {}
      BY DEF Blocks
    <3>2. ASSUME NEW b, b.op = "upload"
          PROVE  /\ Blocks(<<b>>, "upload") = {b}
                 /\ Blocks(<<b, [op |-> "ready"]>>, "upload") = {b}
      <4>1. Blocks(<<b>>, "upload") = {b}
        BY <3>2 DEF Blocks
      <4>2. DOMAIN <<b, [op |-> "ready"]>> = {1, 2} /\ <<b, [op |-> "ready"]>>[1] = b
            /\ <<b, [op |-> "ready"]>>[2] = [op |-> "ready"]
        OBVIOUS
      <4>3. [op |-> "ready"].op # "upload"
        OBVIOUS
      <4> DEFINE q == <<b, [op |-> "ready"]>>
      <4> HIDE DEF q
      <4>4. {k \in DOMAIN q : q[k].op = "upload"} = {1}
        BY <3>2, <4>2, <4>3 DEF q
      <4>5. Blocks(q, "upload") = {b}
        BY <4>2, <4>4 DEF Blocks, q
      <4> QED
        BY <4>1, <4>5 DEF q
    <3>3. \/ uploadQ = <<>> \/ uploadQ = <<[op |-> "ready"]>>
          \/ /\ current = {}
             /\ \E b : b.op = "upload" /\ (uploadQ = <<b>> \/ uploadQ = <<b, [op |-> "ready"]>>)
      BY DEF UploadQueue
    <3>4. CASE uploadQ = <<>> \/ uploadQ = <<[op |-> "ready"]>>
      BY <3>1, <3>4
    <3>5. ASSUME NEW b, current = {}, b.op = "upload",
                 uploadQ = <<b>> \/ uploadQ = <<b, [op |-> "ready"]>>
          PROVE  current = {} /\ Blocks(uploadQ, "upload") = {b}
      BY <3>2, <3>5
    <3> QED
      BY <3>3, <3>4, <3>5
  <2>3. Cardinality(Blocks(uploadQ, "upload")) <= 1
    BY <2>2, Few
  <2> QED
    BY <2>1, <2>2, <2>3 DEF UploaderFree
<1> HIDE DEF Inv
<1>4. Inv => UploaderFree
  BY <1>2 DEF Inv
<1> QED
  BY <1>3, <1>1, <1>4, PTL DEF Spec

-----------------------------------------------------------------------------
(* Batches: no uploader is asked about the CSH target and no event is fast, so *)
(* that the prioritizer makes every package a set of its own.                  *)

Batched == CSH \notin Targets /\ \A e \in Events : QosOf[e] # "fast"

In(q) == {q[n] : n \in DOMAIN q}
Before(q, a, b) == \E m, n \in DOMAIN q : m < n /\ q[m] = a /\ q[n] = b

SentEvents == {e \in Events : sent[e] > 0}

\* No delivery of the target waits for the coordinator.
Free(t) == \A b \in In(coordQ) : b.op = "delivered" => b.package.target # t

\* The coordinator's uploads take turns: while one runs or waits no other does,
\* so what was delivered before a tick is dealt with before the tick's upload.
Turns ==
    /\ \A b \in In(coordQ) : b.op # "force" /\ (b.op = "upload" => b.targets = Registered /\ ~ b.high)
    /\ ~ coord.high
    /\ \A a, b \in In(coordQ) : Before(coordQ, a, b) =>
          /\ a.op \in {"tick", "upload"} => b.op # "upload"
          /\ a.op = "tick" => b.op # "tick"
    /\ coord.todo # <<>> => \A b \in In(coordQ) : b.op # "upload"
    /\ \A s, t \in In(coord.todo) : Before(coord.todo, s, t) => s # t
    /\ coord.stage \in {"ready", "fill"} => inflight[Wanted] = {}

\* What is delivered is the package in flight, or an empty one of a target that
\* has none and is not asked about before that delivery is dealt with.
Deliveries ==
    /\ \A b \in In(coordQ) : b.op = "delivered" =>
          /\ ~ b.package.live /\ b.package.events \subseteq SentEvents
          /\ \/ b.package \in inflight[b.package.target]
             \/ inflight[b.package.target] = {} /\ b.package.events = {}
                /\ b.package.target \notin In(coord.todo)
    /\ \A a, b \in In(coordQ) : Before(coordQ, a, b) /\ b.op = "delivered" =>
          /\ a.op = "delivered" => a.package.target # b.package.target
          /\ a.op = "upload" => b.package \in inflight[b.package.target]

\* A package is in flight from the moment it is made until its delivery is dealt
\* with; its events stay with the prioritizer and are sent once.
Flights ==
    /\ \A t \in Targets : \A p \in inflight[t] :
          ~ p.live /\ p.events # {} /\ p.events \subseteq prio[t] /\ inflight[t] = {p}
    /\ \A b \in In(uploadQ) : b.op = "upload" =>
          /\ b.package \in inflight[b.package.target] /\ Free(b.package.target)
          /\ b.package.events \cap SentEvents = {}
    /\ \A p \in running :
          p \in inflight[p.target] /\ Free(p.target) /\ p.events \subseteq SentEvents

\* The storage is told to remove the event, or is about to be.
Covered(e) ==
    \/ \E q \in coord.package : e \in q.events
    \/ \E b \in In(storageQ) : b.op = "remove" /\ e \in b.events

\* The events the prioritizer is told to remove: they were sent, the target has
\* no package, and the storage is told or has been.
Removed(p) ==
    /\ ~ p.live /\ inflight[p.target] = {} /\ p.events \subseteq SentEvents
    /\ \A e \in p.events : TargetOf[e] = p.target
    /\ \A e \in p.events \cap stored : Covered(e)

\* The prioritizer removes what was sent before it makes another package.
Removals ==
    /\ \A b \in In(prioQ) : b.op = "remove" => Removed(b.package)
    /\ \A b \in In(prioQ) : b.op = "fill" => coord.stage = "fill"
    /\ \A a, b \in In(prioQ) : Before(prioQ, a, b) /\ a.op = "fill" => b.op = "add"
    /\ \A t \in Targets : \A e \in prio[t] \cap SentEvents :
          \/ \E p \in inflight[t] : e \in p.events
          \/ \E b \in In(prioQ) : b.op = "remove" /\ e \in b.package.events
    /\ \A p, q \in coord.package : p = q
    /\ \A p \in coord.package :
          coord.stage = "forget" /\ ~ p.live /\ p.events \subseteq SentEvents

\* An event is stored once, then told to the prioritizer once, and is stored and
\* not sent until a package takes it.
Life ==
    /\ \A b \in In(storageQ) :
          /\ b.op = "store" => b.event \notin ever
          /\ b.op = "remove" => b.events \subseteq SentEvents
    /\ \A a, b \in In(storageQ) : Before(storageQ, a, b) /\ a.op = "store" /\ b.op = "store"
          => a.event # b.event
    /\ \A b \in In(prioQ) : b.op = "add" =>
          b.event \in ever \ SentEvents /\ b.event \notin prio[TargetOf[b.event]]
    /\ \A a, b \in In(prioQ) : Before(prioQ, a, b) /\ a.op = "add" /\ b.op = "add"
          => a.event # b.event
    /\ \A t \in Targets : prio[t] \subseteq ever
    /\ SentEvents \subseteq ever /\ ever \ stored \subseteq SentEvents
    /\ \A e \in Events : sent[e] <= 1

\* A stored event is with the prioritizer or on its way there, or is covered.
Remembered ==
    \A e \in stored :
        \/ e \in prio[TargetOf[e]]
        \/ \E b \in In(prioQ) : b.op = "add" /\ b.event = e
        \/ Covered(e)

IInv == /\ TypeOK /\ UploadQueue /\ Tasks
        /\ Turns /\ Deliveries /\ Flights /\ Removals /\ Life /\ Remembered

\* What a block put at the end of a queue changes of what is in it and in which order.
LEMMA Put ==
    ASSUME NEW S, NEW q \in Seq(S), NEW x
    PROVE  /\ In(Append(q, x)) = In(q) \cup {x}
           /\ \A a, b : Before(Append(q, x), a, b) => Before(q, a, b) \/ (a \in In(q) /\ b = x)
<1>1. /\ DOMAIN q = 1 .. Len(q) /\ Len(q) \in Nat /\ DOMAIN Append(q, x) = 1 .. Len(q) + 1
      /\ \A n \in 1 .. Len(q) : Append(q, x)[n] = q[n]
      /\ Append(q, x)[Len(q) + 1] = x
  <2>1. q \in Seq(S \cup {x}) /\ x \in S \cup {x}
    OBVIOUS
  <2> QED
    BY <2>1
<1> DEFINE r == Append(q, x)
<1> HIDE DEF r
<1>2. In(r) = In(q) \cup {x}
  BY <1>1 DEF In, r
<1>3. ASSUME NEW a, NEW b, Before(r, a, b) PROVE Before(q, a, b) \/ (a \in In(q) /\ b = x)
  <2>1. PICK m, n \in 1 .. Len(q) + 1 : m < n /\ r[m] = a /\ r[n] = b
    BY <1>1, <1>3 DEF Before, r
  <2>2. m \in 1 .. Len(q) /\ (n \in 1 .. Len(q) \/ n = Len(q) + 1)
    BY <1>1, <2>1
  <2> QED
    BY <1>1, <2>1, <2>2 DEF Before, In, r
<1> QED
  BY <1>2, <1>3 DEF r

\* Taking the first block of a queue takes it from what is in the queue.
LEMMA Took ==
    ASSUME NEW S, NEW q \in Seq(S), q # <<>>
    PROVE  /\ Tail(q) \in Seq(S) /\ Head(q) \in S
           /\ In(q) = {Head(q)} \cup In(Tail(q))
           /\ \A a, b : Before(Tail(q), a, b) => Before(q, a, b)
           /\ \A b \in In(Tail(q)) : Before(q, Head(q), b)
<1>1. /\ DOMAIN q = 1 .. Len(q) /\ Len(q) \in Nat \ {0}
      /\ Tail(q) \in Seq(S) /\ DOMAIN Tail(q) = 1 .. Len(q) - 1
      /\ \A n \in 1 .. Len(q) - 1 : Tail(q)[n] = q[n + 1]
      /\ Head(q) = q[1] /\ Head(q) \in S
  OBVIOUS
<1> DEFINE r == Tail(q)
<1> HIDE DEF r
<1>2. In(q) = {Head(q)} \cup In(r)
  <2>1. ASSUME NEW b \in In(q) PROVE b \in {Head(q)} \cup In(r)
    <3>1. PICK n \in 1 .. Len(q) : b = q[n]
      BY <1>1, <2>1 DEF In
    <3>2. CASE n = 1
      BY <1>1, <3>1, <3>2
    <3>3. CASE n # 1
      <4>1. n - 1 \in 1 .. Len(q) - 1 /\ r[n - 1] = q[n]
        BY <1>1, <3>3 DEF r
      <4> QED
        BY <1>1, <3>1, <4>1 DEF In, r
    <3> QED
      BY <3>2, <3>3
  <2>2. ASSUME NEW b \in In(r) PROVE b \in In(q)
    <3>1. PICK n \in 1 .. Len(q) - 1 : b = r[n]
      BY <1>1, <2>2 DEF In, r
    <3>2. n + 1 \in 1 .. Len(q) /\ b = q[n + 1]
      BY <1>1, <3>1 DEF r
    <3> QED
      BY <1>1, <3>2 DEF In
  <2>3. Head(q) \in In(q)
    BY <1>1 DEF In
  <2> QED
    BY <2>1, <2>2, <2>3
<1>3. ASSUME NEW a, NEW b, Before(r, a, b) PROVE Before(q, a, b)
  <2>1. PICK m, n \in 1 .. Len(q) - 1 : m < n /\ r[m] = a /\ r[n] = b
    BY <1>1, <1>3 DEF Before, r
  <2>2. m + 1 \in DOMAIN q /\ n + 1 \in DOMAIN q /\ m + 1 < n + 1
        /\ q[m + 1] = a /\ q[n + 1] = b
    BY <1>1, <2>1 DEF r
  <2> QED
    BY <2>2 DEF Before
<1>4. ASSUME NEW b \in In(r) PROVE Before(q, Head(q), b)
  <2>1. PICK n \in 1 .. Len(q) - 1 : b = r[n]
    BY <1>1, <1>4 DEF In, r
  <2>2. 1 \in DOMAIN q /\ n + 1 \in DOMAIN q /\ 1 < n + 1 /\ q[n + 1] = b
    BY <1>1, <2>1 DEF r
  <2> QED
    BY <1>1, <2>2 DEF Before
<1> QED
  BY <1>1, <1>2, <1>3, <1>4 DEF r

\* An empty queue has no block; what comes before or after another is in the queue.
LEMMA Empty == In(<<>>) = {} /\ \A a, b : ~ Before(<<>>, a, b)
  BY DEF In, Before

\* The registered targets are all different.
LEMMA RegisteredOnce == \A s, t : Before(Registered, s, t) => s # t
<1>1. DOMAIN Registered \subseteq Int
  BY TransportAssumption
<1> QED
  BY <1>1, TransportAssumption DEF Before

\* The coordinator's state after a target has no target twice either.
LEMMA TodoStep ==
    ASSUME CoordOK(coord), coord.stage \in {"target", "ready", "fill"},
           \A s, t \in In(coord.todo) : Before(coord.todo, s, t) => s # t
    PROVE  /\ \A s, t \in In(NextWanted.todo) : Before(NextWanted.todo, s, t) => s # t
           /\ In(NextWanted.todo) \subseteq In(coord.todo) \ {Wanted}
           /\ Wanted \in In(coord.todo)
<1>1. coord.todo \in Seq(Targets) /\ coord.todo # <<>>
  BY DEF CoordOK, CoordState
<1>2. /\ In(coord.todo) = {Wanted} \cup In(Tail(coord.todo))
      /\ \A s, t : Before(Tail(coord.todo), s, t) => Before(coord.todo, s, t)
      /\ \A t \in In(Tail(coord.todo)) : Before(coord.todo, Wanted, t)
  BY <1>1, Took DEF Wanted
<1>3. NextWanted.todo = Tail(coord.todo) \/ NextWanted.todo = <<>>
  BY AfterTarget
<1>4. CASE NextWanted.todo = Tail(coord.todo)
  BY <1>2, <1>4
<1>5. CASE NextWanted.todo = <<>>
  BY <1>2, <1>5, Empty
<1> QED
  BY <1>3, <1>4, <1>5

\* Every step keeps the turns of the coordinator's uploads.
LEMMA TurnsStep ==
    ASSUME Batched, TypeOK, Turns, [Next]_vars
    PROVE  Turns'
<1> USE DEF observers, uploader, coordinator, queues
<1>0. CoordOK(coord) /\ coordQ \in Seq(CoordBlock)
  BY DEF TypeOK, CoordOK
<1>1. CASE UNCHANGED <<coordQ, coord, inflight>>
  BY <1>1 DEF Turns, Wanted
<1>2. ASSUME NEW x, x.op \in {"tick", "delivered"}, coordQ' = Append(coordQ, x),
             x.op = "tick" => \A b \in In(coordQ) : b.op # "tick",
             UNCHANGED <<coord, inflight>>
      PROVE  Turns'
  <2>1. /\ In(coordQ') = In(coordQ) \cup {x}
        /\ \A a, b : Before(coordQ', a, b) => Before(coordQ, a, b) \/ (a \in In(coordQ) /\ b = x)
    BY <1>0, <1>2, Put
  <2>2. \A a, b \in In(coordQ') : Before(coordQ', a, b) =>
          /\ a.op \in {"tick", "upload"} => b.op # "upload"
          /\ a.op = "tick" => b.op # "tick"
    <3> SUFFICES ASSUME NEW a \in In(coordQ'), NEW b \in In(coordQ'), Before(coordQ', a, b)
                 PROVE  /\ a.op \in {"tick", "upload"} => b.op # "upload"
                        /\ a.op = "tick" => b.op # "tick"
      OBVIOUS
    <3>1. CASE Before(coordQ, a, b)
      BY <3>1 DEF Turns, Before, In
    <3>2. CASE a \in In(coordQ) /\ b = x
      BY <1>2, <3>2
    <3> QED
      BY <2>1, <3>1, <3>2
  <2> QED
    BY <1>2, <2>1, <2>2 DEF Turns, Wanted
<1>3. CASE Store
  <2>1. storageQ \in Seq(StorageBlock) /\ storageQ # <<>> /\ Head(storageQ).op = "store"
    BY <1>3 DEF Store, TypeOK
  <2>2. Head(storageQ) \in StorageBlock
    BY <2>1, Took
  <2>3. QosOf[Head(storageQ).event] # "fast"
    BY <2>1, <2>2 DEF StorageBlock, Batched
  <2> QED
    BY <1>1, <1>3, <2>3 DEF Store
<1>4. CASE TimerFires
  <2>1. \A b \in In(coordQ) : b.op # "tick"
    BY <1>4 DEF TimerFires, Blocks, In
  <2> QED
    BY <1>2, <1>4, <2>1 DEF TimerFires
<1>5. ASSUME NEW net \in Nets, Tick(net) \/ ForceUpload(net) PROVE Turns'
  <2>1. coordQ # <<>> /\ Head(coordQ) \in In(coordQ) /\ coord.stage = "idle"
    BY <1>0, <1>5, Took DEF Tick, ForceUpload, Take
  <2>2. Head(coordQ).op = "tick" /\ Upload(Registered, net, FALSE)
    BY <1>5, <2>1 DEF Tick, ForceUpload, Take, Turns
  <2> DEFINE x == [op |-> "upload", targets |-> Registered, net |-> net, high |-> FALSE]
             r == Tail(coordQ)
  <2>3. x.op = "upload" /\ x.targets = Registered /\ ~ x.high
    OBVIOUS
  <2>4. coordQ' = Append(r, x) /\ UNCHANGED <<coord, inflight>>
    BY <2>2 DEF Upload
  <2>5. /\ r \in Seq(CoordBlock)
        /\ In(coordQ) = {Head(coordQ)} \cup In(r)
        /\ \A a, b : Before(r, a, b) => Before(coordQ, a, b)
        /\ \A b \in In(r) : Before(coordQ, Head(coordQ), b)
    BY <1>0, <2>1, Took
  <2> HIDE DEF x, r
  <2>6. /\ In(coordQ') = In(r) \cup {x}
        /\ \A a, b : Before(coordQ', a, b) => Before(r, a, b) \/ (a \in In(r) /\ b = x)
    BY <2>4, <2>5, Put
  <2>7. \A b \in In(r) : b.op \notin {"tick", "upload"}
    BY <2>1, <2>2, <2>5 DEF Turns
  <2>8. \A a, b \in In(coordQ') : Before(coordQ', a, b) =>
          /\ a.op \in {"tick", "upload"} => b.op # "upload"
          /\ a.op = "tick" => b.op # "tick"
    <3> SUFFICES ASSUME NEW a \in In(coordQ'), NEW b \in In(coordQ'), Before(coordQ', a, b)
                 PROVE  a.op \notin {"tick", "upload"}
      OBVIOUS
    <3>1. a \in In(r)
      BY <2>6 DEF Before, In
    <3> QED
      BY <2>7, <3>1
  <2>9. coord.todo = <<>>
    BY <2>1 DEF TypeOK
  <2> QED
    BY <2>3, <2>4, <2>5, <2>6, <2>8, <2>9 DEF Turns, Wanted
<1>6. ASSUME NEW op, Take(op), coordQ' = Tail(coordQ)
      PROVE  /\ \A b \in In(coordQ') : b \in In(coordQ) /\ Before(coordQ, Head(coordQ), b)
             /\ Head(coordQ) \in In(coordQ)
             /\ \A a, b : Before(coordQ', a, b) => Before(coordQ, a, b)
  BY <1>0, <1>6, Took DEF Take
<1>7. CASE UploadTargets
  <2>1. Take("upload") /\ coordQ' = Tail(coordQ) /\ inflight' = inflight
        /\ coord.stage = "idle" /\ coord.todo = <<>>
    BY <1>7 DEF UploadTargets, Take, TypeOK
  <2>2. Head(coordQ).targets = Registered /\ ~ Head(coordQ).high /\ Head(coordQ).op = "upload"
    BY <1>6, <2>1 DEF Turns, Take
  <2>3. \A b \in In(coordQ') : b.op # "upload"
    BY <1>6, <2>1, <2>2 DEF Turns
  <2>4. /\ ~ coord'.high /\ coord'.stage \in {"idle", "target"}
        /\ coord'.todo = <<>> \/ coord'.todo = Registered
    BY <1>7, <2>1, <2>2 DEF UploadTargets, Idle, Turns
  <2>5. \A s, t \in In(coord'.todo) : Before(coord'.todo, s, t) => s # t
    BY <2>4, RegisteredOnce, Empty
  <2> QED
    BY <1>6, <2>1, <2>3, <2>4, <2>5 DEF Turns
<1>8. CASE Delivered
  <2>1. Take("delivered") /\ coordQ' = Tail(coordQ)
    BY <1>8 DEF Delivered
  <2>2. Head(coordQ) \in CoordBlock /\ Head(coordQ).op = "delivered"
    BY <1>0, <2>1, Took DEF Take
  <2>3. Head(coordQ).package \in Package
    BY <2>2 DEF CoordBlock
  <2>4. coord'.stage = "forget" /\ coord'.todo = <<>> /\ ~ coord'.high
    BY <1>8, <2>3, ForgetOK DEF Delivered
  <2> QED
    BY <1>6, <2>1, <2>4, Empty DEF Turns
<1>9. CASE Forget
  BY <1>9, IdleOK, Empty DEF Forget, Turns
<1>10. CASE NextTarget
  <2>1. coord.stage = "target" /\ coord.todo # <<>> /\ UNCHANGED <<coordQ, inflight>>
    BY <1>10 DEF NextTarget, TypeOK
  <2>2. CASE coord' = NextWanted
    BY <1>0, <2>1, <2>2, AfterTarget, TodoStep DEF Turns
  <2>3. CASE inflight[Wanted] = {} /\ coord' = [coord EXCEPT !.stage = "ready"]
    BY <1>0, <2>1, <2>3, Waits DEF Turns, Wanted
  <2> QED
    BY <1>10, <2>2, <2>3 DEF NextTarget
<1>11. CASE Ready
  <2>1. coord.stage = "ready" /\ coord.todo # <<>> /\ UNCHANGED <<coordQ, inflight>>
    BY <1>11 DEF Ready, TypeOK
  <2>2. CASE coord' = NextWanted
    BY <1>0, <2>1, <2>2, AfterTarget, TodoStep DEF Turns
  <2>3. CASE coord' = [coord EXCEPT !.stage = "fill"]
    BY <1>0, <2>1, <2>3, Waits DEF Turns, Wanted
  <2> QED
    BY <1>11, <2>2, <2>3 DEF Ready
<1>12. CASE Fill
  <2>1. coord.stage = "fill" /\ coord.todo # <<>> /\ coord' = NextWanted
    BY <1>12 DEF Fill, TypeOK
  <2>2. coordQ' = coordQ \/ \E p : coordQ' = Append(coordQ, [op |-> "delivered", package |-> p])
    BY <1>12 DEF Fill, Tell
  <2>3. \A b \in In(coordQ') : b.op \notin {"upload", "force"}
    <3>1. \A p, b : b \in In(Append(coordQ, [op |-> "delivered", package |-> p])) =>
             b \in In(coordQ) \/ b.op = "delivered"
      BY <1>0, Put
    <3> QED
      BY <2>1, <2>2, <3>1 DEF Turns
  <2>4. \A a, b \in In(coordQ') : Before(coordQ', a, b) /\ b.op = "tick" => a.op # "tick"
    <3>1. ASSUME NEW p, coordQ' = Append(coordQ, [op |-> "delivered", package |-> p]),
                 NEW a, NEW b, Before(coordQ', a, b), b.op = "tick"
          PROVE  a.op # "tick"
      <4>1. Before(coordQ, a, b) \/ b = [op |-> "delivered", package |-> p]
        BY <1>0, <3>1, Put
      <4>2. Before(coordQ, a, b)
        BY <3>1, <4>1
      <4> QED
        BY <3>1, <4>2 DEF Turns, Before, In
    <3> QED
      BY <2>2, <3>1 DEF Turns
  <2> QED
    BY <1>0, <2>1, <2>3, <2>4, AfterTarget, TodoStep DEF Turns
<1>13. ASSUME NEW p \in running, NEW a \in Answers, Answer(p, a) PROVE Turns'
  BY <1>2, <1>13 DEF Answer, Tell
<1>14. \/ \E e \in Events : SendEvent(e)
       \/ RemoveEvents \/ Prioritize \/ Unprioritize \/ UploadPackage
       \/ \E p \in answered : TaskOver(p)
       \/ \E t \in Targets : DayPasses(t)
       \/ UNCHANGED vars
       => UNCHANGED <<coordQ, coord, inflight>>
  BY DEF SendEvent, RemoveEvents, Prioritize, Unprioritize, UploadPackage, TaskOver, DayPasses, vars
<1> QED
  BY <1>1, <1>3, <1>4, <1>5, <1>7, <1>8, <1>9, <1>10, <1>11, <1>12, <1>13, <1>14 DEF Next, Serve

\* The packages of the blocks are packages.
LEMMA BlockPackages ==
    ASSUME TypeOK
    PROVE  /\ \A b \in In(coordQ) : b.op = "delivered" =>
                 b.package \in Package /\ b.package.target \in Targets
           /\ \A b \in In(uploadQ) : b.op = "upload" =>
                 b.package \in Package /\ b.package.target \in Targets
           /\ \A b \in In(prioQ) : b.op = "remove" =>
                 b.package \in Package /\ b.package.target \in Targets
<1>1. In(coordQ) \subseteq CoordBlock /\ In(uploadQ) \subseteq UploadBlock
      /\ In(prioQ) \subseteq PrioBlock
  BY DEF TypeOK, In
<1>2. \A p \in Package : p.target \in Targets
  BY DEF Package
<1>3. \A b \in CoordBlock : b.op = "delivered" => b.package \in Package
  BY DEF CoordBlock
<1>4. \A b \in UploadBlock : b.op = "upload" => b.package \in Package
  BY DEF UploadBlock
<1>5. \A b \in PrioBlock : b.op = "remove" => b.package \in Package
  BY DEF PrioBlock
<1> QED
  BY <1>1, <1>2, <1>3, <1>4, <1>5

\* What the coordinator does with the package it asked for: the events are the
\* package's own.
LEMMA FillEffect ==
    ASSUME Batched, TypeOK, Turns, Fill
    PROVE  /\ coord.stage = "fill" /\ CoordOK(coord) /\ coord.todo # <<>> /\ Wanted \in Targets
           /\ coord' = NextWanted /\ UNCHANGED <<stored, prio, sent, ever, storageQ>>
           /\ UNCHANGED <<current, running, answered>>
           /\ prioQ # <<>> /\ Head(prioQ).op = "fill" /\ prioQ' = Tail(prioQ)
           /\ \E p \in Package :
                 /\ p.target = Wanted /\ ~ p.live /\ p.events \subseteq prio[Wanted]
                 /\ \/ p.events = {} /\ coordQ' = Append(coordQ, [op |-> "delivered", package |-> p])
                       /\ UNCHANGED <<inflight, uploadQ>>
                    \/ p.events # {} /\ inflight' = [inflight EXCEPT ![Wanted] = {p}]
                       /\ uploadQ' = Append(uploadQ, [op |-> "upload", package |-> p])
                       /\ UNCHANGED coordQ
<1>1. coord.stage = "fill" /\ CoordOK(coord) /\ coord.todo # <<>>
  BY DEF TypeOK, CoordOK, Fill
<1>2. Wanted \in Targets
  BY <1>1, WantedTarget
<1>3. ~ (Wanted = CSH \/ coord.high)
  BY <1>2 DEF Batched, Turns
<1> DEFINE events == EventsFor(Wanted, coord.net)
           p == [target |-> Wanted, live |-> FALSE, events |-> events]
<1>4. events \subseteq prio[Wanted] /\ prio[Wanted] \subseteq Events
  BY <1>2 DEF EventsFor, TypeOK
<1> HIDE DEF events
<1>5. p \in Package /\ p.target = Wanted /\ p.live = FALSE /\ p.events = events
  BY <1>2, <1>4 DEF Package
<1>6. /\ \/ p.events = {} /\ coordQ' = Append(coordQ, [op |-> "delivered", package |-> p])
            /\ UNCHANGED <<inflight, uploadQ>>
         \/ p.events # {} /\ inflight' = [inflight EXCEPT ![Wanted] = {p}]
            /\ uploadQ' = Append(uploadQ, [op |-> "upload", package |-> p])
            /\ UNCHANGED coordQ
  BY <1>3 DEF Fill, Tell, events
<1> HIDE DEF p
<1>7. /\ coord' = NextWanted /\ UNCHANGED <<stored, prio, sent, ever, storageQ>>
      /\ UNCHANGED <<current, running, answered>>
      /\ prioQ # <<>> /\ Head(prioQ).op = "fill" /\ prioQ' = Tail(prioQ)
  BY DEF Fill, uploader, observers
<1> QED
  BY <1>1, <1>2, <1>4, <1>5, <1>6, <1>7

\* What the coordinator does with a delivery.
LEMMA DeliveredEffect ==
    ASSUME TypeOK, Delivered
    PROVE  /\ coord.stage = "idle" /\ coordQ # <<>> /\ Head(coordQ).op = "delivered"
           /\ coordQ' = Tail(coordQ) /\ Head(coordQ) \in In(coordQ)
           /\ Head(coordQ).package \in Package /\ Head(coordQ).package.target \in Targets
           /\ inflight' = [inflight EXCEPT ![Head(coordQ).package.target] = {}]
           /\ prioQ' = Append(prioQ, [op |-> "remove", package |-> Head(coordQ).package])
           /\ coord'.stage = "forget" /\ coord'.todo = <<>>
           /\ coord'.package = {Head(coordQ).package}
           /\ UNCHANGED <<storageQ, uploadQ, stored, prio, sent, ever>>
           /\ UNCHANGED <<current, running, answered>>
<1>1. /\ coord.stage = "idle" /\ coordQ # <<>> /\ Head(coordQ).op = "delivered"
      /\ coordQ' = Tail(coordQ)
      /\ inflight' = [inflight EXCEPT ![Head(coordQ).package.target] = {}]
      /\ prioQ' = Append(prioQ, [op |-> "remove", package |-> Head(coordQ).package])
      /\ coord' = [Idle EXCEPT !.stage = "forget", !.package = {Head(coordQ).package}]
      /\ UNCHANGED <<storageQ, uploadQ, stored, prio, sent, ever>>
      /\ UNCHANGED <<current, running, answered>>
  BY DEF Delivered, Take, uploader, observers
<1>2. Head(coordQ) \in CoordBlock /\ Head(coordQ) \in In(coordQ)
  BY <1>1, Took DEF TypeOK
<1>3. Head(coordQ).package \in Package
  BY <1>1, <1>2 DEF CoordBlock
<1>4. Head(coordQ).package.target \in Targets
  BY <1>3 DEF Package
<1> QED
  BY <1>1, <1>2, <1>3, <1>4, ForgetOK

\* What the uploader does with a package that waits for it: its turn comes when
\* there is no other.
LEMMA UploadEffect ==
    ASSUME TypeOK, UploadQueue, UploadPackage
    PROVE  /\ current = {} /\ uploadQ # <<>> /\ Head(uploadQ).op = "upload"
           /\ Head(uploadQ) \in In(uploadQ) /\ Head(uploadQ).package \in Package
           /\ \A b \in In(uploadQ') : b.op = "ready"
           /\ running' = running \cup {Head(uploadQ).package}
           /\ sent' = [e \in Events |-> IF e \in EventsOf(Head(uploadQ).package) /\ sent[e] < 2
                                        THEN sent[e] + 1 ELSE sent[e]]
           /\ UNCHANGED <<storageQ, coordQ, prioQ, stored, prio, coord, inflight, answered, ever>>
<1>1. /\ uploadQ # <<>> /\ Head(uploadQ).op = "upload" /\ uploadQ' = Tail(uploadQ)
      /\ UNCHANGED <<storageQ, coordQ, prioQ, stored, prio, coord, inflight, answered, ever>>
  BY DEF UploadPackage, coordinator
<1>2. Head(uploadQ) \in UploadBlock /\ Head(uploadQ) \in In(uploadQ)
  BY <1>1, Took DEF TypeOK
<1>3. Head(uploadQ).package \in Package
  BY <1>1, <1>2 DEF UploadBlock
<1>4. current = {} /\ (Tail(uploadQ) = <<>> \/ Tail(uploadQ) = <<[op |-> "ready"]>>)
  <2>1. ASSUME uploadQ = <<[op |-> "ready"]>> PROVE FALSE
    <3>1. Head(uploadQ) = [op |-> "ready"]
      BY <2>1, Short
    <3> QED
      BY <1>1, <3>1
  <2>2. ASSUME NEW b, current = {}, uploadQ = <<b>> \/ uploadQ = <<b, [op |-> "ready"]>>
        PROVE  Tail(uploadQ) = <<>> \/ Tail(uploadQ) = <<[op |-> "ready"]>>
    <3>1. Tail(<<b>>) = <<>> /\ Tail(<<b, [op |-> "ready"]>>) = <<[op |-> "ready"]>>
      BY Short
    <3> QED
      BY <2>2, <3>1
  <2>3. current = {} /\ \E b : uploadQ = <<b>> \/ uploadQ = <<b, [op |-> "ready"]>>
    BY <1>1, <2>1 DEF UploadQueue
  <2> QED
    BY <2>2, <2>3
<1>5. \A b \in In(uploadQ') : b.op = "ready"
  <2>1. \A b \in In(<<[op |-> "ready"]>>) : b.op = "ready"
    BY DEF In
  <2> QED
    BY <1>1, <1>4, <2>1, Empty
<1>6. /\ running' = running \cup {Head(uploadQ).package}
      /\ sent' = [e \in Events |-> IF e \in EventsOf(Head(uploadQ).package) /\ sent[e] < 2
                                   THEN sent[e] + 1 ELSE sent[e]]
  BY <1>4 DEF UploadPackage
<1> QED
  BY <1>1, <1>2, <1>3, <1>4, <1>5, <1>6

\* No event becomes unsent.
LEMMA SentGrows ==
    ASSUME TypeOK, UploadQueue, [Next]_vars
    PROVE  SentEvents \subseteq SentEvents' /\ (sent' = sent \/ UploadPackage)
<1> USE DEF observers, uploader, coordinator, queues
<1>1. sent' = sent \/ UploadPackage
  BY DEF Next, Serve, SendEvent, Store, RemoveEvents, TimerFires, Tick, ForceUpload, Upload,
         UploadTargets, NextTarget, Delivered, Forget, Prioritize, Unprioritize, Fill, Ready,
         TaskOver, Answer, DayPasses, vars
<1>2. CASE UploadPackage
  <2>1. sent \in [Events -> 0 .. 2]
    BY DEF TypeOK
  <2>2. \A S : \A e \in Events : sent[e] > 0 =>
          [d \in Events |-> IF d \in S /\ sent[d] < 2 THEN sent[d] + 1 ELSE sent[d]][e] > 0
    BY <2>1
  <2> QED
    <3>1. \A e \in Events : sent[e] > 0 => sent'[e] > 0
      BY <1>2, <2>2, UploadEffect
    <3> QED
      BY <1>2, <3>1 DEF SentEvents
<1>3. CASE sent' = sent
  BY <1>3 DEF SentEvents
<1> QED
  BY <1>1, <1>2, <1>3

\* Every step keeps what is known of the deliveries.
LEMMA DeliveriesStep ==
    ASSUME Batched, TypeOK, UploadQueue, Tasks, Turns, Deliveries, Flights, [Next]_vars
    PROVE  Deliveries'
<1> USE DEF observers, uploader, coordinator, queues
<1>0. CoordOK(coord) /\ coordQ \in Seq(CoordBlock) /\ SentEvents \subseteq SentEvents'
  BY SentGrows DEF TypeOK, CoordOK
<1>1. ASSUME coordQ' = coordQ, inflight' = inflight, In(coord'.todo) \subseteq In(coord.todo)
      PROVE  Deliveries'
  BY <1>0, <1>1 DEF Deliveries
\* A block put behind the others, when no package's state changes.
<1>2. ASSUME NEW x, coordQ' = Append(coordQ, x), inflight' = inflight,
             In(coord'.todo) \subseteq In(coord.todo),
             x.op = "delivered" =>
                /\ ~ x.package.live /\ x.package.events \subseteq SentEvents
                /\ Free(x.package.target)
                /\ \/ x.package \in inflight[x.package.target]
                   \/ /\ inflight[x.package.target] = {} /\ x.package.events = {}
                      /\ x.package.target \notin In(coord'.todo)
                      /\ \A b \in In(coordQ) : b.op # "upload"
      PROVE  Deliveries'
  <2>1. /\ In(coordQ') = In(coordQ) \cup {x}
        /\ \A a, b : Before(coordQ', a, b) => Before(coordQ, a, b) \/ (a \in In(coordQ) /\ b = x)
    BY <1>0, <1>2, Put
  <2>2. ASSUME NEW b \in In(coordQ'), b.op = "delivered"
        PROVE  /\ ~ b.package.live /\ b.package.events \subseteq SentEvents'
               /\ \/ b.package \in inflight'[b.package.target]
                  \/ inflight'[b.package.target] = {} /\ b.package.events = {}
                     /\ b.package.target \notin In(coord'.todo)
    <3>1. CASE b \in In(coordQ)
      BY <1>0, <1>2, <2>2, <3>1 DEF Deliveries
    <3>2. CASE b = x
      BY <1>0, <1>2, <2>2, <3>2
    <3> QED
      BY <2>1, <3>1, <3>2
  <2>3. ASSUME NEW a \in In(coordQ'), NEW b \in In(coordQ'), Before(coordQ', a, b),
               b.op = "delivered"
        PROVE  /\ a.op = "delivered" => a.package.target # b.package.target
               /\ a.op = "upload" => b.package \in inflight'[b.package.target]
    <3>1. CASE Before(coordQ, a, b)
      <4>1. a \in In(coordQ) /\ b \in In(coordQ)
        BY <3>1 DEF Before, In
      <4> QED
        BY <1>2, <2>3, <3>1, <4>1 DEF Deliveries
    <3>2. CASE a \in In(coordQ) /\ b = x
      BY <1>2, <2>3, <3>2 DEF Free
    <3> QED
      BY <2>1, <2>3, <3>1, <3>2
  <2> QED
    BY <2>2, <2>3 DEF Deliveries
<1>3. CASE Store
  <2>1. storageQ \in Seq(StorageBlock) /\ storageQ # <<>> /\ Head(storageQ).op = "store"
    BY <1>3 DEF Store, TypeOK
  <2>2. Head(storageQ) \in StorageBlock
    BY <2>1, Took
  <2>3. QosOf[Head(storageQ).event] # "fast"
    BY <2>1, <2>2 DEF StorageBlock, Batched
  <2> QED
    BY <1>1, <1>3, <2>3 DEF Store
<1>4. CASE TimerFires
  BY <1>2, <1>4 DEF TimerFires
<1>5. ASSUME NEW net \in Nets, Tick(net) \/ ForceUpload(net) PROVE Deliveries'
  <2>1. coordQ # <<>> /\ UNCHANGED <<coord, inflight>>
        /\ \E x : x.op = "upload" /\ coordQ' = Append(Tail(coordQ), x)
    BY <1>5 DEF Tick, ForceUpload, Take, Upload
  <2>2. PICK x : x.op = "upload" /\ coordQ' = Append(Tail(coordQ), x)
    BY <2>1
  <2> DEFINE r == Tail(coordQ)
  <2>3. /\ r \in Seq(CoordBlock)
        /\ In(coordQ) = {Head(coordQ)} \cup In(r)
        /\ \A a, b : Before(r, a, b) => Before(coordQ, a, b)
    BY <1>0, <2>1, Took
  <2> HIDE DEF r
  <2>4. /\ In(coordQ') = In(r) \cup {x}
        /\ \A a, b : Before(coordQ', a, b) => Before(r, a, b) \/ (a \in In(r) /\ b = x)
    BY <2>2, <2>3, Put DEF r
  <2>5. ASSUME NEW a \in In(coordQ'), NEW b \in In(coordQ'), Before(coordQ', a, b),
               b.op = "delivered"
        PROVE  Before(coordQ, a, b) /\ a \in In(coordQ) /\ b \in In(coordQ)
    <3>1. Before(coordQ, a, b)
      BY <2>2, <2>3, <2>4, <2>5
    <3> QED
      BY <3>1 DEF Before, In
  <2>6. \A b \in In(coordQ') : b.op = "delivered" => b \in In(coordQ)
    BY <2>2, <2>3, <2>4
  <2> QED
    BY <1>0, <2>1, <2>5, <2>6 DEF Deliveries
<1>6. CASE UploadTargets
  <2>1. coordQ # <<>> /\ Head(coordQ).op = "upload" /\ coordQ' = Tail(coordQ)
        /\ inflight' = inflight /\ coord.todo = <<>>
    BY <1>6 DEF UploadTargets, Take, TypeOK
  <2>2. /\ In(coordQ) = {Head(coordQ)} \cup In(coordQ')
        /\ \A a, b : Before(coordQ', a, b) => Before(coordQ, a, b)
        /\ \A b \in In(coordQ') : Before(coordQ, Head(coordQ), b)
    BY <1>0, <2>1, Took
  <2>3. \A b \in In(coordQ') : b.op = "delivered" =>
           b.package \in inflight[b.package.target]
    BY <2>1, <2>2 DEF Deliveries
  <2> QED
    BY <1>0, <2>1, <2>2, <2>3 DEF Deliveries
<1>7. CASE Delivered
  <2> DEFINE p == Head(coordQ).package
  <2>1. /\ coordQ # <<>> /\ Head(coordQ).op = "delivered" /\ coordQ' = Tail(coordQ)
        /\ p.target \in Targets /\ inflight' = [inflight EXCEPT ![p.target] = {}]
        /\ coord'.todo = <<>>
    BY <1>7, DeliveredEffect
  <2>2. /\ In(coordQ) = {Head(coordQ)} \cup In(coordQ')
        /\ \A a, b : Before(coordQ', a, b) => Before(coordQ, a, b)
        /\ \A b \in In(coordQ') : Before(coordQ, Head(coordQ), b)
    BY <1>0, <2>1, Took
  <2>3. \A b \in In(coordQ') : b.op = "delivered" => b.package.target # p.target
    BY <2>1, <2>2 DEF Deliveries
  <2>4. \A t \in Targets : t # p.target => inflight'[t] = inflight[t]
    <3>1. inflight \in [Targets -> SUBSET Package]
      BY DEF TypeOK
    <3> QED
      BY <2>1, <3>1
  <2> QED
    BY <1>0, <2>1, <2>2, <2>3, <2>4, Empty, BlockPackages DEF Deliveries
<1>8. CASE Forget
  <2>1. UNCHANGED <<coordQ, inflight>> /\ In(coord'.todo) = {}
    BY <1>8, IdleOK, Empty DEF Forget
  <2> QED
    BY <1>1, <2>1
<1>9. ASSUME NextTarget \/ Ready, inflight' = inflight, coordQ' = coordQ PROVE Deliveries'
  <2>1. coord.todo # <<>> /\ coord.stage \in {"target", "ready"}
    BY <1>9 DEF NextTarget, Ready, TypeOK
  <2>2. coord' = NextWanted \/ \E stage \in {"ready", "fill"} : coord' = [coord EXCEPT !.stage = stage]
    BY <1>9 DEF NextTarget, Ready
  <2>3. In(coord'.todo) \subseteq In(coord.todo)
    BY <1>0, <2>1, <2>2, Waits, TodoStep DEF Turns
  <2> QED
    BY <1>1, <1>9, <2>3
<1>10. CASE Fill
  <2>1. /\ coord.stage = "fill" /\ Wanted \in Targets /\ coord' = NextWanted /\ sent' = sent
    BY <1>10, FillEffect
  <2>2. PICK p \in Package :
           /\ p.target = Wanted /\ ~ p.live
           /\ \/ p.events = {} /\ coordQ' = Append(coordQ, [op |-> "delivered", package |-> p])
                 /\ inflight' = inflight
              \/ inflight' = [inflight EXCEPT ![Wanted] = {p}] /\ coordQ' = coordQ
    BY <1>10, FillEffect
  <2>3. inflight[Wanted] = {} /\ \A b \in In(coordQ) : b.op # "upload"
    BY <2>1 DEF Turns, TypeOK
  <2>4. In(coord'.todo) \subseteq In(coord.todo) \ {Wanted} /\ Wanted \in In(coord.todo)
    BY <1>0, <2>1, TodoStep DEF Turns
  <2>5. Free(Wanted)
    BY <2>3, <2>4 DEF Deliveries, Free
  <2>6. CASE p.events = {} /\ coordQ' = Append(coordQ, [op |-> "delivered", package |-> p])
             /\ inflight' = inflight
    <3> DEFINE x == [op |-> "delivered", package |-> p]
    <3>1. x.op = "delivered" /\ x.package = p
      OBVIOUS
    <3> HIDE DEF x
    <3> QED
      BY <1>2, <2>2, <2>3, <2>4, <2>5, <2>6, <3>1 DEF x
  <2>7. CASE inflight' = [inflight EXCEPT ![Wanted] = {p}] /\ coordQ' = coordQ
    <3>1. \A t \in Targets : t # Wanted => inflight'[t] = inflight[t]
      <4>1. inflight \in [Targets -> SUBSET Package]
        BY DEF TypeOK
      <4> QED
        BY <2>7, <4>1
    <3>2. \A b \in In(coordQ) : b.op = "delivered" => inflight'[b.package.target] = inflight[b.package.target]
      BY <2>5, <3>1, BlockPackages DEF Free
    <3> QED
      BY <1>0, <2>4, <2>7, <3>2 DEF Deliveries
  <2> QED
    BY <2>2, <2>6, <2>7
<1>11. ASSUME NEW p \in running, NEW a \in Answers, Answer(p, a) PROVE Deliveries'
  <2> DEFINE x == [op |-> "delivered", package |-> p]
  <2>1. x.op = "delivered" /\ x.package = p
    OBVIOUS
  <2>2. coordQ' = Append(coordQ, x) /\ UNCHANGED <<inflight, coord>>
    BY <1>11 DEF Answer, Tell
  <2> HIDE DEF x
  <2>3. p.target \in Targets /\ p \in inflight[p.target] /\ ~ p.live
        /\ Free(p.target) /\ p.events \subseteq SentEvents
    BY DEF Flights, TypeOK, Package
  <2> QED
    BY <1>2, <2>1, <2>2, <2>3
<1>12. \/ \E e \in Events : SendEvent(e)
       \/ RemoveEvents \/ Prioritize \/ Unprioritize \/ UploadPackage
       \/ \E p \in answered : TaskOver(p)
       \/ \E t \in Targets : DayPasses(t)
       \/ UNCHANGED vars
       => UNCHANGED <<coordQ, coord, inflight>>
  BY DEF SendEvent, RemoveEvents, Prioritize, Unprioritize, UploadPackage, TaskOver, DayPasses, vars
<1>13. NextTarget \/ Ready => inflight' = inflight /\ coordQ' = coordQ
  BY DEF NextTarget, Ready
<1> QED
  BY <1>1, <1>3, <1>4, <1>5, <1>6, <1>7, <1>8, <1>9, <1>10, <1>11, <1>12, <1>13 DEF Next, Serve

\* Only an empty package or an answer puts a delivery in the coordinator's queue.
LEMMA NewDelivery ==
    ASSUME TypeOK, [Next]_vars,
           ~ Fill, ~ \E p \in running, a \in Answers : Answer(p, a)
    PROVE  \A b \in In(coordQ') : b.op = "delivered" => b \in In(coordQ)
<1> USE DEF observers, uploader, coordinator, queues
<1>0. coordQ \in Seq(CoordBlock)
  BY DEF TypeOK
<1>1. ASSUME NEW x, x.op # "delivered", coordQ' = Append(coordQ, x)
      PROVE  \A b \in In(coordQ') : b.op = "delivered" => b \in In(coordQ)
  BY <1>0, <1>1, Put
<1>2. ASSUME coordQ # <<>>, coordQ' = Tail(coordQ)
      PROVE  \A b \in In(coordQ') : b \in In(coordQ)
  BY <1>0, <1>2, Took
<1>3. ASSUME coordQ # <<>>, NEW x, x.op # "delivered", coordQ' = Append(Tail(coordQ), x)
      PROVE  \A b \in In(coordQ') : b.op = "delivered" => b \in In(coordQ)
  <2> DEFINE r == Tail(coordQ)
  <2>1. r \in Seq(CoordBlock) /\ In(r) \subseteq In(coordQ)
    BY <1>0, <1>3, Took
  <2> HIDE DEF r
  <2>2. In(coordQ') = In(r) \cup {x}
    BY <1>3, <2>1, Put DEF r
  <2> QED
    BY <1>3, <2>1, <2>2
<1>4. CASE Store
  <2>1. coordQ' = coordQ \/ \E x : x.op # "delivered" /\ coordQ' = Append(coordQ, x)
    BY <1>4 DEF Store
  <2> QED
    BY <1>1, <2>1
<1>5. CASE TimerFires
  BY <1>1, <1>5 DEF TimerFires
<1>6. ASSUME NEW net \in Nets, Tick(net) \/ ForceUpload(net)
      PROVE  \A b \in In(coordQ') : b.op = "delivered" => b \in In(coordQ)
  <2>1. coordQ # <<>> /\ \E x : x.op # "delivered" /\ coordQ' = Append(Tail(coordQ), x)
    BY <1>6 DEF Tick, ForceUpload, Take, Upload
  <2> QED
    BY <1>3, <2>1
<1>7. CASE UploadTargets \/ Delivered
  BY <1>2, <1>7 DEF UploadTargets, Delivered, Take
<1>8. \/ \E e \in Events : SendEvent(e)
      \/ RemoveEvents \/ NextTarget \/ Forget \/ Prioritize \/ Unprioritize \/ Ready
      \/ UploadPackage
      \/ \E p \in answered : TaskOver(p)
      \/ \E t \in Targets : DayPasses(t)
      \/ UNCHANGED vars
      => coordQ' = coordQ
  BY DEF SendEvent, RemoveEvents, NextTarget, Forget, Prioritize, Unprioritize, Ready,
         UploadPackage, TaskOver, DayPasses, vars
<1> QED
  BY <1>4, <1>5, <1>6, <1>7, <1>8 DEF Next, Serve

\* Only a package with events puts a block for it in the uploader's queue.
LEMMA NewUpload ==
    ASSUME TypeOK, UploadQueue, [Next]_vars, ~ Fill
    PROVE  \A b \in In(uploadQ') : b.op = "upload" => b \in In(uploadQ)
<1> USE DEF observers, uploader, coordinator, queues
<1>0. uploadQ \in Seq(UploadBlock)
  BY DEF TypeOK
<1>1. CASE NextTarget
  <2>1. uploadQ' = uploadQ \/ uploadQ' = Append(uploadQ, [op |-> "ready"])
    BY <1>1 DEF NextTarget
  <2> DEFINE x == [op |-> "ready"]
  <2>2. x.op = "ready"
    OBVIOUS
  <2> HIDE DEF x
  <2>3. In(Append(uploadQ, x)) = In(uploadQ) \cup {x}
    BY <1>0, Put
  <2> QED
    BY <2>1, <2>2, <2>3 DEF x
<1>2. CASE Ready \/ UploadPackage
  <2>1. uploadQ # <<>> /\ uploadQ' = Tail(uploadQ)
    BY <1>2 DEF Ready, UploadPackage
  <2> QED
    BY <1>0, <2>1, Took
<1>3. \/ \E e \in Events : SendEvent(e)
      \/ Store \/ RemoveEvents \/ TimerFires \/ UploadTargets \/ Delivered \/ Forget
      \/ Prioritize \/ Unprioritize
      \/ \E net \in Nets : Tick(net) \/ ForceUpload(net)
      \/ \E p \in running, a \in Answers : Answer(p, a)
      \/ \E p \in answered : TaskOver(p)
      \/ \E t \in Targets : DayPasses(t)
      \/ UNCHANGED vars
      => uploadQ' = uploadQ
  BY DEF SendEvent, Store, RemoveEvents, TimerFires, UploadTargets, Delivered, Forget, Prioritize,
         Unprioritize, Tick, ForceUpload, Upload, Answer, TaskOver, DayPasses, vars
<1> QED
  BY <1>1, <1>2, <1>3 DEF Next, Serve

\* What the prioritizer is told to add.
LEMMA PrioritizeEffect ==
    ASSUME TypeOK, Prioritize
    PROVE  /\ prioQ # <<>> /\ Head(prioQ).op = "add" /\ prioQ' = Tail(prioQ)
           /\ Head(prioQ) \in In(prioQ)
           /\ Head(prioQ).event \in Events /\ TargetOf[Head(prioQ).event] \in Targets
           /\ \A t \in Targets : prio'[t] = IF t = TargetOf[Head(prioQ).event]
                                            THEN prio[t] \cup {Head(prioQ).event} ELSE prio[t]
           /\ UNCHANGED <<storageQ, stored, ever, sent, inflight, coord>>
<1>1. /\ prioQ # <<>> /\ Head(prioQ).op = "add" /\ prioQ' = Tail(prioQ)
      /\ prio' = [prio EXCEPT ![TargetOf[Head(prioQ).event]] = @ \cup {Head(prioQ).event}]
      /\ UNCHANGED <<storageQ, stored, ever, sent, inflight, coord>>
  BY DEF Prioritize, observers, coordinator
<1>2. Head(prioQ) \in PrioBlock /\ Head(prioQ) \in In(prioQ)
  BY <1>1, Took DEF TypeOK
<1>3. Head(prioQ).event \in Events
  BY <1>1, <1>2 DEF PrioBlock
<1>4. TargetOf[Head(prioQ).event] \in Targets
  BY <1>3, TransportAssumption
<1>5. prio \in [Targets -> SUBSET Events]
  BY DEF TypeOK
<1> QED
  BY <1>1, <1>2, <1>3, <1>4, <1>5

\* What the prioritizer is told to remove, which has no package in flight.
LEMMA UnprioritizeEffect ==
    ASSUME TypeOK, Flights, Removals, Unprioritize
    PROVE  /\ prioQ # <<>> /\ Head(prioQ).op = "remove" /\ prioQ' = Tail(prioQ)
           /\ Head(prioQ) \in In(prioQ) /\ Removed(Head(prioQ).package)
           /\ \A t \in Targets : prio'[t] = prio[t] \ Head(prioQ).package.events
           /\ \A t \in Targets : \A p \in inflight[t] : p.events \subseteq prio'[t]
           /\ UNCHANGED <<storageQ, stored, ever, sent, inflight, coord>>
<1>1. /\ prioQ # <<>> /\ Head(prioQ).op = "remove" /\ prioQ' = Tail(prioQ)
      /\ prio' = [t \in Targets |-> prio[t] \ EventsOf(Head(prioQ).package)]
      /\ UNCHANGED <<storageQ, stored, ever, sent, inflight, coord>>
  BY DEF Unprioritize, observers, coordinator
<1>2. Head(prioQ) \in In(prioQ)
  BY <1>1, Took DEF TypeOK
<1>3. Removed(Head(prioQ).package)
  BY <1>1, <1>2 DEF Removals
<1>4. \A t \in Targets : prio'[t] = prio[t] \ Head(prioQ).package.events
  BY <1>1, <1>3 DEF EventsOf, Removed
<1>5. ASSUME NEW t \in Targets, NEW p \in inflight[t] PROVE p.events \subseteq prio'[t]
  <2>1. t # Head(prioQ).package.target
    BY <1>3 DEF Removed
  <2>2. p.events \subseteq prio[t] /\ prio[t] \subseteq Events
    BY DEF Flights, TypeOK
  <2>3. \A e \in prio[t] : TargetOf[e] = t
    BY <2>2 DEF TypeOK
  <2> QED
    BY <1>3, <1>4, <2>1, <2>2, <2>3 DEF Removed
<1> QED
  BY <1>1, <1>2, <1>3, <1>4, <1>5

\* Every step keeps what is known of the packages in flight.
LEMMA FlightsStep ==
    ASSUME Batched, TypeOK, UploadQueue, Tasks, Turns, Deliveries, Flights, Removals, [Next]_vars
    PROVE  Flights'
<1> USE DEF observers, uploader, coordinator, queues
<1>1. CASE /\ inflight' = inflight /\ sent' = sent /\ running' \subseteq running
           /\ \A t \in Targets : \A p \in inflight[t] : p.events \subseteq prio'[t]
           /\ ~ Fill /\ ~ \E p \in running, a \in Answers : Answer(p, a)
  <2>1. \A b \in In(uploadQ') : b.op = "upload" => b \in In(uploadQ)
    BY <1>1, NewUpload
  <2>2. \A t : Free(t) => Free(t)'
    BY <1>1, NewDelivery DEF Free
  <2>3. SentEvents' = SentEvents
    BY <1>1 DEF SentEvents
  <2> QED
    BY <1>1, <2>1, <2>2, <2>3 DEF Flights
<1>2. CASE Delivered
  <2> DEFINE p == Head(coordQ).package
  <2>1. /\ coordQ # <<>> /\ Head(coordQ).op = "delivered" /\ coordQ' = Tail(coordQ)
        /\ p.target \in Targets /\ inflight' = [inflight EXCEPT ![p.target] = {}]
        /\ Head(coordQ) \in In(coordQ)
        /\ UNCHANGED <<uploadQ, prio, sent, running>>
    BY <1>2, DeliveredEffect
  <2>2. ~ Free(p.target) /\ \A t : Free(t) => Free(t)'
    <3>1. \A b \in In(coordQ') : b \in In(coordQ)
      BY <2>1, Took DEF TypeOK
    <3> QED
      BY <2>1, <3>1 DEF Free
  <2>3. inflight'[p.target] = {}
        /\ \A t \in Targets : t # p.target => inflight'[t] = inflight[t]
    <3>1. inflight \in [Targets -> SUBSET Package]
      BY DEF TypeOK
    <3> QED
      BY <2>1, <3>1
  <2>4. SentEvents' = SentEvents
    BY <2>1 DEF SentEvents
  <2>5. \A q \in running : q.target \in Targets
    BY DEF TypeOK, Package
  <2> HIDE DEF p
  <2> QED
    BY <2>1, <2>2, <2>3, <2>4, <2>5, BlockPackages DEF Flights
<1>3. CASE Fill
  <2>1. /\ coord.stage = "fill" /\ CoordOK(coord) /\ Wanted \in Targets
        /\ UNCHANGED <<prio, sent, running, current>>
    BY <1>3, FillEffect
  <2>2. PICK p \in Package :
           /\ p.target = Wanted /\ ~ p.live /\ p.events \subseteq prio[Wanted]
           /\ \/ p.events = {} /\ coordQ' = Append(coordQ, [op |-> "delivered", package |-> p])
                 /\ UNCHANGED <<inflight, uploadQ>>
              \/ p.events # {} /\ inflight' = [inflight EXCEPT ![Wanted] = {p}]
                 /\ uploadQ' = Append(uploadQ, [op |-> "upload", package |-> p])
                 /\ UNCHANGED coordQ
    BY <1>3, FillEffect
  <2>3. inflight[Wanted] = {} /\ Wanted \in In(coord.todo) /\ uploadQ = <<>>
        /\ running = {} /\ current = {}
    BY <2>1, TodoStep DEF Turns, UploadQueue, Tasks
  <2>4. SentEvents' = SentEvents
    BY <2>1 DEF SentEvents
  <2>5. CASE UNCHANGED <<inflight, uploadQ>>
    <3>1. \A b \in In(uploadQ') : FALSE
      BY <2>3, <2>5, Empty
    <3> QED
      BY <2>1, <2>3, <2>4, <2>5, <3>1 DEF Flights
  <2>6. CASE p.events # {} /\ inflight' = [inflight EXCEPT ![Wanted] = {p}]
             /\ uploadQ' = Append(uploadQ, [op |-> "upload", package |-> p])
             /\ UNCHANGED coordQ
    <3>1. \A b \in In(coordQ') : b.op = "delivered" => b.package.target # p.target
      BY <2>2, <2>3, <2>6 DEF Deliveries
    <3>2. p.events \cap SentEvents = {}
      <4>1. /\ prioQ # <<>> /\ Head(prioQ).op = "fill"
        BY <1>3, FillEffect
      <4>2. /\ In(prioQ) = {Head(prioQ)} \cup In(Tail(prioQ))
            /\ \A b \in In(Tail(prioQ)) : Before(prioQ, Head(prioQ), b)
        BY <4>1, Took DEF TypeOK
      <4>3. \A b \in In(prioQ) : b.op # "remove"
        BY <4>1, <4>2 DEF Removals
      <4> QED
        BY <2>1, <2>2, <2>3, <4>3 DEF Removals
    <3>3. inflight'[Wanted] = {p} /\ \A t \in Targets \ {Wanted} : inflight'[t] = inflight[t]
      <4>1. inflight \in [Targets -> SUBSET Package]
        BY DEF TypeOK
      <4> QED
        BY <2>1, <2>6, <4>1
    <3>4. In(uploadQ') = {[op |-> "upload", package |-> p]}
      <4>1. uploadQ' = <<[op |-> "upload", package |-> p]>>
        BY <2>3, <2>6, Short
      <4> DEFINE x == [op |-> "upload", package |-> p]
      <4> HIDE DEF x
      <4>2. In(<<x>>) = {x}
        BY DEF In
      <4> QED
        BY <4>1, <4>2 DEF x
    <3>5. \A t \in Targets : \A q \in inflight'[t] :
            ~ q.live /\ q.events # {} /\ q.events \subseteq prio'[t] /\ inflight'[t] = {q}
      <4>1. \A t \in Targets \ {Wanted} : \A q \in inflight[t] :
              ~ q.live /\ q.events # {} /\ q.events \subseteq prio[t] /\ inflight[t] = {q}
        BY DEF Flights
      <4> QED
        BY <2>1, <2>2, <2>6, <3>3, <4>1
    <3>6. \A b \in In(uploadQ') : b.package = p
      BY <3>4
    <3> QED
      BY <2>1, <2>2, <2>3, <2>4, <3>1, <3>2, <3>3, <3>5, <3>6 DEF Flights, Free
  <2> QED
    BY <2>2, <2>5, <2>6
<1>4. CASE UploadPackage
  <2> DEFINE b == Head(uploadQ)
             p == b.package
  <2>1. /\ b.op = "upload" /\ b \in In(uploadQ) /\ p \in Package
        /\ \A c \in In(uploadQ') : c.op = "ready"
        /\ current = {} /\ running' = running \cup {p}
        /\ sent' = [e \in Events |-> IF e \in EventsOf(p) /\ sent[e] < 2
                                     THEN sent[e] + 1 ELSE sent[e]]
        /\ UNCHANGED <<coordQ, prio, inflight>>
    BY <1>4, UploadEffect
  <2>2. p \in inflight[p.target] /\ Free(p.target) /\ ~ p.live /\ p.target \in Targets
        /\ p.events \subseteq Events
    BY <2>1 DEF Flights, Package
  <2>3. p.events \subseteq {e \in Events : sent'[e] > 0}
    <3>1. EventsOf(p) = p.events /\ sent \in [Events -> 0 .. 2]
      BY <2>2 DEF EventsOf, TypeOK
    <3> HIDE DEF p
    <3>2. \A e \in p.events : sent'[e] > 0
      BY <2>1, <2>2, <3>1
    <3> QED
      BY <2>2, <3>2
  <2>4. running = {}
    BY <2>1 DEF Tasks
  <2>5. \A c \in In(coordQ') : c.op = "delivered" => c.package.target # p.target
    BY <2>1, <2>2 DEF Free
  <2> HIDE DEF p, b
  <2> QED
    BY <2>1, <2>2, <2>3, <2>4, <2>5 DEF Flights, Free, SentEvents
<1>5. ASSUME NEW p \in running, NEW a \in Answers, Answer(p, a) PROVE Flights'
  <2>1. running' = running \ {p} /\ UNCHANGED <<uploadQ, prio, inflight, sent, current>>
    BY <1>5 DEF Answer
  <2>2. running' = {} /\ current # {}
    BY <2>1 DEF Tasks
  <2>3. \A b \in In(uploadQ) : b.op # "upload"
    <3>1. uploadQ = <<>> \/ uploadQ = <<[op |-> "ready"]>>
      BY <2>2 DEF UploadQueue
    <3>2. \A b \in In(<<[op |-> "ready"]>>) : b.op # "upload"
      BY DEF In
    <3> QED
      BY <3>1, <3>2, Empty
  <2>4. \A b \in In(uploadQ') : b.op # "upload"
    BY <2>1, <2>3
  <2>5. \A t \in Targets : \A q \in inflight'[t] :
          ~ q.live /\ q.events # {} /\ q.events \subseteq prio'[t] /\ inflight'[t] = {q}
    BY <2>1 DEF Flights
  <2> QED
    BY <2>2, <2>4, <2>5 DEF Flights
<1>6. CASE Prioritize
  <2>1. \A t \in Targets : \A p \in inflight[t] : p.events \subseteq prio'[t]
    <3>1. \A t \in Targets : prio[t] \subseteq prio'[t]
      BY <1>6, PrioritizeEffect
    <3>2. \A t \in Targets : \A p \in inflight[t] : p.events \subseteq prio[t]
      BY DEF Flights
    <3> QED
      BY <3>1, <3>2
  <2>2. inflight' = inflight /\ sent' = sent /\ running' = running /\ coordQ' = coordQ
        /\ uploadQ' = uploadQ
    BY <1>6 DEF Prioritize
  <2> QED
    BY <2>1, <2>2 DEF Flights, Free, SentEvents
<1>7. CASE Unprioritize
  <2>1. \A t \in Targets : \A p \in inflight[t] : p.events \subseteq prio'[t]
    BY <1>7, UnprioritizeEffect
  <2>2. inflight' = inflight /\ sent' = sent /\ running' = running /\ coordQ' = coordQ
        /\ uploadQ' = uploadQ
    BY <1>7 DEF Unprioritize
  <2> QED
    BY <2>1, <2>2 DEF Flights, Free, SentEvents
<1>8. \/ \E e \in Events : SendEvent(e)
      \/ Store \/ RemoveEvents \/ TimerFires \/ UploadTargets \/ NextTarget \/ Forget \/ Ready
      \/ \E net \in Nets : Tick(net) \/ ForceUpload(net)
      \/ \E p \in answered : TaskOver(p)
      \/ \E t \in Targets : DayPasses(t)
      \/ UNCHANGED vars
      => UNCHANGED <<inflight, sent, running, prio>>
  BY DEF SendEvent, Store, RemoveEvents, TimerFires, UploadTargets, NextTarget, Forget, Ready,
         Tick, ForceUpload, Upload, TaskOver, DayPasses, vars
<1>9. UNCHANGED <<inflight, sent, running, prio>> =>
        \A t \in Targets : \A p \in inflight[t] : p.events \subseteq prio'[t]
  BY DEF Flights
<1> QED
  BY <1>1, <1>2, <1>3, <1>4, <1>5, <1>6, <1>7, <1>8, <1>9 DEF Next, Serve

\* The coordinator has a package to tell the storage of in one stage only.
LEMMA PackageKept ==
    ASSUME TypeOK, Removals, [Next]_vars, ~ Delivered, ~ Forget
    PROVE  coord'.package = coord.package /\ (coord.stage = "forget" => coord' = coord)
<1> USE DEF observers, uploader, coordinator, queues
<1>0. CoordOK(coord) /\ (coord.stage # "forget" => coord.package = {})
  BY DEF TypeOK, CoordOK, Removals
<1>1. CASE UploadTargets
  <2>1. coord.stage = "idle" /\ (coord' = coord \/ coord'.package = {})
    BY <1>1 DEF UploadTargets, Take, Idle
  <2> QED
    BY <1>0, <2>1
<1>2. CASE NextTarget \/ Ready \/ Fill
  <2>1. coord.stage \in {"target", "ready", "fill"} /\ coord.todo # <<>>
    BY <1>2 DEF NextTarget, Ready, Fill, TypeOK
  <2>2. coord' = NextWanted \/ \E stage \in {"ready", "fill"} : coord' = [coord EXCEPT !.stage = stage]
    BY <1>2 DEF NextTarget, Ready, Fill
  <2> QED
    BY <1>0, <2>1, <2>2, AfterTarget, Waits
<1>3. \/ \E e \in Events : SendEvent(e)
      \/ Store \/ RemoveEvents \/ TimerFires \/ Prioritize \/ Unprioritize \/ UploadPackage
      \/ \E net \in Nets : Tick(net) \/ ForceUpload(net)
      \/ \E p \in running, a \in Answers : Answer(p, a)
      \/ \E p \in answered : TaskOver(p)
      \/ \E t \in Targets : DayPasses(t)
      \/ UNCHANGED vars
      => coord' = coord
  BY DEF SendEvent, Store, RemoveEvents, TimerFires, Prioritize, Unprioritize, UploadPackage,
         Tick, ForceUpload, Upload, Answer, TaskOver, DayPasses, vars
<1> QED
  BY <1>1, <1>2, <1>3 DEF Next, Serve

\* What the storage stores, which was not stored before.
LEMMA StoreEffect ==
    ASSUME Batched, TypeOK, Life, Store
    PROVE  /\ storageQ # <<>> /\ Head(storageQ) \in In(storageQ) /\ Head(storageQ).op = "store"
           /\ Head(storageQ).event \in Events \ ever /\ storageQ' = Tail(storageQ)
           /\ stored' = stored \cup {Head(storageQ).event}
           /\ ever' = ever \cup {Head(storageQ).event}
           /\ prioQ' = Append(prioQ, [op |-> "add", event |-> Head(storageQ).event])
           /\ UNCHANGED <<coordQ, uploadQ, prio, coord, inflight, sent>>
<1>1. /\ storageQ # <<>> /\ Head(storageQ).op = "store" /\ storageQ' = Tail(storageQ)
      /\ stored' = stored \cup {Head(storageQ).event}
      /\ ever' = ever \cup {Head(storageQ).event}
      /\ prioQ' = Append(prioQ, [op |-> "add", event |-> Head(storageQ).event])
      /\ UNCHANGED <<uploadQ, prio, coord, inflight, sent>>
      /\ QosOf[Head(storageQ).event] # "fast" => coordQ' = coordQ
  BY DEF Store, coordinator
<1>2. Head(storageQ) \in StorageBlock /\ Head(storageQ) \in In(storageQ)
  BY <1>1, Took DEF TypeOK
<1>3. Head(storageQ).event \in Events
  BY <1>1, <1>2 DEF StorageBlock
<1>4. Head(storageQ).event \notin ever
  BY <1>1, <1>2 DEF Life
<1> QED
  BY <1>1, <1>2, <1>3, <1>4 DEF Batched

\* What the coordinator tells the storage to remove: the events of its package.
LEMMA ForgetEffect ==
    ASSUME TypeOK, Removals, Forget
    PROVE  \E p \in coord.package :
             /\ coord.package = {p} /\ ~ p.live /\ coord.stage = "forget"
             /\ storageQ' = Append(storageQ, [op |-> "remove", events |-> p.events])
             /\ p.events \subseteq SentEvents
             /\ coord' = Idle /\ UNCHANGED <<coordQ, prioQ, uploadQ, stored, prio, inflight, sent, ever>>
<1>1. PICK p \in coord.package :
         storageQ' = Append(storageQ, [op |-> "remove", events |-> EventsOf(p)])
  BY DEF Forget
<1>2. ~ p.live /\ p.events \subseteq SentEvents /\ coord.package = {p}
  BY DEF Removals
<1>3. EventsOf(p) = p.events
  BY <1>2 DEF EventsOf
<1> QED
  BY <1>1, <1>2, <1>3 DEF Forget, observers

\* What is not stored any more was covered, and what is stays covered.
LEMMA CoveredStep ==
    ASSUME Batched, TypeOK, Removals, Life, [Next]_vars
    PROVE  \A e \in stored' : /\ Covered(e) => Covered(e)'
                              /\ e \in stored \/ (Store /\ e \in Events \ ever)
<1> USE DEF observers, uploader, coordinator, queues
<1>0. storageQ \in Seq(StorageBlock)
  BY DEF TypeOK
<1>1. ASSUME NEW e \in Events, SendEvent(e) PROVE \A d : Covered(d) => Covered(d)'
  <2>1. In(storageQ) \subseteq In(storageQ') /\ coord' = coord
    BY <1>0, <1>1, Put DEF SendEvent
  <2> QED
    BY <2>1 DEF Covered
<1>2. CASE Store
  <2>1. \A b \in In(storageQ) : b.op = "remove" => b \in In(storageQ')
    <3>1. In(storageQ) = {Head(storageQ)} \cup In(storageQ') /\ Head(storageQ).op = "store"
      BY <1>0, <1>2, StoreEffect, Took
    <3> QED
      BY <3>1
  <2>2. coord' = coord
    BY <1>2 DEF Store
  <2>3. \A d : Covered(d) => Covered(d)'
    BY <2>1, <2>2 DEF Covered
  <2> QED
    BY <1>2, <2>3, StoreEffect
<1>3. CASE RemoveEvents
  <2>1. /\ storageQ # <<>> /\ storageQ' = Tail(storageQ)
        /\ stored' = stored \ Head(storageQ).events /\ coord' = coord
    BY <1>3 DEF RemoveEvents
  <2>2. In(storageQ) = {Head(storageQ)} \cup In(storageQ')
    BY <1>0, <2>1, Took
  <2> QED
    BY <2>1, <2>2 DEF Covered
<1>4. CASE Delivered
  <2>1. coord.stage = "idle" /\ storageQ' = storageQ /\ stored' = stored
    BY <1>4, DeliveredEffect
  <2>2. coord.package = {}
    BY <2>1 DEF Removals
  <2> QED
    BY <2>1, <2>2 DEF Covered
<1>5. CASE Forget
  <2>1. PICK p \in coord.package :
          /\ coord.package = {p} /\ stored' = stored
          /\ storageQ' = Append(storageQ, [op |-> "remove", events |-> p.events])
    BY <1>5, ForgetEffect
  <2> DEFINE x == [op |-> "remove", events |-> p.events]
  <2>2. x.op = "remove" /\ x.events = p.events
    OBVIOUS
  <2> HIDE DEF x
  <2>3. In(storageQ') = In(storageQ) \cup {x}
    BY <1>0, <2>1, Put DEF x
  <2> QED
    BY <2>1, <2>2, <2>3 DEF Covered
<1>6. CASE /\ storageQ' = storageQ /\ stored' = stored
           /\ ~ Delivered /\ ~ Forget
  BY <1>6, PackageKept DEF Covered
<1>7. \/ TimerFires \/ UploadTargets \/ NextTarget \/ Prioritize \/ Unprioritize \/ Fill \/ Ready
      \/ UploadPackage
      \/ \E net \in Nets : Tick(net) \/ ForceUpload(net)
      \/ \E p \in running, a \in Answers : Answer(p, a)
      \/ \E p \in answered : TaskOver(p)
      \/ \E t \in Targets : DayPasses(t)
      \/ UNCHANGED vars
      => storageQ' = storageQ /\ stored' = stored
  BY DEF TimerFires, UploadTargets, NextTarget, Prioritize, Unprioritize, Fill, Ready,
         UploadPackage, Tick, ForceUpload, Upload, Answer, TaskOver, DayPasses, vars
<1>8. \A e \in Events : SendEvent(e) => stored' = stored
  BY DEF SendEvent
<1> QED
  BY <1>1, <1>2, <1>3, <1>4, <1>5, <1>6, <1>7, <1>8 DEF Next, Serve

\* What the prioritizer is told to remove goes on being so, until a package is made.
LEMMA RemovedStep ==
    ASSUME Batched, TypeOK, UploadQueue, Removals, Life, [Next]_vars, ~ Fill
    PROVE  \A p \in Package : Removed(p) => Removed(p)'
<1> USE DEF observers, uploader, coordinator, queues
<1>1. SentEvents \subseteq SentEvents'
  BY SentGrows
<1>2. \A t \in Targets : inflight[t] = {} => inflight'[t] = {}
  <2>1. CASE Delivered
    <3>1. inflight \in [Targets -> SUBSET Package]
      BY DEF TypeOK
    <3> QED
      BY <2>1, <3>1, DeliveredEffect
  <2>2. ~ Delivered => inflight' = inflight
    BY DEF Next, Serve, SendEvent, Store, RemoveEvents, TimerFires, Tick, ForceUpload, Upload,
           UploadTargets, NextTarget, Forget, Prioritize, Unprioritize, Ready, UploadPackage,
           TaskOver, Answer, DayPasses, vars
  <2> QED
    BY <2>1, <2>2
<1>3. \A e \in stored' : Covered(e) => Covered(e)'
  BY CoveredStep
<1>4. \A e \in SentEvents \cap stored' : e \in stored
  BY CoveredStep DEF Life
<1>5. \A p \in Package : p.target \in Targets
  BY DEF Package
<1> SUFFICES ASSUME NEW p \in Package, Removed(p) PROVE Removed(p)'
  OBVIOUS
<1>6. /\ ~ p.live /\ inflight'[p.target] = {} /\ p.events \subseteq SentEvents'
      /\ \A e \in p.events : TargetOf[e] = p.target
  BY <1>1, <1>2, <1>5 DEF Removed
<1>7. \A e \in p.events \cap stored' : Covered(e)'
  BY <1>3, <1>4 DEF Removed
<1> QED
  BY <1>6, <1>7 DEF Removed

\* Every step keeps what is known of the removals.
LEMMA RemovalsStep ==
    ASSUME Batched, TypeOK, UploadQueue, Tasks, Turns, Deliveries, Flights, Removals, Life,
           [Next]_vars
    PROVE  Removals'
<1> USE DEF observers, uploader, coordinator, queues
<1>0. prioQ \in Seq(PrioBlock) /\ CoordOK(coord)
  BY DEF TypeOK, CoordOK
<1> DEFINE Packaged ==
             /\ \A p, q \in coord.package : p = q
             /\ \A p \in coord.package :
                   coord.stage = "forget" /\ ~ p.live /\ p.events \subseteq SentEvents
           Known == \A t \in Targets : \A e \in prio[t] \cap SentEvents :
                      \/ \E p \in inflight[t] : e \in p.events
                      \/ \E b \in In(prioQ) : b.op = "remove" /\ e \in b.package.events
           Order == /\ \A b \in In(prioQ) : b.op = "fill" => coord.stage = "fill"
                    /\ \A a, b \in In(prioQ) : Before(prioQ, a, b) /\ a.op = "fill" => b.op = "add"
           Gone == \A b \in In(prioQ) : b.op = "remove" => Removed(b.package)
<1>1. Packaged /\ Known /\ Order /\ Gone
  BY DEF Removals
<1>2. Packaged'
  <2>1. CASE Delivered
    <3>1. /\ coord'.stage = "forget" /\ coord'.package = {Head(coordQ).package}
          /\ Head(coordQ) \in In(coordQ) /\ Head(coordQ).op = "delivered" /\ sent' = sent
      BY <2>1, DeliveredEffect
    <3>2. ~ Head(coordQ).package.live /\ Head(coordQ).package.events \subseteq SentEvents
      BY <3>1 DEF Deliveries
    <3> QED
      BY <3>1, <3>2 DEF SentEvents
  <2>2. CASE Forget
    <3>1. coord'.package = {}
      BY <2>2, IdleOK DEF Forget
    <3> QED
      BY <3>1
  <2>3. CASE ~ Delivered /\ ~ Forget
    <3>1. coord'.package = coord.package /\ (coord.stage = "forget" => coord' = coord)
      BY <2>3, PackageKept
    <3> QED
      BY <1>1, <3>1, SentGrows
  <2> QED
    BY <2>1, <2>2, <2>3
\* What was covered by a removal or a package in flight goes on being so, when no
\* block is taken from the prioritizer.
<1>3. ASSUME prio' = prio, In(prioQ) \subseteq In(prioQ'), sent' = sent, inflight' = inflight
      PROVE  Known'
  BY <1>1, <1>3 DEF SentEvents
<1>4. ASSUME ~ Fill, In(prioQ') \subseteq In(prioQ) PROVE Gone'
  BY <1>1, <1>4, RemovedStep, BlockPackages
<1>5. CASE Store
  <2> DEFINE x == [op |-> "add", event |-> Head(storageQ).event]
  <2>1. x.op = "add"
    OBVIOUS
  <2>2. prioQ' = Append(prioQ, x) /\ UNCHANGED <<prio, coord, inflight, sent>>
    BY <1>5, StoreEffect
  <2> HIDE DEF x
  <2>3. /\ In(prioQ') = In(prioQ) \cup {x}
        /\ \A a, b : Before(prioQ', a, b) => Before(prioQ, a, b) \/ (a \in In(prioQ) /\ b = x)
    BY <1>0, <2>2, Put
  <2>4. Gone'
    <3>1. ~ Fill
      BY <1>5 DEF Store, Fill
    <3> QED
      BY <1>1, <2>1, <2>3, <3>1, RemovedStep, BlockPackages
  <2>5. Order'
    <3>1. \A a, b : Before(prioQ, a, b) => a \in In(prioQ) /\ b \in In(prioQ)
      BY DEF Before, In
    <3> QED
      BY <1>1, <2>1, <2>2, <2>3, <3>1
  <2>6. Known'
    BY <1>3, <2>2, <2>3
  <2> QED
    BY <1>2, <2>4, <2>5, <2>6 DEF Removals
<1>6. CASE Delivered
  <2> DEFINE p == Head(coordQ).package
             x == [op |-> "remove", package |-> p]
  <2>1. /\ coord.stage = "idle" /\ Head(coordQ) \in In(coordQ) /\ Head(coordQ).op = "delivered"
        /\ p \in Package /\ p.target \in Targets
        /\ inflight' = [inflight EXCEPT ![p.target] = {}]
        /\ prioQ' = Append(prioQ, x)
        /\ coord'.package = {p}
        /\ UNCHANGED <<storageQ, stored, prio, sent>>
    BY <1>6, DeliveredEffect
  <2>2. x.op = "remove" /\ x.package = p
    OBVIOUS
  <2>3. /\ ~ p.live /\ p.events \subseteq SentEvents
        /\ p \in inflight[p.target] \/ (inflight[p.target] = {} /\ p.events = {})
    BY <2>1 DEF Deliveries
  <2>4. \A b \in In(prioQ) : b.op # "fill"
    BY <1>1, <2>1
  <2> HIDE DEF x, p
  <2>5. /\ In(prioQ') = In(prioQ) \cup {x}
        /\ \A a, b : Before(prioQ', a, b) => Before(prioQ, a, b) \/ (a \in In(prioQ) /\ b = x)
    BY <1>0, <2>1, Put
  <2>6. Order'
    <3>1. \A b \in In(prioQ') : b.op # "fill"
      BY <2>2, <2>4, <2>5
    <3> QED
      BY <3>1
  <2>7. /\ inflight'[p.target] = {}
        /\ \A t \in Targets : t # p.target => inflight'[t] = inflight[t]
    <3>1. inflight \in [Targets -> SUBSET Package]
      BY DEF TypeOK
    <3> QED
      BY <2>1, <3>1
  <2>8. SentEvents' = SentEvents
    BY <2>1 DEF SentEvents
  <2>9. p.events \subseteq prio[p.target] /\ (inflight[p.target] # {} => inflight[p.target] = {p})
    BY <2>1, <2>3 DEF Flights
  <2>10. /\ ~ p.live /\ p.events \subseteq SentEvents' /\ inflight'[p.target] = {}
         /\ \A e \in p.events : TargetOf[e] = p.target
         /\ \A e \in p.events : \E q \in coord'.package : e \in q.events
    <3>1. p.events \subseteq Events
      BY <2>1, <2>9 DEF TypeOK
    <3>2. \A e \in p.events : TargetOf[e] = p.target
      BY <2>1, <2>9, <3>1 DEF TypeOK
    <3> QED
      BY <2>1, <2>3, <2>7, <2>8, <3>2
  <2>11. Gone'
    <3>1. ~ Fill
      BY <2>1 DEF Fill
    <3>2. \A b \in In(prioQ) : b.op = "remove" => Removed(b.package)'
      BY <1>1, <3>1, RemovedStep, BlockPackages
    <3>3. \A q : q = p => Removed(q)'
      BY <2>10 DEF Removed, Covered
    <3> QED
      BY <2>2, <2>5, <3>2, <3>3
  <2>12. Known'
    <3> SUFFICES ASSUME NEW t \in Targets, NEW e \in prio[t] \cap SentEvents
                 PROVE  \/ \E q \in inflight'[t] : e \in q.events
                        \/ \E b \in In(prioQ') : b.op = "remove" /\ e \in b.package.events
      BY <2>1, <2>8
    <3>1. CASE \E b \in In(prioQ) : b.op = "remove" /\ e \in b.package.events
      BY <2>5, <3>1
    <3>2. ASSUME NEW q \in inflight[t], e \in q.events
          PROVE  \/ \E q2 \in inflight'[t] : e \in q2.events
                 \/ \E b \in In(prioQ') : b.op = "remove" /\ e \in b.package.events
      BY <2>2, <2>5, <2>7, <2>9, <3>2
    <3> QED
      BY <1>1, <3>1, <3>2
  <2> QED
    BY <1>2, <2>6, <2>11, <2>12 DEF Removals
<1>7. CASE Fill
  <2>1. /\ coord.stage = "fill" /\ Wanted \in Targets /\ prioQ # <<>> /\ Head(prioQ).op = "fill"
        /\ prioQ' = Tail(prioQ) /\ coord.todo # <<>> /\ UNCHANGED <<prio, sent>>
    BY <1>7, FillEffect
  <2>2. /\ In(prioQ) = {Head(prioQ)} \cup In(prioQ')
        /\ \A b \in In(prioQ') : Before(prioQ, Head(prioQ), b)
    BY <1>0, <2>1, Took
  <2>3. \A b \in In(prioQ') : b.op = "add"
    BY <1>1, <2>1, <2>2
  <2>4. Gone' /\ Order'
    BY <2>3
  <2>5. \A b \in In(prioQ) : b.op # "remove"
    BY <2>1, <2>2, <2>3
  <2>6. inflight[Wanted] = {} /\ (inflight' = inflight
          \/ \E p : inflight' = [inflight EXCEPT ![Wanted] = {p}])
    BY <1>7, <2>1, FillEffect DEF Turns
  <2>7. \A t \in Targets : inflight[t] # {} => inflight'[t] = inflight[t]
    <3>1. inflight \in [Targets -> SUBSET Package]
      BY DEF TypeOK
    <3> QED
      BY <2>1, <2>6, <3>1
  <2>8. Known'
    BY <1>1, <2>1, <2>5, <2>7 DEF SentEvents
  <2> QED
    BY <1>2, <2>4, <2>8 DEF Removals
<1>8. CASE Ready
  <2>1. /\ coord.stage = "ready" /\ coord.todo # <<>>
        /\ \/ coord' = [coord EXCEPT !.stage = "fill"] /\ prioQ' = Append(prioQ, [op |-> "fill"])
           \/ coord' = NextWanted /\ prioQ' = prioQ
        /\ UNCHANGED <<prio, inflight, sent>>
    BY <1>8 DEF Ready, TypeOK
  <2>2. \A b \in In(prioQ) : b.op # "fill"
    BY <1>1, <2>1
  <2>3. ~ Fill
    BY <2>1 DEF Fill
  <2>4. CASE prioQ' = prioQ
    <3>1. Order'
      BY <2>2, <2>4
    <3>2. Known' /\ Gone'
      BY <1>3, <1>4, <2>1, <2>3, <2>4
    <3> QED
      BY <1>2, <3>1, <3>2 DEF Removals
  <2>5. CASE coord' = [coord EXCEPT !.stage = "fill"] /\ prioQ' = Append(prioQ, [op |-> "fill"])
    <3> DEFINE x == [op |-> "fill"]
    <3>1. x.op = "fill"
      OBVIOUS
    <3> HIDE DEF x
    <3>2. /\ In(prioQ') = In(prioQ) \cup {x}
          /\ \A a, b : Before(prioQ', a, b) => Before(prioQ, a, b) \/ (a \in In(prioQ) /\ b = x)
      BY <1>0, <2>5, Put DEF x
    <3>3. coord'.stage = "fill"
      BY <1>0, <2>1, <2>5, Waits
    <3>4. \A a, b : Before(prioQ', a, b) => a \in In(prioQ)
      BY <3>2 DEF Before, In
    <3>5. Order'
      BY <2>2, <3>3, <3>4
    <3>6. Gone'
      BY <1>1, <2>3, <3>1, <3>2, RemovedStep, BlockPackages
    <3>7. Known'
      BY <1>3, <2>1, <3>2
    <3> QED
      BY <1>2, <3>5, <3>6, <3>7 DEF Removals
  <2> QED
    BY <2>1, <2>4, <2>5
<1>9. CASE Prioritize
  <2>1. /\ prioQ # <<>> /\ Head(prioQ).op = "add" /\ prioQ' = Tail(prioQ)
        /\ Head(prioQ) \in In(prioQ)
        /\ \A t \in Targets : prio'[t] \subseteq prio[t] \cup {Head(prioQ).event}
        /\ UNCHANGED <<sent, inflight, coord>>
    BY <1>9, PrioritizeEffect
  <2>2. /\ In(prioQ) = {Head(prioQ)} \cup In(prioQ')
        /\ \A a, b : Before(prioQ', a, b) => Before(prioQ, a, b)
    BY <1>0, <2>1, Took
  <2>3. ~ Fill
    BY <2>1 DEF Fill
  <2>4. Gone' /\ Order'
    BY <1>1, <1>4, <2>1, <2>2, <2>3
  <2>5. Known'
    <3>1. Head(prioQ).event \notin SentEvents /\ SentEvents' = SentEvents
      BY <2>1 DEF Life, SentEvents
    <3>2. \A b \in In(prioQ) : b.op = "remove" => b \in In(prioQ')
      BY <2>1, <2>2
    <3> QED
      BY <1>1, <2>1, <3>1, <3>2
  <2> QED
    BY <1>2, <2>4, <2>5 DEF Removals
<1>10. CASE Unprioritize
  <2>1. /\ prioQ # <<>> /\ Head(prioQ).op = "remove" /\ prioQ' = Tail(prioQ)
        /\ \A t \in Targets : prio'[t] = prio[t] \ Head(prioQ).package.events
        /\ UNCHANGED <<sent, inflight, coord>>
    BY <1>10, UnprioritizeEffect
  <2>2. /\ In(prioQ) = {Head(prioQ)} \cup In(prioQ')
        /\ \A a, b : Before(prioQ', a, b) => Before(prioQ, a, b)
    BY <1>0, <2>1, Took
  <2>3. ~ Fill
    BY <2>1 DEF Fill
  <2>4. Gone' /\ Order'
    BY <1>1, <1>4, <2>1, <2>2, <2>3
  <2>5. Known'
    <3>1. SentEvents' = SentEvents
      BY <2>1 DEF SentEvents
    <3> QED
      BY <1>1, <2>1, <2>2, <3>1
  <2> QED
    BY <1>2, <2>4, <2>5 DEF Removals
<1>11. CASE UploadPackage
  <2> DEFINE p == Head(uploadQ).package
  <2>1. /\ Head(uploadQ) \in In(uploadQ) /\ Head(uploadQ).op = "upload" /\ p \in Package
        /\ sent' = [e \in Events |-> IF e \in EventsOf(p) /\ sent[e] < 2
                                     THEN sent[e] + 1 ELSE sent[e]]
        /\ UNCHANGED <<prioQ, prio, coord, inflight>>
    BY <1>11, UploadEffect
  <2>2. p.target \in Targets /\ p \in inflight[p.target] /\ p.events \subseteq prio[p.target]
        /\ ~ p.live /\ p.events \subseteq Events
    BY <2>1 DEF Flights, Package
  <2> HIDE DEF p
  <2>3. SentEvents' \subseteq SentEvents \cup p.events
    <3>1. \A e \in Events : sent'[e] > 0 => sent[e] > 0 \/ e \in p.events
      BY <2>1, <2>2 DEF EventsOf
    <3> QED
      BY <3>1 DEF SentEvents
  <2>4. ~ Fill
    BY <1>11 DEF UploadPackage, Fill
  <2>5. Gone' /\ Order'
    BY <1>1, <1>4, <2>1, <2>4
  <2>6. Known'
    <3> SUFFICES ASSUME NEW t \in Targets, NEW e \in prio[t] \cap SentEvents'
                 PROVE  \/ \E q \in inflight[t] : e \in q.events
                        \/ \E b \in In(prioQ) : b.op = "remove" /\ e \in b.package.events
      BY <2>1
    <3>1. CASE e \in SentEvents
      BY <1>1, <3>1
    <3>2. CASE e \in p.events
      <4>1. TargetOf[e] = p.target /\ TargetOf[e] = t
        BY <2>2, <3>2 DEF TypeOK
      <4> QED
        BY <2>2, <3>2, <4>1
    <3> QED
      BY <2>3, <3>1, <3>2
  <2> QED
    BY <1>2, <2>5, <2>6 DEF Removals
<1>12. CASE /\ UNCHANGED <<prioQ, prio, sent, inflight>> /\ ~ Fill
            /\ coord' = coord \/ coord.stage # "fill"
  <2>1. Gone' /\ Known'
    BY <1>3, <1>4, <1>12
  <2>2. Order'
    BY <1>1, <1>12
  <2> QED
    BY <1>2, <2>1, <2>2 DEF Removals
<1>13. \/ \E e \in Events : SendEvent(e)
       \/ RemoveEvents \/ TimerFires \/ UploadTargets \/ NextTarget \/ Forget
       \/ \E net \in Nets : Tick(net) \/ ForceUpload(net)
       \/ \E p \in running, a \in Answers : Answer(p, a)
       \/ \E p \in answered : TaskOver(p)
       \/ \E t \in Targets : DayPasses(t)
       \/ UNCHANGED vars
       => /\ UNCHANGED <<prioQ, prio, sent, inflight>>
          /\ coord' = coord \/ coord.stage # "fill"
  BY DEF SendEvent, RemoveEvents, TimerFires, UploadTargets, NextTarget, Forget, Tick, ForceUpload,
         Upload, Take, Answer, TaskOver, DayPasses, vars
<1> QED
  BY <1>5, <1>6, <1>7, <1>8, <1>9, <1>10, <1>11, <1>12, <1>13 DEF Next, Serve

\* A request takes events that were not part of one.
LEMMA RequestEffect ==
    ASSUME TypeOK, UploadQueue, Flights, UploadPackage
    PROVE  \E p \in Package :
             /\ p.events # {} /\ p.target \in Targets /\ p.events \subseteq prio[p.target]
             /\ p.events \cap SentEvents = {} /\ SentEvents' = SentEvents \cup p.events
             /\ \A e \in p.events : TargetOf[e] = p.target
             /\ \A e \in Events : sent'[e] = IF e \in p.events THEN 1 ELSE sent[e]
<1> DEFINE p == Head(uploadQ).package
<1>1. /\ Head(uploadQ) \in In(uploadQ) /\ Head(uploadQ).op = "upload" /\ p \in Package
      /\ sent' = [e \in Events |-> IF e \in EventsOf(p) /\ sent[e] < 2
                                   THEN sent[e] + 1 ELSE sent[e]]
  BY UploadEffect
<1>2. p.target \in Targets /\ p \in inflight[p.target] /\ p.events \cap SentEvents = {}
      /\ p.events \subseteq Events
  BY <1>1 DEF Flights, Package
<1>3. p.events \subseteq prio[p.target] /\ ~ p.live /\ p.events # {}
  BY <1>2 DEF Flights
<1> HIDE DEF p
<1>4. \A e \in p.events : TargetOf[e] = p.target
  BY <1>2, <1>3 DEF TypeOK
<1>5. sent \in [Events -> 0 .. 2] /\ EventsOf(p) = p.events
  BY <1>3 DEF TypeOK, EventsOf
<1>6. \A e \in p.events : sent[e] = 0
  BY <1>2, <1>5 DEF SentEvents
<1>7. \A e \in Events : sent'[e] = IF e \in p.events THEN 1 ELSE sent[e]
  BY <1>1, <1>5, <1>6
<1>8. SentEvents' = SentEvents \cup p.events
  BY <1>2, <1>7 DEF SentEvents
<1> QED
  BY <1>1, <1>2, <1>3, <1>4, <1>7, <1>8

\* Every step keeps what is known of the life of an event.
LEMMA LifeStep ==
    ASSUME Batched, TypeOK, UploadQueue, Flights, Removals, Life, [Next]_vars
    PROVE  Life'
<1> USE DEF observers, uploader, coordinator, queues
<1>0. /\ prioQ \in Seq(PrioBlock) /\ storageQ \in Seq(StorageBlock)
      /\ In(storageQ) \subseteq StorageBlock
  BY DEF TypeOK, In
<1> DEFINE Storing ==
             /\ \A b \in In(storageQ) :
                   /\ b.op = "store" => b.event \notin ever
                   /\ b.op = "remove" => b.events \subseteq SentEvents
             /\ \A a, b \in In(storageQ) : Before(storageQ, a, b) /\ a.op = "store" /\ b.op = "store"
                   => a.event # b.event
           Adding ==
             /\ \A b \in In(prioQ) : b.op = "add" =>
                   b.event \in ever \ SentEvents /\ b.event \notin prio[TargetOf[b.event]]
             /\ \A a, b \in In(prioQ) : Before(prioQ, a, b) /\ a.op = "add" /\ b.op = "add"
                   => a.event # b.event
           Counts ==
             /\ \A t \in Targets : prio[t] \subseteq ever
             /\ SentEvents \subseteq ever /\ ever \ stored \subseteq SentEvents
             /\ \A e \in Events : sent[e] <= 1
<1>1. Storing /\ Adding /\ Counts
  BY DEF Life
<1>2. \A q, a, b : Before(q, a, b) => a \in In(q) /\ b \in In(q)
  BY DEF Before, In
<1>3. ASSUME UNCHANGED <<storageQ, ever, sent>> PROVE Storing'
  BY <1>1, <1>3 DEF SentEvents
<1>4. ASSUME UNCHANGED <<ever, sent, stored>>, \A t \in Targets : prio'[t] \subseteq prio[t]
      PROVE  Counts'
  BY <1>1, <1>4 DEF SentEvents
<1>5. \A b \in In(prioQ) : b.op = "add" => b.event \in Events /\ TargetOf[b.event] \in Targets
  <2>1. \A b \in PrioBlock : b.op = "add" => b.event \in Events
    BY DEF PrioBlock
  <2> QED
    BY <2>1, TransportAssumption DEF TypeOK, In
\* A block that adds nothing, or none.
<1>6. ASSUME UNCHANGED <<ever, sent>>, \A t \in Targets : prio'[t] \subseteq prio[t],
             NEW x, x.op # "add", prioQ' = Append(prioQ, x)
      PROVE  Adding'
  <2>1. /\ In(prioQ') = In(prioQ) \cup {x}
        /\ \A a, b : Before(prioQ', a, b) => Before(prioQ, a, b) \/ (a \in In(prioQ) /\ b = x)
    BY <1>0, <1>6, Put
  <2>2. \A b \in In(prioQ') : b.op = "add" => b \in In(prioQ)
    BY <1>6, <2>1
  <2> QED
    BY <1>1, <1>5, <1>6, <2>1, <2>2 DEF SentEvents
<1>7. ASSUME UNCHANGED <<ever, sent>>, \A t \in Targets : prio'[t] \subseteq prio[t],
             prioQ # <<>>, prioQ' = Tail(prioQ)
      PROVE  Adding'
  <2>1. /\ In(prioQ) = {Head(prioQ)} \cup In(prioQ')
        /\ \A a, b : Before(prioQ', a, b) => Before(prioQ, a, b)
    BY <1>0, <1>7, Took
  <2> QED
    BY <1>1, <1>5, <1>7, <2>1 DEF SentEvents
<1>8. ASSUME NEW e \in Events, SendEvent(e) PROVE Life'
  <2> DEFINE x == [op |-> "store", event |-> e]
  <2>1. x.op = "store" /\ x.event = e
    OBVIOUS
  <2>2. /\ storageQ' = Append(storageQ, x) /\ e \notin ever /\ x \notin Blocks(storageQ, "store")
        /\ UNCHANGED <<prioQ, stored, prio, ever, sent>>
    BY <1>8 DEF SendEvent
  <2>3. \A b \in In(storageQ) : b.op = "store" => b.event # e
    <3>1. \A b \in StorageBlock : b.op = "store" /\ b.event = e => b = x
      BY DEF StorageBlock
    <3>2. x \notin In(storageQ)
      BY <2>1, <2>2 DEF Blocks, In
    <3> QED
      BY <1>0, <3>1, <3>2
  <2> HIDE DEF x
  <2>4. /\ In(storageQ') = In(storageQ) \cup {x}
        /\ \A a, b : Before(storageQ', a, b) => Before(storageQ, a, b) \/ (a \in In(storageQ) /\ b = x)
    BY <1>0, <2>2, Put
  <2>5. SentEvents' = SentEvents
    BY <2>2 DEF SentEvents
  <2>6. Storing'
    BY <1>1, <1>2, <2>1, <2>2, <2>3, <2>4, <2>5
  <2>7. Adding' /\ Counts'
    BY <1>1, <2>2, <2>5
  <2> QED
    BY <2>6, <2>7 DEF Life
<1>9. CASE Store
  <2> DEFINE e == Head(storageQ).event
             x == [op |-> "add", event |-> e]
  <2>1. /\ storageQ # <<>> /\ Head(storageQ).op = "store" /\ e \in Events \ ever
        /\ storageQ' = Tail(storageQ) /\ stored' = stored \cup {e} /\ ever' = ever \cup {e}
        /\ prioQ' = Append(prioQ, x) /\ UNCHANGED <<prio, sent>>
    BY <1>9, StoreEffect
  <2>2. x.op = "add" /\ x.event = e
    OBVIOUS
  <2>3. /\ In(storageQ) = {Head(storageQ)} \cup In(storageQ')
        /\ \A a, b : Before(storageQ', a, b) => Before(storageQ, a, b)
        /\ \A b \in In(storageQ') : Before(storageQ, Head(storageQ), b)
    BY <1>0, <2>1, Took
  <2>4. \A b \in In(storageQ') : b.op = "store" => b.event # e
    BY <1>1, <2>1, <2>3
  <2>5. SentEvents' = SentEvents /\ TargetOf[e] \in Targets
    BY <2>1, TransportAssumption DEF SentEvents
  <2> HIDE DEF e, x
  <2>6. /\ In(prioQ') = In(prioQ) \cup {x}
        /\ \A a, b : Before(prioQ', a, b) => Before(prioQ, a, b) \/ (a \in In(prioQ) /\ b = x)
    BY <1>0, <2>1, Put
  <2>7. Storing'
    BY <1>1, <2>1, <2>3, <2>4, <2>5
  <2>8. Adding'
    BY <1>1, <1>2, <2>1, <2>2, <2>5, <2>6
  <2>9. Counts'
    BY <1>1, <2>1, <2>5
  <2> QED
    BY <2>7, <2>8, <2>9 DEF Life
<1>10. CASE RemoveEvents
  <2>1. /\ storageQ # <<>> /\ Head(storageQ).op = "remove" /\ storageQ' = Tail(storageQ)
        /\ stored' = stored \ Head(storageQ).events /\ UNCHANGED <<prioQ, prio, ever, sent>>
    BY <1>10 DEF RemoveEvents
  <2>2. /\ In(storageQ) = {Head(storageQ)} \cup In(storageQ')
        /\ \A a, b : Before(storageQ', a, b) => Before(storageQ, a, b)
    BY <1>0, <2>1, Took
  <2>3. SentEvents' = SentEvents
    BY <2>1 DEF SentEvents
  <2>4. Storing' /\ Adding' /\ Counts'
    BY <1>1, <2>1, <2>2, <2>3
  <2> QED
    BY <2>4 DEF Life
<1>11. CASE Forget
  <2>1. \E p : /\ p.events \subseteq SentEvents
               /\ storageQ' = Append(storageQ, [op |-> "remove", events |-> p.events])
    BY <1>11, ForgetEffect
  <2>2. PICK p : /\ p.events \subseteq SentEvents
                 /\ storageQ' = Append(storageQ, [op |-> "remove", events |-> p.events])
    BY <2>1
  <2> DEFINE x == [op |-> "remove", events |-> p.events]
  <2>3. x.op = "remove" /\ x.events = p.events
    OBVIOUS
  <2> HIDE DEF x
  <2>4. /\ In(storageQ') = In(storageQ) \cup {x}
        /\ \A a, b : Before(storageQ', a, b) => Before(storageQ, a, b) \/ (a \in In(storageQ) /\ b = x)
    BY <1>0, <2>2, Put DEF x
  <2>5. UNCHANGED <<prioQ, prio, stored, ever, sent>>
    BY <1>11 DEF Forget
  <2>6. SentEvents' = SentEvents
    BY <2>5 DEF SentEvents
  <2>7. Storing'
    BY <1>1, <2>2, <2>3, <2>4, <2>5, <2>6
  <2>8. Adding' /\ Counts'
    BY <1>1, <2>5, <2>6
  <2> QED
    BY <2>7, <2>8 DEF Life
<1>12. CASE Delivered
  <2> DEFINE x == [op |-> "remove", package |-> Head(coordQ).package]
  <2>1. x.op = "remove"
    OBVIOUS
  <2>2. prioQ' = Append(prioQ, x) /\ UNCHANGED <<storageQ, prio, stored, ever, sent>>
    BY <1>12, DeliveredEffect
  <2> HIDE DEF x
  <2>3. Storing' /\ Adding' /\ Counts'
    BY <1>3, <1>4, <1>6, <2>1, <2>2
  <2> QED
    BY <2>3 DEF Life
<1>13. CASE Ready
  <2>1. prioQ' = prioQ \/ \E x : x.op # "add" /\ prioQ' = Append(prioQ, x)
    BY <1>13 DEF Ready
  <2>2. UNCHANGED <<storageQ, prio, stored, ever, sent>>
    BY <1>13 DEF Ready
  <2>3. Storing' /\ Counts'
    BY <1>3, <1>4, <2>2
  <2>4. Adding'
    <3>1. CASE prioQ' = prioQ
      BY <1>1, <2>2, <3>1 DEF SentEvents
    <3>2. CASE \E x : x.op # "add" /\ prioQ' = Append(prioQ, x)
      BY <1>6, <2>2, <3>2
    <3> QED
      BY <2>1, <3>1, <3>2
  <2> QED
    BY <2>3, <2>4 DEF Life
<1>14. CASE Fill
  <2>1. prioQ # <<>> /\ prioQ' = Tail(prioQ) /\ UNCHANGED <<storageQ, prio, stored, ever, sent>>
    BY <1>14 DEF Fill
  <2>2. Storing' /\ Adding' /\ Counts'
    BY <1>3, <1>4, <1>7, <2>1
  <2> QED
    BY <2>2 DEF Life
<1>15. CASE Unprioritize
  <2>1. /\ prioQ # <<>> /\ prioQ' = Tail(prioQ)
        /\ \A t \in Targets : prio'[t] \subseteq prio[t]
        /\ UNCHANGED <<storageQ, stored, ever, sent>>
    BY <1>15, UnprioritizeEffect
  <2>2. Storing' /\ Adding' /\ Counts'
    BY <1>3, <1>4, <1>7, <2>1
  <2> QED
    BY <2>2 DEF Life
<1>16. CASE Prioritize
  <2> DEFINE e == Head(prioQ).event
  <2>1. /\ prioQ # <<>> /\ Head(prioQ).op = "add" /\ prioQ' = Tail(prioQ)
        /\ Head(prioQ) \in In(prioQ)
        /\ e \in Events /\ TargetOf[e] \in Targets
        /\ \A t \in Targets : prio'[t] \subseteq prio[t] \cup {e}
        /\ UNCHANGED <<storageQ, stored, ever, sent>>
    BY <1>16, PrioritizeEffect
  <2>2. /\ In(prioQ) = {Head(prioQ)} \cup In(prioQ')
        /\ \A a, b : Before(prioQ', a, b) => Before(prioQ, a, b)
        /\ \A b \in In(prioQ') : Before(prioQ, Head(prioQ), b)
    BY <1>0, <2>1, Took
  <2>3. SentEvents' = SentEvents /\ e \in ever
    BY <1>1, <2>1 DEF SentEvents
  <2>4. \A b \in In(prioQ') : b.op = "add" => b.event # e
    BY <1>1, <2>1, <2>2
  <2> HIDE DEF e
  <2>5. Adding'
    BY <1>1, <1>5, <2>1, <2>2, <2>3, <2>4
  <2>6. Counts'
    BY <1>1, <2>1, <2>3
  <2> QED
    BY <1>3, <2>1, <2>5, <2>6 DEF Life
<1>17. CASE UploadPackage
  <2>1. PICK p \in Package :
          /\ p.target \in Targets /\ p.events \subseteq prio[p.target]
          /\ SentEvents' = SentEvents \cup p.events
          /\ \A e \in p.events : TargetOf[e] = p.target
          /\ \A e \in Events : sent'[e] = IF e \in p.events THEN 1 ELSE sent[e]
    BY <1>17, RequestEffect
  <2>2. UNCHANGED <<storageQ, prioQ, prio, stored, ever>>
    BY <1>17 DEF UploadPackage
  <2>3. Storing'
    BY <1>1, <2>1, <2>2
  <2>4. Adding'
    <3>1. \A b \in In(prioQ) : b.op = "add" => b.event \notin p.events
      BY <1>1, <2>1
    <3> QED
      BY <1>1, <2>1, <2>2, <3>1
  <2>5. Counts'
    <3>1. \A e \in Events : sent'[e] <= 1
      BY <1>1, <2>1
    <3> QED
      BY <1>1, <2>1, <2>2, <3>1
  <2> QED
    BY <2>3, <2>4, <2>5 DEF Life
<1>18. \/ TimerFires \/ UploadTargets \/ NextTarget
       \/ \E net \in Nets : Tick(net) \/ ForceUpload(net)
       \/ \E p \in running, a \in Answers : Answer(p, a)
       \/ \E p \in answered : TaskOver(p)
       \/ \E t \in Targets : DayPasses(t)
       \/ UNCHANGED vars
       => UNCHANGED <<storageQ, prioQ, prio, stored, ever, sent>>
  BY DEF TimerFires, UploadTargets, NextTarget, Tick, ForceUpload, Upload, Answer, TaskOver,
         DayPasses, vars
<1>19. UNCHANGED <<storageQ, prioQ, prio, stored, ever, sent>> => Life'
  BY DEF Life, SentEvents
<1> QED
  BY <1>8, <1>9, <1>10, <1>11, <1>12, <1>13, <1>14, <1>15, <1>16, <1>17, <1>18, <1>19
     DEF Next, Serve

\* Every step remembers the stored events.
LEMMA RememberedStep ==
    ASSUME Batched, TypeOK, Flights, Removals, Life, Remembered, [Next]_vars
    PROVE  Remembered'
<1> USE DEF observers, uploader, coordinator, queues
<1>0. prioQ \in Seq(PrioBlock)
  BY DEF TypeOK
<1> SUFFICES ASSUME NEW e \in stored'
             PROVE  \/ e \in prio'[TargetOf[e]]
                    \/ \E b \in In(prioQ') : b.op = "add" /\ b.event = e
                    \/ Covered(e)'
  BY DEF Remembered
<1>1. (Covered(e) => Covered(e)') /\ (e \in stored \/ (Store /\ e \notin ever))
  BY CoveredStep
<1>2. CASE Store
  <2> DEFINE x == [op |-> "add", event |-> Head(storageQ).event]
  <2>1. x.op = "add" /\ x.event = Head(storageQ).event
    OBVIOUS
  <2>2. /\ prioQ' = Append(prioQ, x) /\ stored' = stored \cup {Head(storageQ).event}
        /\ prio' = prio
    BY <1>2, StoreEffect
  <2> HIDE DEF x
  <2>3. In(prioQ') = In(prioQ) \cup {x}
    BY <1>0, <2>2, Put
  <2> QED
    BY <1>1, <2>1, <2>2, <2>3 DEF Remembered
<1>3. CASE e \in stored /\ prio' = prio /\ In(prioQ) \subseteq In(prioQ')
  BY <1>1, <1>3 DEF Remembered
<1>4. CASE e \in stored /\ Prioritize
  <2>1. /\ prioQ # <<>> /\ Head(prioQ).op = "add" /\ prioQ' = Tail(prioQ)
        /\ TargetOf[Head(prioQ).event] \in Targets
        /\ \A t \in Targets : prio'[t] = IF t = TargetOf[Head(prioQ).event]
                                         THEN prio[t] \cup {Head(prioQ).event} ELSE prio[t]
    BY <1>4, PrioritizeEffect
  <2>2. In(prioQ) = {Head(prioQ)} \cup In(prioQ')
    BY <1>0, <2>1, Took
  <2>3. e \in Events /\ TargetOf[e] \in Targets
    BY <1>4, TransportAssumption DEF TypeOK
  <2>4. CASE e = Head(prioQ).event
    BY <2>1, <2>4
  <2>5. CASE e # Head(prioQ).event
    <3>1. \A b \in In(prioQ) : b.event = e => b \in In(prioQ')
      BY <2>2, <2>5
    <3>2. e \in prio[TargetOf[e]] => e \in prio'[TargetOf[e]]
      BY <2>1, <2>3
    <3> QED
      BY <1>1, <1>4, <3>1, <3>2 DEF Remembered
  <2> QED
    BY <2>4, <2>5
<1>5. CASE e \in stored /\ Unprioritize
  <2>1. /\ prioQ # <<>> /\ Head(prioQ).op = "remove" /\ prioQ' = Tail(prioQ)
        /\ Removed(Head(prioQ).package)
        /\ \A t \in Targets : prio'[t] = prio[t] \ Head(prioQ).package.events
    BY <1>5, UnprioritizeEffect
  <2>2. In(prioQ) = {Head(prioQ)} \cup In(prioQ')
    BY <1>0, <2>1, Took
  <2>3. TargetOf[e] \in Targets
    BY <1>5, TransportAssumption DEF TypeOK
  <2>4. \A b \in In(prioQ) : b.op = "add" => b \in In(prioQ')
    BY <2>1, <2>2
  <2>5. e \in prio[TargetOf[e]] => e \in prio'[TargetOf[e]] \/ Covered(e)
    BY <1>5, <2>1, <2>3 DEF Removed
  <2> QED
    BY <1>1, <1>5, <2>4, <2>5 DEF Remembered
<1>6. CASE e \in stored /\ Fill
  <2>1. prioQ # <<>> /\ Head(prioQ).op = "fill" /\ prioQ' = Tail(prioQ) /\ prio' = prio
    BY <1>6 DEF Fill
  <2>2. In(prioQ) = {Head(prioQ)} \cup In(prioQ')
    BY <1>0, <2>1, Took
  <2>3. \A b \in In(prioQ) : b.op = "add" => b \in In(prioQ')
    BY <2>1, <2>2
  <2> QED
    BY <1>1, <1>6, <2>1, <2>3 DEF Remembered
<1>7. Delivered \/ Ready => prio' = prio /\ In(prioQ) \subseteq In(prioQ')
  <2>1. Delivered \/ Ready => prio' = prio /\ (prioQ' = prioQ \/ \E x : prioQ' = Append(prioQ, x))
    BY DEF Delivered, Ready
  <2>2. \A x : In(prioQ) \subseteq In(Append(prioQ, x))
    BY <1>0, Put
  <2> QED
    BY <2>1, <2>2
<1>8. \/ \E d \in Events : SendEvent(d)
      \/ RemoveEvents \/ TimerFires \/ UploadTargets \/ NextTarget \/ Forget \/ UploadPackage
      \/ \E net \in Nets : Tick(net) \/ ForceUpload(net)
      \/ \E p \in running, a \in Answers : Answer(p, a)
      \/ \E p \in answered : TaskOver(p)
      \/ \E t \in Targets : DayPasses(t)
      \/ UNCHANGED vars
      => prio' = prio /\ prioQ' = prioQ
  BY DEF SendEvent, RemoveEvents, TimerFires, UploadTargets, NextTarget, Forget, UploadPackage,
         Tick, ForceUpload, Upload, Answer, TaskOver, DayPasses, vars
<1> QED
  BY <1>1, <1>2, <1>3, <1>4, <1>5, <1>6, <1>7, <1>8 DEF Next, Serve

\* At launch nothing is queued, stored, prioritized or in flight.
LEMMA InitIInv == Init => IInv
<1> SUFFICES ASSUME Init PROVE IInv
  OBVIOUS
<1>1. TypeOK /\ UploadQueue /\ Tasks
  BY InitTypeOK, InitUploader
<1>2. In(coordQ) = {} /\ In(storageQ) = {} /\ In(prioQ) = {} /\ In(uploadQ) = {}
      /\ coord = Idle /\ In(coord.todo) = {} /\ running = {} /\ stored = {} /\ ever = {}
      /\ \A t \in Targets : inflight[t] = {} /\ prio[t] = {}
  BY IdleOK, Empty DEF Init
<1>3. SentEvents = {} /\ \A e \in Events : sent[e] = 0
  BY DEF Init, SentEvents
<1>4. Turns /\ Deliveries
  BY <1>2, IdleOK DEF Turns, Deliveries
<1>5. Flights /\ Removals
  BY <1>2, IdleOK DEF Flights, Removals
<1>6. Life /\ Remembered
  BY <1>2, <1>3 DEF Life, Remembered
<1> QED
  BY <1>1, <1>4, <1>5, <1>6 DEF IInv

\* The invariant of the batches is inductive.
LEMMA IInvStep == Batched /\ IInv /\ [Next]_vars => IInv'
<1> SUFFICES ASSUME Batched, IInv, [Next]_vars PROVE IInv'
  OBVIOUS
<1>1. TypeOK /\ UploadQueue /\ Tasks
      /\ Turns /\ Deliveries /\ Flights /\ Removals /\ Life /\ Remembered
  BY DEF IInv
<1>2. TypeOK' /\ UploadQueue' /\ Tasks'
  BY <1>1, TypeStep, UploadQueueStep DEF Batched
<1>3. Turns' /\ Deliveries' /\ Flights'
  BY <1>1, TurnsStep, DeliveriesStep, FlightsStep
<1>4. Removals' /\ Life' /\ Remembered'
  BY <1>1, RemovalsStep, LifeStep, RememberedStep
<1> QED
  BY <1>2, <1>3, <1>4 DEF IInv

\* No event is part of two requests, whatever the targets, the events, the networks
\* and the answers and in whatever order the queues serve a delivery, the removal of
\* its events and the next upload, as long as no event is fast and no target is CSH
\* (the in-flight package of uploadTargets, the blocks behind packageDelivered).
THEOREM SentAtMostOnce ==
    ASSUME Batched
    PROVE  Spec => []AtMostOnce
<1>1. IInv => AtMostOnce
  BY DEF IInv, Life, AtMostOnce
<1>2. IInv /\ [Next]_vars => IInv'
  BY IInvStep
<1> QED
  BY InitIInv, <1>1, <1>2, PTL DEF Spec

\* A stored event that was not sent is in the prioritizer's set of its target, from
\* which packages are made, or the block that puts it there is queued; a stored event
\* that has left the set was sent and is being removed (storeEvent, packageDelivered).
THEOREM NeverForgotten ==
    ASSUME Batched
    PROVE  Spec => []NotForgotten
<1>1. IInv => NotForgotten
  <2> SUFFICES ASSUME IInv, NEW e \in stored
               PROVE  \/ e \in prio[TargetOf[e]]
                      \/ [op |-> "add", event |-> e] \in Blocks(prioQ, "add")
                      \/ /\ sent[e] > 0
                         /\ \/ \E p \in coord.package : e \in EventsOf(p)
                            \/ \E b \in Blocks(storageQ, "remove") : e \in b.events
    BY DEF NotForgotten
  <2>1. In(prioQ) \subseteq PrioBlock /\ \A b \in PrioBlock :
           b.op = "add" /\ b.event = e => b = [op |-> "add", event |-> e]
    BY DEF IInv, TypeOK, In, PrioBlock
  <2>2. \A b \in In(prioQ) : b.op = "add" => b \in Blocks(prioQ, "add")
    BY DEF In, Blocks
  <2>3. \A b \in In(storageQ) : b.op = "remove" => b \in Blocks(storageQ, "remove")
    BY DEF In, Blocks
  <2>4. \A p \in coord.package : EventsOf(p) = p.events
    BY DEF IInv, Removals, EventsOf
  <2>5. CASE e \in prio[TargetOf[e]]
    BY <2>5
  <2>6. CASE \E b \in In(prioQ) : b.op = "add" /\ b.event = e
    BY <2>1, <2>2, <2>6
  <2>7. CASE Covered(e)
    <3>1. e \in SentEvents
      BY <2>7 DEF Covered, IInv, Removals, Life
    <3> QED
      BY <2>3, <2>4, <2>7, <3>1 DEF Covered, SentEvents
  <2> QED
    BY <2>5, <2>6, <2>7 DEF IInv, Remembered
<1>2. IInv /\ [Next]_vars => IInv'
  BY IInvStep
<1> QED
  BY InitIInv, <1>1, <1>2, PTL DEF Spec

\* A step of the transport is a step of the outbox or none: an event is kept when it
\* is stored, sent with the request that has it, and removed when it was sent.
LEMMA OutboxStep ==
    ASSUME Batched, IInv, [Next]_vars
    PROVE  [O!Next]_(O!vars)
<1> USE DEF observers, uploader, coordinator, queues
<1>1. /\ TypeOK /\ UploadQueue /\ Flights /\ Removals /\ Life
  BY DEF IInv
<1>2. CASE Store
  <2>1. PICK e \in Events \ ever : stored' = stored \cup {e} /\ sent' = sent
    BY <1>1, <1>2, StoreEffect
  <2>2. e \notin stored /\ e \notin SentEvents
    BY <1>1, <2>1 DEF TypeOK, Life
  <2>3. O!Keep(e)
    BY <2>1, <2>2 DEF O!Keep, SentEvents
  <2> QED
    BY <2>1, <2>3 DEF O!Next
<1>3. CASE RemoveEvents
  <2> DEFINE S == Head(storageQ).events \cap stored
  <2>1. /\ storageQ # <<>> /\ Head(storageQ).op = "remove"
        /\ stored' = stored \ Head(storageQ).events /\ sent' = sent
    BY <1>3 DEF RemoveEvents
  <2>2. Head(storageQ) \in In(storageQ)
    BY <1>1, <2>1, Took DEF TypeOK
  <2>3. S \subseteq stored \cap SentEvents /\ stored' = stored \ S
    BY <1>1, <2>1, <2>2 DEF Life
  <2>4. S \in SUBSET Events
    BY <2>3 DEF SentEvents
  <2> HIDE DEF S
  <2>5. CASE S = {}
    BY <2>1, <2>3, <2>5 DEF O!vars
  <2>6. CASE S # {}
    <3>1. O!Remove(S)
      BY <2>1, <2>3, <2>6 DEF O!Remove, SentEvents
    <3> QED
      BY <2>4, <3>1 DEF O!Next
  <2> QED
    BY <2>5, <2>6
<1>4. CASE UploadPackage
  <2>1. PICK p \in Package :
          /\ p.events # {} /\ p.target \in Targets /\ p.events \subseteq prio[p.target]
          /\ p.events \cap SentEvents = {} /\ SentEvents' = SentEvents \cup p.events
    BY <1>1, <1>4, RequestEffect
  <2>2. p.events \subseteq stored \ SentEvents /\ p.events \in SUBSET Events
    BY <1>1, <2>1 DEF Life, Package
  <2>3. stored' = stored
    BY <1>4 DEF UploadPackage
  <2>4. O!Send(p.events)
    BY <2>1, <2>2, <2>3 DEF O!Send, SentEvents
  <2> QED
    BY <2>2, <2>4 DEF O!Next
<1>5. CASE stored' = stored /\ sent' = sent
  BY <1>5 DEF O!vars
<1>6. Store \/ RemoveEvents \/ UploadPackage \/ (stored' = stored /\ sent' = sent)
  BY DEF Next, Serve, SendEvent, TimerFires, Tick, ForceUpload, Upload, UploadTargets, NextTarget,
         Delivered, Forget, Prioritize, Unprioritize, Fill, Ready, TaskOver, Answer, DayPasses, vars
<1> QED
  BY <1>2, <1>3, <1>4, <1>5, <1>6

\* The transport implements the outbox: an event is stored once, sent once and only
\* removed from the storage when it was sent.
THEOREM TransportIsOutbox ==
    ASSUME Batched
    PROVE  Spec => ImplementsOutbox
<1>1. Init => O!Init
  BY DEF Init, O!Init
<1>2. IInv /\ [Next]_vars => IInv'
  BY IInvStep
<1>3. IInv /\ [Next]_vars => [O!Next]_(O!vars)
  BY OutboxStep
<1> QED
  BY InitIInv, <1>1, <1>2, <1>3, PTL DEF Spec, ImplementsOutbox, O!Spec
=============================================================================
