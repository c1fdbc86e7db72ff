---------------------------- MODULE PbDecodeProofs ----------------------------
(***************************************************************************)
(* Theorems about nanopb's decoder, for any messages that satisfy          *)
(* MessageAssumption, any bytes and any depth of nesting.  They rest on    *)
(* five invariants, each on those before it where it needs them:           *)
(*                                                                         *)
(*   Calls      the stack: every frame is a call its parent makes, in a    *)
(*              place of the parent's place, and their streams and bytes   *)
(*              agree (TypeOK, StreamsInStep);                             *)
(*   Counting   every array counts no more items than it has room for      *)
(*              (ItemsInRoom);                                             *)
(*   Owned      every pointer that is set is where a release looks for it: *)
(*              each step down to it is a member that which_ names, a      *)
(*              pointer that is set, an item that is counted               *)
(*              (ReleasedWhole, NothingLost);                              *)
(*   Filling    a fixed-count array is half full only while its message    *)
(*              has it as fixed_count_field (FixedArraysWhole);            *)
(*   Settling   an object a release would visit has all its required       *)
(*              fields, unless a call for it is open, and that call has    *)
(*              read what fields_seen says, but for the field it is at     *)
(*              (RequiredThere).                                           *)
(*                                                                         *)
(* What they need of memory alone is in PbMemoryProofs.                    *)
(***************************************************************************)
EXTENDS PbDecode, PbMemoryProofs

-----------------------------------------------------------------------------
(***************************************************************************)
(* The stack of calls.                                                     *)
(***************************************************************************)

\* An object is entered: what was read of it before still counts.
LEMMA EnteredMem ==
    ASSUME NEW m \in Memory, NEW o \in Path
    PROVE  /\ Entered(m, o) \in Memory
           /\ Entered(m, o).ptr = m.ptr /\ Entered(m, o).has = m.has
           /\ Entered(m, o).count = m.count /\ Entered(m, o).room = m.room
           /\ DOMAIN Entered(m, o).done = DOMAIN m.done \cup {o}
           /\ \A q \in DOMAIN m.done : Entered(m, o).done[q] = m.done[q]
           /\ o \notin DOMAIN m.done => Entered(m, o).done[o] = {}
<1> DEFINE v == IF o \in DOMAIN m.done THEN m.done[o] ELSE {}
<1>1. v \in SUBSET Nat /\ m.done \in Reads
  BY ReadsParts DEF Memory
<1>2. Entered(m, o) = [m EXCEPT !.done = Put(m.done, o, v)]
  BY DEF Entered
<1>5. v = IF o \in DOMAIN m.done THEN m.done[o] ELSE {}
  OBVIOUS
<1> HIDE DEF v
<1>3. /\ Put(m.done, o, v) \in Reads
      /\ DOMAIN Put(m.done, o, v) = DOMAIN m.done \cup {o}
      /\ Put(m.done, o, v)[o] = v
      /\ \A q \in DOMAIN m.done : q # o => Put(m.done, o, v)[q] = m.done[q]
  BY <1>1, PutReads
<1>4. /\ Entered(m, o) \in Memory /\ Entered(m, o).done = Put(m.done, o, v)
      /\ Entered(m, o).ptr = m.ptr /\ Entered(m, o).has = m.has
      /\ Entered(m, o).count = m.count /\ Entered(m, o).room = m.room
  BY <1>2, <1>3 DEF Memory
<1> QED BY <1>3, <1>4, <1>5

\* A frame points at a field of its message while it reads one.
AtField(fr) ==
    fr.kind = "packed" \/ (fr.kind = "message" /\ fr.phase \in {"field", "value", "inside"})

FrameOK(fr) ==
    /\ fr \in Frame /\ fr.obj \in Path
    /\ AtField(fr) => fr.field \in DOMAIN Msg[fr.msg]
    /\ fr.fixed # 0 => fr.fixed \in DOMAIN Msg[fr.msg] /\ Msg[fr.msg][fr.fixed].rule = "fixed"
    /\ fr.kind \in {"packed", "callback"} => fr.phase = "value" /\ ~fr.owns
    /\ fr.kind = "packed" => /\ Array(Msg[fr.msg][fr.field]) /\ Packable(Msg[fr.msg][fr.field])
                             /\ Msg[fr.msg][fr.field].alloc # "callback"
    /\ fr.kind = "outer" => fr.phase \in {"value", "inside"} /\ ~fr.owns /\ fr.obj = <<>>
    /\ fr.kind = "message" /\ fr.phase = "value" => Msg[fr.msg][fr.field].alloc # "callback"

\* The call that p makes and c is.
Link(p, c) ==
    /\ p.phase = "inside" /\ p.kind \in {"message", "outer"} /\ c.kind # "outer"
    /\ p.kind = "outer" => c.kind = "message" /\ c.msg = p.msg /\ c.obj = <<>> /\ c.owns
    /\ c.kind = "message" /\ p.kind = "message" =>
          /\ Msg[p.msg][p.field].type = "message" /\ Msg[p.msg][p.field].alloc # "callback"
          /\ c.msg = Msg[p.msg][p.field].sub
          /\ c.owns <=> Msg[p.msg][p.field].rule = "repeated"
          /\ Len(c.obj) = Len(p.obj) + 1
          /\ \E j \in Nat \ {0} : c.obj = Item(p.obj, p.msg, p.field, j)
    /\ c.kind # "message" => c.obj = p.obj /\ c.msg = p.msg
    /\ c.kind = "packed" => c.field = p.field

\* The types of the variables, with the calls on the stack in order.
Typed ==
    /\ frames \in [1 .. MaxDepth -> Frame] /\ \A d \in 1 .. MaxDepth : FrameOK(frames[d])
    /\ depth \in 1 .. MaxDepth
    /\ ret \in {"none", "ok", "fail"}
    /\ call \in {"idle", "decode", "merge", "held", "broken"}
    /\ root \in Roots /\ mem \in Memory /\ lost \in Nat

Chained == \A d \in 1 .. depth - 1 : Link(frames[d], frames[d + 1])

Stacked ==
    \A d, e \in 1 .. depth : d < e =>
        /\ Under(frames[d].obj, frames[e].obj)
        /\ frames[d].kind = "message" /\ frames[e].kind = "message" =>
              Len(frames[d].obj) < Len(frames[e].obj)

\* The caller's own call is the outermost.
Bottom ==
    /\ Busy => /\ frames[1].msg = root /\ frames[1].obj = <<>>
               /\ frames[1].kind \in {"outer", "message"}
               /\ frames[1].kind = "message" => (frames[1].owns <=> call = "decode")
               /\ frames[1].kind = "outer" => call = "decode"
    /\ ~Busy => depth = 1 /\ ret = "none"
    /\ ret = "ok" => Top.kind # "outer" \/ Top.phase = "inside"

\* Bytes and places agree in every stream that is open.
InStep ==
    Busy /\ ret # "fail" =>
        /\ Top.at + Top.left = Top.end
        /\ \A d \in 1 .. depth - 1 : frames[d + 1].end + frames[d].left = frames[d].end

\* Every message that is open was entered.
EnteredAll ==
    /\ Busy => \A d \in 1 .. depth :
                  frames[d].kind # "outer" \/ frames[d].phase = "inside" =>
                      frames[d].obj \in DOMAIN mem.done
    /\ call = "held" => <<>> \in DOMAIN mem.done

\* The item being read of an array is counted.
NumberedIn(fr, m) ==
    fr.kind = "message" /\ fr.phase = "value" /\ Array(Msg[fr.msg][fr.field]) =>
        Get(m.count, Member(fr.obj, fr.msg, fr.field)) > 0
Numbered == Busy /\ ret = "none" => NumberedIn(Top, mem)

Calls == Typed /\ Chained /\ Stacked /\ Bottom /\ InStep /\ EnteredAll /\ Numbered

-----------------------------------------------------------------------------
(***************************************************************************)
(* What a step does to the stack.                                          *)
(***************************************************************************)

\* The call that a is, b is still.
Like(a, b) ==
    /\ a.kind = b.kind /\ a.msg = b.msg /\ a.obj = b.obj /\ a.owns = b.owns
    /\ a.end = b.end

\* The innermost call reads on, or has read all.
MovedTo(fr) ==
    /\ Busy /\ ret = "none" /\ ret' \in {"none", "ok"}
    /\ depth' = depth /\ call' = call /\ root' = root
    /\ FrameOK(fr) /\ Like(fr, Top) /\ fr.phase # "inside" /\ fr.kind # "outer"
    /\ fr.kind = "packed" => fr.field = Top.field
    /\ fr.at + fr.left = Top.at + Top.left
    /\ ret' = "none" => NumberedIn(fr, mem')
    /\ frames' = [frames EXCEPT ![depth] = fr]

\* It calls another.
Opened(parent, child) ==
    /\ Busy /\ ret = "none" /\ ret' = "none"
    /\ depth < MaxDepth /\ depth' = depth + 1 /\ call' = call /\ root' = root
    /\ FrameOK(parent) /\ Like(parent, Top)
    /\ FrameOK(child) /\ Link(parent, child) /\ Under(parent.obj, child.obj)
    /\ child.kind = "message" => child.phase = "tag"
    /\ child.at + child.left = child.end /\ child.end + parent.left = parent.end
    /\ frames' = [frames EXCEPT ![depth] = parent, ![depth + 1] = child]

\* It fails.
Failed ==
    /\ Busy /\ ret = "none" /\ ret' = "fail"
    /\ depth' = depth /\ call' = call /\ root' = root /\ frames' = frames

\* It returns to the one that called it.
ReturnedTo(fr) ==
    /\ Busy /\ ret # "none" /\ depth > 1 /\ depth' = depth - 1
    /\ call' = call /\ root' = root
    /\ FrameOK(fr) /\ Like(fr, frames[depth - 1])
    /\ ret' = ret \/ (ret = "ok" /\ ret' = "none" /\ fr.kind = "message")
    /\ fr.phase = IF ret' # "none" THEN "inside" ELSE "tag"
    /\ ret = "ok" => /\ fr.left = frames[depth - 1].left
                     /\ fr.at = Top.at + Top.left
    /\ frames' = [frames EXCEPT ![depth - 1] = fr]

\* The caller calls.
Called(fr) ==
    /\ ~Busy /\ call' \in {"decode", "merge"} /\ root' \in Roots /\ ret' = "none" /\ depth' = 1
    /\ FrameOK(fr) /\ fr.msg = root' /\ fr.obj = <<>> /\ fr.kind \in {"outer", "message"}
    /\ fr.kind = "message" => (fr.owns <=> call' = "decode") /\ fr.phase = "tag"
    /\ fr.kind = "outer" => call' = "decode" /\ fr.phase = "value"
    /\ fr.at + fr.left = fr.end
    /\ frames' = [d \in 1 .. MaxDepth |-> fr]

\* He has his answer, or releases the message.
Answered ==
    /\ depth = 1 /\ depth' = 1 /\ root' = root /\ ret' = "none"
    /\ call' \in {"idle", "held", "broken"}
    /\ call' = "held" => Busy /\ ret = "ok"
    /\ frames' \in [1 .. MaxDepth -> Frame] /\ \A d \in 1 .. MaxDepth : FrameOK(frames'[d])

\* What every step leaves of the memory.
Remembered ==
    /\ mem' \in Memory /\ lost' \in Nat
    /\ \A o \in DOMAIN mem.done : Len(o) <= Len(Top.obj) => o \in DOMAIN mem'.done

\* The fields of a stream that was read from.
LEMMA TookFields ==
    ASSUME NEW fr \in Frame, NEW n \in Nat, n <= fr.left
    PROVE  /\ Took(fr, n) \in Frame /\ Like(Took(fr, n), fr)
           /\ Took(fr, n).left = fr.left - n /\ Took(fr, n).at = fr.at + n
           /\ Took(fr, n).at + Took(fr, n).left = fr.at + fr.left
           /\ Took(fr, n).phase = fr.phase /\ Took(fr, n).field = fr.field
           /\ Took(fr, n).wire = fr.wire /\ Took(fr, n).seen = fr.seen
           /\ Took(fr, n).fixed = fr.fixed /\ Took(fr, n).room = fr.room
<1>1. fr.left \in Nat /\ fr.at \in Nat /\ fr.left - n \in Nat /\ fr.at + n \in Nat
  BY DEF Frame
<1>2. (fr.at + n) + (fr.left - n) = fr.at + fr.left
  BY <1>1
<1> QED BY <1>1, <1>2 DEF Took, Frame, Like

\* The fields of a call that looks for the next field.
LEMMA NextTagFields ==
    ASSUME NEW fr \in Frame
    PROVE  /\ NextTag(fr) \in Frame /\ Like(NextTag(fr), fr)
           /\ NextTag(fr).left = fr.left /\ NextTag(fr).at = fr.at
           /\ NextTag(fr).phase = "tag" /\ NextTag(fr).field = 0
           /\ NextTag(fr).seen = fr.seen /\ NextTag(fr).fixed = fr.fixed
           /\ NextTag(fr).room = fr.room
  BY DEF NextTag, Frame, Like, Phases, Wires

\* A call stays the one that was made.
LEMMA LinkKept ==
    ASSUME NEW p, NEW c, NEW e, Link(p, c), Like(e, c), c.kind = "packed" => e.field = c.field
    PROVE  Link(p, e)
<1>1. e.kind = c.kind /\ e.msg = c.msg /\ e.obj = c.obj /\ e.owns = c.owns
  BY DEF Like
<1>2. e.owns <=> c.owns
  BY <1>1
<1>3. p.kind = "outer" => e.kind = "message" /\ e.msg = p.msg /\ e.obj = <<>> /\ e.owns
  BY <1>1, <1>2 DEF Link
<1>4. e.kind = "message" /\ p.kind = "message" =>
          /\ Msg[p.msg][p.field].type = "message" /\ Msg[p.msg][p.field].alloc # "callback"
          /\ e.msg = Msg[p.msg][p.field].sub
          /\ e.owns <=> Msg[p.msg][p.field].rule = "repeated"
          /\ Len(e.obj) = Len(p.obj) + 1
          /\ \E j \in Nat \ {0} : e.obj = Item(p.obj, p.msg, p.field, j)
  BY <1>1, <1>2 DEF Link
<1> QED BY <1>1, <1>3, <1>4 DEF Link

\* Reading on keeps the stack in order.
LEMMA MovedCalls ==
    ASSUME Calls, NEW fr, MovedTo(fr), Remembered
    PROVE  Calls'
<1>1. /\ depth \in 1 .. MaxDepth /\ depth' = depth /\ depth \in Nat
      /\ fr \in Frame /\ FrameOK(fr) /\ Like(fr, Top) /\ fr.kind # "outer"
      /\ frames \in [1 .. MaxDepth -> Frame] /\ MaxDepth \in Nat
      /\ frames' = [frames EXCEPT ![depth] = fr]
  BY DecodeAssumption DEF Calls, Typed, MovedTo, FrameOK
<1>2. /\ frames'[depth] = fr /\ \A d \in 1 .. MaxDepth : d # depth => frames'[d] = frames[d]
      /\ frames' \in [1 .. MaxDepth -> Frame]
      /\ \A d \in 1 .. MaxDepth : Like(frames'[d], frames[d])
  BY <1>1 DEF Like, Top
<1>3. Typed'
  <2>1. \A d \in 1 .. MaxDepth : FrameOK(frames'[d])
    BY <1>1, <1>2 DEF Calls, Typed
  <2> QED BY <1>1, <1>2, <2>1 DEF Typed, MovedTo, Remembered, Calls, FrameOK
<1>4. Chained'
  <2>1. \A d \in 1 .. depth - 1 : Link(frames[d], frames[d + 1])
    BY DEF Calls, Chained
  <2>2. \A d \in 1 .. depth - 1 :
           d \in 1 .. MaxDepth /\ d + 1 \in 1 .. MaxDepth /\ d # depth
    BY <1>1
  <2>3. \A d \in 1 .. depth - 1 : Link(frames[d], frames'[d + 1])
    <3>1. ASSUME NEW d \in 1 .. depth - 1, d + 1 = depth
          PROVE  Link(frames[d], frames'[d + 1])
      <4>1. Link(frames[d], Top) /\ frames'[d + 1] = fr
        BY <1>1, <1>2, <2>1, <3>1 DEF Top
      <4>2. Top.kind = "packed" => fr.field = Top.field
        BY DEF MovedTo, Like
      <4> QED BY <1>1, <4>1, <4>2, LinkKept
    <3>2. ASSUME NEW d \in 1 .. depth - 1, d + 1 # depth
          PROVE  Link(frames[d], frames'[d + 1])
      BY <1>2, <2>1, <2>2, <3>2
    <3> QED BY <3>1, <3>2
  <2> QED BY <1>1, <1>2, <2>2, <2>3 DEF Chained
<1>5. Stacked'
  BY <1>1, <1>2 DEF Calls, Stacked, Like
<1>6. Bottom'
  <2>1. 1 \in 1 .. MaxDepth /\ Like(frames'[1], frames[1])
    BY <1>1, <1>2
  <2> QED BY <1>1, <1>2, <2>1 DEF Calls, Bottom, Like, MovedTo, Busy, Top
<1>7. InStep'
  <2>1. \A d \in 1 .. depth - 1 : frames[d + 1].end + frames[d].left = frames[d].end
    BY DEF Calls, InStep, MovedTo
  <2>2. \A d \in 1 .. depth - 1 : /\ frames'[d] = frames[d]
                                  /\ frames'[d + 1].end = frames[d + 1].end
    BY <1>1, <1>2 DEF Like
  <2>3. fr.at + fr.left = fr.end
    BY DEF Calls, InStep, MovedTo, Like
  <2> QED BY <1>1, <1>2, <2>1, <2>2, <2>3 DEF InStep, Top
<1>8. EnteredAll'
  <2>1. Top \in Frame /\ frames[depth] = Top /\ Top.kind # "outer" /\ Top.obj \in Path
    BY <1>1 DEF Top, Like, Calls, Typed, FrameOK
  <2>2. ASSUME NEW d \in 1 .. depth, frames'[d].kind # "outer" \/ frames'[d].phase = "inside"
        PROVE  frames'[d].obj \in DOMAIN mem'.done
    <3>1. frames[d].kind # "outer" \/ frames[d].phase = "inside"
      BY <1>1, <1>2, <2>1, <2>2 DEF Like
    <3>2. frames[d].obj \in DOMAIN mem.done
      BY <3>1 DEF Calls, EnteredAll, MovedTo
    <3>3. Len(frames[d].obj) <= Len(Top.obj)
      <4>1. CASE d = depth
        BY <2>1, <4>1, PathSeq
      <4>2. CASE d # depth
        BY <1>1, <2>1, <4>2 DEF Calls, Stacked, Under
      <4> QED BY <4>1, <4>2
    <3>4. frames'[d].obj = frames[d].obj
      BY <1>1, <1>2 DEF Like
    <3> QED BY <3>2, <3>3, <3>4 DEF Remembered
  <2> QED BY <1>1, <2>2 DEF EnteredAll, MovedTo, Busy
<1>9. Numbered'
  <2>1. Top' = fr
    BY <1>1, <1>2 DEF Top
  <2> QED BY <2>1 DEF Numbered, MovedTo
<1> QED BY <1>3, <1>4, <1>5, <1>6, <1>7, <1>8, <1>9 DEF Calls

\* A nested call goes on top of the stack.
LEMMA OpenedCalls ==
    ASSUME Calls, NEW parent, NEW child, Opened(parent, child), Remembered,
           child.obj \in DOMAIN mem'.done
    PROVE  Calls'
<1>1. /\ depth \in 1 .. MaxDepth /\ depth' = depth + 1 /\ depth \in Nat /\ depth < MaxDepth
      /\ depth + 1 \in 1 .. MaxDepth
      /\ parent \in Frame /\ FrameOK(parent) /\ Like(parent, Top)
      /\ child \in Frame /\ FrameOK(child) /\ Link(parent, child)
      /\ frames \in [1 .. MaxDepth -> Frame] /\ MaxDepth \in Nat
      /\ frames' = [frames EXCEPT ![depth] = parent, ![depth + 1] = child]
      /\ Busy /\ call' = call /\ root' = root /\ ret = "none" /\ ret' = "none"
  BY DecodeAssumption DEF Calls, Typed, Opened, FrameOK
<1>2. /\ frames'[depth] = parent /\ frames'[depth + 1] = child
      /\ \A d \in 1 .. MaxDepth : d # depth /\ d # depth + 1 => frames'[d] = frames[d]
      /\ frames' \in [1 .. MaxDepth -> Frame]
      /\ \A d \in 1 .. depth : Like(frames'[d], frames[d])
  <2>1. /\ frames'[depth + 1] = child /\ frames' \in [1 .. MaxDepth -> Frame]
        /\ \A d \in 1 .. MaxDepth : d # depth /\ d # depth + 1 => frames'[d] = frames[d]
    BY <1>1
  <2>2. frames'[depth] = parent
    <3>1. depth # depth + 1
      BY <1>1
    <3> QED BY <1>1, <3>1
  <2>3. Like(frames'[depth], frames[depth])
    BY <1>1, <2>2 DEF Top
  <2>4. ASSUME NEW d \in 1 .. depth, d # depth
        PROVE  Like(frames'[d], frames[d])
    <3>1. d \in 1 .. MaxDepth /\ d # depth + 1
      BY <1>1
    <3> QED BY <2>1, <2>4, <3>1 DEF Like
  <2> QED BY <2>1, <2>2, <2>3, <2>4
<1>3. Typed'
  <2>1. \A d \in 1 .. MaxDepth : FrameOK(frames'[d])
    BY <1>1, <1>2 DEF Calls, Typed
  <2> QED BY <1>1, <1>2, <2>1 DEF Typed, Remembered, Calls
<1>4. Chained'
  <2>1. \A d \in 1 .. depth - 1 : Link(frames[d], frames[d + 1])
    BY DEF Calls, Chained
  <2>2. \A d \in 1 .. depth - 1 : Link(frames'[d], frames'[d + 1])
    <3>1. ASSUME NEW d \in 1 .. depth - 1, d + 1 = depth
          PROVE  Link(frames'[d], frames'[d + 1])
      <4>1. Link(frames[d], Top) /\ frames'[d + 1] = parent /\ frames'[d] = frames[d]
        BY <1>1, <1>2, <2>1, <3>1 DEF Top
      <4>2. Top.kind # "packed"
        BY <1>1 DEF Link, Like
      <4> QED BY <1>1, <4>1, <4>2, LinkKept
    <3>2. ASSUME NEW d \in 1 .. depth - 1, d + 1 # depth
          PROVE  Link(frames'[d], frames'[d + 1])
      <4>1. /\ d \in 1 .. MaxDepth /\ d + 1 \in 1 .. MaxDepth
            /\ d # depth /\ d # depth + 1 /\ d + 1 # depth + 1
        BY <1>1
      <4> QED BY <1>2, <2>1, <3>2, <4>1
    <3> QED BY <3>1, <3>2
  <2>3. \A d \in 1 .. depth : d = depth \/ d \in 1 .. depth - 1
    BY <1>1
  <2>4. depth' - 1 = depth
    BY <1>1
  <2> QED BY <1>1, <1>2, <2>2, <2>3, <2>4 DEF Chained
<1>5. Stacked'
  <2>1. SUFFICES ASSUME NEW d \in 1 .. depth + 1, NEW e \in 1 .. depth + 1, d < e
                 PROVE  /\ Under(frames'[d].obj, frames'[e].obj)
                        /\ frames'[d].kind = "message" /\ frames'[e].kind = "message" =>
                              Len(frames'[d].obj) < Len(frames'[e].obj)
    BY <1>1 DEF Stacked
  <2>2. CASE e # depth + 1
    <3>1. d \in 1 .. depth /\ e \in 1 .. depth
      BY <1>1, <2>1, <2>2
    <3> QED BY <1>2, <2>1, <3>1 DEF Like, Calls, Stacked
  <2>3. CASE e = depth + 1
    <3>1. /\ d \in 1 .. depth /\ frames'[d].obj = frames[d].obj
          /\ frames'[d].kind = frames[d].kind
      BY <1>1, <1>2, <2>1, <2>3 DEF Like
    <3>2. /\ Under(Top.obj, child.obj) /\ Top.obj \in Path /\ child.obj \in Path
          /\ frames[d].obj \in Path
      BY <1>1, <3>1 DEF Opened, Like, Calls, Typed, FrameOK
    <3>3. /\ Len(Top.obj) \in Nat /\ Len(child.obj) \in Nat /\ Len(frames[d].obj) \in Nat
      BY <3>2, PathSeq
    <3>4. Under(frames[d].obj, Top.obj)
      <4>1. CASE d = depth
        BY <3>3, <4>1 DEF Top, Under
      <4>2. CASE d # depth
        BY <1>1, <3>1, <4>2 DEF Top, Calls, Stacked
      <4> QED BY <4>1, <4>2
    <3>5. Under(frames[d].obj, child.obj)
      BY <3>2, <3>3, <3>4 DEF Under
    <3>6. child.kind = "message" /\ frames[d].kind = "message" =>
             Len(frames[d].obj) < Len(child.obj)
      <4>1. SUFFICES ASSUME child.kind = "message", frames[d].kind = "message"
                     PROVE  Len(frames[d].obj) < Len(child.obj)
        OBVIOUS
      <4>2. CASE parent.kind = "message"
        <5>1. Len(child.obj) = Len(Top.obj) + 1
          BY <1>1, <4>1, <4>2 DEF Link, Like
        <5>2. Len(frames[d].obj) <= Len(Top.obj)
          BY <3>4 DEF Under
        <5> QED BY <3>3, <5>1, <5>2
      <4>3. CASE parent.kind # "message"
        <5>1. Top.kind = "outer" /\ frames[depth] = Top
          BY <1>1, <4>3 DEF Link, Like, Top
        <5>2. d \in 1 .. depth - 1
          BY <1>1, <3>1, <4>1, <5>1
        <5>3. depth - 1 \in 1 .. depth - 1 /\ (depth - 1) + 1 = depth
          BY <1>1, <5>2
        <5>4. Link(frames[depth - 1], frames[depth])
          BY <5>3 DEF Calls, Chained
        <5> QED BY <5>1, <5>4 DEF Link
      <4> QED BY <4>2, <4>3
    <3> QED BY <1>2, <2>3, <3>1, <3>5, <3>6
  <2> QED BY <2>2, <2>3
<1>6. Bottom'
  <2>1. 1 \in 1 .. depth /\ Like(frames'[1], frames[1])
    BY <1>1, <1>2
  <2> QED BY <1>1, <2>1 DEF Calls, Bottom, Like, Busy
<1>7. InStep'
  <2>1. /\ \A d \in 1 .. depth - 1 : frames[d + 1].end + frames[d].left = frames[d].end
    BY <1>1 DEF Calls, InStep
  <2>2. \A d \in 1 .. depth - 1 : /\ frames'[d] = frames[d]
                                  /\ frames'[d + 1].end = frames[d + 1].end
    BY <1>1, <1>2 DEF Like
  <2>3. /\ child.at + child.left = child.end
        /\ frames'[depth + 1].end + frames'[depth].left = frames'[depth].end
    BY <1>2 DEF Opened
  <2>4. \A d \in 1 .. depth : frames'[d + 1].end + frames'[d].left = frames'[d].end
    <3>1. \A d \in 1 .. depth : d = depth \/ d \in 1 .. depth - 1
      BY <1>1
    <3> QED BY <2>1, <2>2, <2>3, <3>1
  <2>5. depth' - 1 = depth
    BY <1>1
  <2> QED BY <1>1, <1>2, <2>3, <2>4, <2>5 DEF InStep, Top
<1>8. EnteredAll'
  <2>1. /\ frames[depth] = Top /\ Top.obj \in Path
    BY <1>1 DEF Top, Calls, Typed, FrameOK
  <2>2. ASSUME NEW d \in 1 .. depth + 1, frames'[d].kind # "outer" \/ frames'[d].phase = "inside"
        PROVE  frames'[d].obj \in DOMAIN mem'.done
    <3>1. CASE d = depth + 1
      BY <1>2, <3>1
    <3>2. CASE d # depth + 1 /\ (frames[d].kind # "outer" \/ frames[d].phase = "inside")
      <4>1. d \in 1 .. depth /\ frames'[d].obj = frames[d].obj
        BY <1>1, <1>2, <3>2 DEF Like
      <4>2. frames[d].obj \in DOMAIN mem.done
        BY <1>1, <3>2, <4>1 DEF Calls, EnteredAll
      <4>3. Len(frames[d].obj) <= Len(Top.obj)
        <5>1. CASE d = depth
          BY <2>1, <5>1, PathSeq
        <5>2. CASE d # depth
          BY <1>1, <2>1, <4>1, <5>2 DEF Calls, Stacked, Under
        <5> QED BY <5>1, <5>2
      <4> QED BY <4>1, <4>2, <4>3 DEF Remembered
    <3>3. CASE d # depth + 1 /\ frames[d].kind = "outer" /\ frames[d].phase # "inside"
      <4>1. d \in 1 .. depth /\ frames'[d].kind = "outer"
        BY <1>1, <1>2, <3>3 DEF Like
      <4>2. d = depth
        <5>1. d # depth => d \in 1 .. depth - 1
          BY <1>1, <4>1
        <5> QED BY <3>3, <5>1 DEF Calls, Chained, Link
      <4>3. parent.kind = "outer" /\ parent.obj = <<>>
        BY <1>1, <1>2, <4>1, <4>2 DEF FrameOK
      <4> QED BY <1>1, <1>2, <4>2, <4>3 DEF Link
    <3> QED BY <3>1, <3>2, <3>3
  <2> QED BY <1>1, <2>2 DEF EnteredAll, Busy
<1>9. Numbered'
  <2>1. Top' = child /\ (child.kind = "message" => child.phase = "tag")
    BY <1>1, <1>2 DEF Top, Opened
  <2> QED BY <2>1 DEF Numbered, NumberedIn
<1> QED BY <1>3, <1>4, <1>5, <1>6, <1>7, <1>8, <1>9 DEF Calls

\* A failing call is still the innermost.
LEMMA FailedCalls ==
    ASSUME Calls, Failed, Remembered
    PROVE  Calls'
<1>1. /\ depth' = depth /\ frames' = frames /\ call' = call /\ root' = root
      /\ Busy /\ ret' = "fail" /\ depth \in 1 .. MaxDepth /\ MaxDepth \in Nat
  BY DecodeAssumption DEF Failed, Calls, Typed
<1>2. Typed' /\ Chained' /\ Stacked' /\ InStep'
  BY <1>1 DEF Calls, Typed, Chained, Stacked, InStep, Remembered, Busy
<1>3. Bottom'
  BY <1>1 DEF Calls, Bottom, Busy
<1>4. EnteredAll'
  <2>1. Top.obj \in Path
    BY <1>1 DEF Top, Calls, Typed, FrameOK
  <2>2. ASSUME NEW d \in 1 .. depth, frames[d].kind # "outer" \/ frames[d].phase = "inside"
        PROVE  frames[d].obj \in DOMAIN mem'.done
    <3>1. frames[d].obj \in DOMAIN mem.done
      BY <1>1, <2>2 DEF Calls, EnteredAll
    <3>2. Len(frames[d].obj) <= Len(Top.obj)
      <4>1. CASE d = depth
        BY <2>1, <4>1, PathSeq DEF Top
      <4>2. CASE d # depth
        BY <1>1, <4>2 DEF Calls, Stacked, Under, Top
      <4> QED BY <4>1, <4>2
    <3> QED BY <3>1, <3>2 DEF Remembered
  <2> QED BY <1>1, <2>2 DEF EnteredAll, Busy
<1>9. Numbered'
  BY <1>1 DEF Numbered
<1> QED BY <1>2, <1>3, <1>4, <1>9 DEF Calls

\* The call below goes on where the nested one stopped.
LEMMA ReturnedCalls ==
    ASSUME Calls, NEW fr, ReturnedTo(fr), Remembered
    PROVE  Calls'
<1> DEFINE e == depth - 1
<1>1. /\ depth \in 1 .. MaxDepth /\ depth' = e /\ e \in 1 .. MaxDepth /\ e \in Nat /\ depth = e + 1
      /\ e \in 1 .. depth - 1 /\ e \in 1 .. depth
      /\ fr \in Frame /\ FrameOK(fr) /\ Like(fr, frames[e])
      /\ frames \in [1 .. MaxDepth -> Frame] /\ MaxDepth \in Nat
      /\ frames' = [frames EXCEPT ![e] = fr]
      /\ Busy /\ call' = call /\ root' = root /\ ret' \in {"none", "ok", "fail"}
      /\ ret # "none"
  BY DecodeAssumption DEF Calls, Typed, ReturnedTo, FrameOK
<1>h. /\ \A d \in 1 .. e : d \in 1 .. depth /\ (d # e => d \in 1 .. depth - 1 /\ d \in 1 .. e - 1)
      /\ \A d \in 1 .. e - 1 : d \in 1 .. depth - 1 /\ d + 1 \in 1 .. e /\ d # e
  BY <1>1
<1> HIDE DEF e
<1>2. /\ frames'[e] = fr /\ \A d \in 1 .. MaxDepth : d # e => frames'[d] = frames[d]
      /\ frames' \in [1 .. MaxDepth -> Frame]
      /\ \A d \in 1 .. MaxDepth : Like(frames'[d], frames[d])
  BY <1>1 DEF Like
<1>3. Typed'
  <2>1. \A d \in 1 .. MaxDepth : FrameOK(frames'[d])
    BY <1>1, <1>2 DEF Calls, Typed
  <2> QED BY <1>1, <1>2, <2>1 DEF Typed, Remembered, Calls
<1>c. Link(frames[e], frames[depth])
  BY <1>1 DEF Calls, Chained
<1>4. Chained'
  <2>1. ASSUME NEW d \in 1 .. e - 1
        PROVE  Link(frames'[d], frames'[d + 1])
    <3>1. Link(frames[d], frames[d + 1]) /\ frames'[d] = frames[d]
      BY <1>1, <1>2, <1>h DEF Calls, Chained
    <3>2. CASE d + 1 # e
      BY <1>1, <1>2, <1>h, <3>1, <3>2
    <3>3. CASE d + 1 = e
      <4>1. frames[e].kind # "packed"
        BY <1>c DEF Link
      <4> QED BY <1>1, <1>2, <3>1, <3>3, <4>1, LinkKept
    <3> QED BY <3>2, <3>3
  <2> QED BY <1>1, <2>1 DEF Chained
<1>5. Stacked'
  BY <1>1, <1>2, <1>h DEF Calls, Stacked, Like
<1>6. Bottom'
  <2>1. 1 \in 1 .. MaxDepth /\ Like(frames'[1], frames[1]) /\ Like(fr, frames'[e])
    BY <1>1, <1>2 DEF Like
  <2>2. ret' = "ok" => fr.kind # "outer" \/ fr.phase = "inside"
    BY DEF ReturnedTo
  <2>3. Top' = fr
    BY <1>1, <1>2 DEF Top
  <2> QED BY <1>1, <2>1, <2>2, <2>3 DEF Calls, Bottom, Like, Busy
<1>7. InStep'
  <2>1. SUFFICES ASSUME ret' # "fail"
                 PROVE  /\ fr.at + fr.left = fr.end
                        /\ \A d \in 1 .. e - 1 : frames'[d + 1].end + frames'[d].left = frames'[d].end
    BY <1>1, <1>2 DEF InStep, Top
  <2>2. ret = "ok"
    BY <1>1, <2>1 DEF ReturnedTo, Calls, Typed
  <2>3. /\ Top.at + Top.left = Top.end
        /\ \A d \in 1 .. depth - 1 : frames[d + 1].end + frames[d].left = frames[d].end
    BY <1>1, <2>2 DEF Calls, InStep
  <2>4. fr.left = frames[e].left /\ fr.at = Top.at + Top.left /\ fr.end = frames[e].end
    BY <1>1, <2>2 DEF ReturnedTo, e, Like
  <2>5. frames[depth].end + frames[e].left = frames[e].end
    BY <1>1, <2>3
  <2>6. fr.at + fr.left = fr.end
    BY <2>3, <2>4, <2>5 DEF Top
  <2>7. \A d \in 1 .. e - 1 : /\ frames'[d] = frames[d]
                              /\ frames'[d + 1].end = frames[d + 1].end
    BY <1>1, <1>2, <1>h DEF Like
  <2> QED BY <1>h, <2>3, <2>6, <2>7
<1>8. EnteredAll'
  <2>2. ASSUME NEW d \in 1 .. e
        PROVE  frames'[d].obj \in DOMAIN mem'.done
    <3>1. frames[d].phase = "inside" /\ frames'[d].obj = frames[d].obj
      BY <1>1, <1>2, <1>h DEF Like, Calls, Chained, Link
    <3>2. frames[d].obj \in DOMAIN mem.done
      BY <1>1, <1>h, <3>1 DEF Calls, EnteredAll
    <3>3. Len(frames[d].obj) <= Len(Top.obj)
      <4>1. d \in 1 .. depth /\ depth \in 1 .. depth /\ d < depth
        BY <1>1, <1>h
      <4> QED BY <4>1 DEF Calls, Stacked, Under, Top
    <3> QED BY <3>1, <3>2, <3>3 DEF Remembered
  <2> QED BY <1>1, <2>2 DEF EnteredAll, Busy
<1>9. Numbered'
  <2>1. Top' = fr
    BY <1>1, <1>2 DEF Top
  <2> QED BY <2>1 DEF Numbered, NumberedIn, ReturnedTo
<1> QED BY <1>3, <1>4, <1>5, <1>6, <1>7, <1>8, <1>9 DEF Calls

\* A new call is alone on the stack.
LEMMA CalledCalls ==
    ASSUME Calls, NEW fr, Called(fr), mem' \in Memory, lost' \in Nat,
           fr.kind = "message" => <<>> \in DOMAIN mem'.done
    PROVE  Calls'
<1>1. /\ depth' = 1 /\ ret' = "none" /\ call' \in {"decode", "merge"} /\ root' \in Roots
      /\ FrameOK(fr) /\ fr \in Frame /\ MaxDepth \in Nat \ {0}
      /\ frames' = [d \in 1 .. MaxDepth |-> fr] /\ 1 \in 1 .. MaxDepth
  BY DecodeAssumption DEF Called, FrameOK
<1>2. frames' \in [1 .. MaxDepth -> Frame] /\ \A d \in 1 .. MaxDepth : frames'[d] = fr
  BY <1>1
<1>3. Typed'
  BY <1>1, <1>2 DEF Typed
<1>4. Chained' /\ Stacked'
  BY <1>1 DEF Chained, Stacked
<1>5. Bottom'
  BY <1>1, <1>2 DEF Bottom, Called, Busy
<1>6. InStep'
  BY <1>1, <1>2 DEF InStep, Called, Top
<1>7. EnteredAll'
  BY <1>1, <1>2 DEF EnteredAll, Called, Busy
<1>9. Numbered'
  BY <1>1, <1>2 DEF Numbered, NumberedIn, Called, Top
<1> QED BY <1>3, <1>4, <1>5, <1>6, <1>7, <1>9 DEF Calls

\* Nothing is open between two calls.
LEMMA AnsweredCalls ==
    ASSUME Calls, Answered, mem' \in Memory, lost' \in Nat, call' = "held" => mem' = mem
    PROVE  Calls'
<1>1. /\ depth = 1 /\ depth' = 1 /\ ret' = "none" /\ root' = root /\ 1 \in 1 .. MaxDepth
      /\ call' \in {"idle", "held", "broken"} /\ ~Busy' /\ root \in Roots
  BY DecodeAssumption DEF Answered, Busy, Calls, Typed
<1>2. Typed'
  BY <1>1 DEF Typed, Answered
<1>3. Chained' /\ Stacked' /\ Bottom' /\ InStep'
  BY <1>1 DEF Chained, Stacked, Bottom, InStep
<1>4. EnteredAll'
  <2>1. CASE call' = "held"
    <3>1. /\ Busy /\ ret = "ok" /\ Top = frames[1] /\ mem' = mem
      BY <1>1, <2>1 DEF Answered, Top
    <3>2. frames[1].obj = <<>> /\ (frames[1].kind # "outer" \/ frames[1].phase = "inside")
      BY <3>1 DEF Calls, Bottom
    <3>3. frames[1].obj \in DOMAIN mem.done
      BY <1>1, <3>1, <3>2 DEF Calls, EnteredAll
    <3> QED BY <1>1, <3>1, <3>2, <3>3 DEF EnteredAll
  <2>2. CASE call' # "held"
    BY <1>1, <2>2 DEF EnteredAll
  <2> QED BY <2>1, <2>2
<1>9. Numbered'
  BY <1>1 DEF Numbered
<1> QED BY <1>2, <1>3, <1>4, <1>9 DEF Calls

-----------------------------------------------------------------------------
(***************************************************************************)
(* What each action does to the stack.                                     *)
(***************************************************************************)

\* What the innermost call may have become when it reads on.
ReadsOn(fr) ==
    /\ FrameOK(fr) /\ Like(fr, Top) /\ fr.phase # "inside" /\ fr.kind # "outer"
    /\ fr.kind = "packed" => fr.field = Top.field
    /\ fr.at + fr.left = Top.at + Top.left

\* What it may have made of the memory.
Kept(m) ==
    m \in Memory /\ \A o \in DOMAIN mem.done : Len(o) <= Len(Top.obj) => o \in DOMAIN m.done

\* The innermost call.
LEMMA AtTop ==
    ASSUME Calls
    PROVE  /\ Top \in Frame /\ FrameOK(Top) /\ Top.msg \in Messages /\ Top.obj \in Path
           /\ Top.left \in Nat /\ Top.at \in Nat /\ Top.end \in Nat /\ Top.owns \in BOOLEAN
           /\ Len(Top.obj) \in Nat /\ mem \in Memory /\ Kept(mem) /\ lost \in Nat
           /\ ret # "fail" /\ Busy => Top.at + Top.left = Top.end
<1>1. Top \in Frame /\ FrameOK(Top) /\ mem \in Memory /\ lost \in Nat
  BY DEF Calls, Typed, Top
<1>2. Top.obj \in Path /\ Len(Top.obj) \in Nat
  BY <1>1, PathSeq DEF FrameOK
<1> QED BY <1>1, <1>2 DEF Frame, Kept, Calls, InStep

\* The field it is at.
LEMMA FieldHere ==
    ASSUME Calls, AtField(Top)
    PROVE  /\ Top.field \in DOMAIN Msg[Top.msg] /\ Field \in FieldType
           /\ Field.sub \in Messages /\ Field.cap \in Nat /\ Field.width \in Nat \ {0}
           /\ Key \in Inner /\ Key = Item(Top.obj, Top.msg, Top.field, 0)
           /\ Len(Key) = Len(Top.obj) + 1 /\ Front(Key) = Top.obj
           /\ Last(Key) = <<Top.msg, Top.field, 0>> /\ FieldAt(Last(Key)) = Field
           /\ ItemOf(Top) = Item(Top.obj, Top.msg, Top.field,
                                 IF Array(Field) THEN Get(mem.count, Key) ELSE 1)
           /\ Get(mem.count, Key) \in Nat
<1>1. Top.field \in DOMAIN Msg[Top.msg] /\ Top.msg \in Messages /\ Top.obj \in Path
  BY AtTop DEF FrameOK
<1>2. Field \in FieldType /\ Field.sub \in Messages /\ Field.cap \in Nat /\ Field.width \in Nat \ {0}
  BY <1>1, FieldTyped DEF Field
<1>3. Key = Item(Top.obj, Top.msg, Top.field, 0) /\ 0 \in Nat
  BY DEF Key, Member, Item
<1>4. /\ Key \in Inner /\ Len(Key) = Len(Top.obj) + 1 /\ Front(Key) = Top.obj
      /\ Last(Key) = <<Top.msg, Top.field, 0>>
  BY <1>1, <1>3, Extended
<1>5. FieldAt(Last(Key)) = Field
  BY <1>4 DEF FieldAt, Field
<1>6. ItemOf(Top) = Item(Top.obj, Top.msg, Top.field,
                         IF Array(Field) THEN Get(mem.count, Key) ELSE 1)
  BY DEF ItemOf, Item, Key, Member, Field
<1>7. Get(mem.count, Key) \in Nat
  BY AtTop, CountsParts DEF Memory
<1> QED BY <1>1, <1>2, <1>3, <1>4, <1>5, <1>6, <1>7

\* A call that reads on.
LEMMA StayCalls ==
    ASSUME Calls, Busy, ret = "none", NEW fr, ReadsOn(fr), NEW m, Kept(m), lost' \in Nat,
           NumberedIn(fr, m), Stay(fr, m)
    PROVE  Calls' /\ mem' = m /\ MovedTo(fr) /\ ret' = "none"
<1>1. MovedTo(fr) /\ mem' = m /\ ret' = "none"
  BY DEF MovedTo, Stay, ReadsOn, NumberedIn
<1>2. Remembered
  BY <1>1 DEF Remembered, Kept
<1> QED BY <1>1, <1>2, MovedCalls

\* A call that fails.
LEMMA FailCalls ==
    ASSUME Calls, Busy, ret = "none", NEW m, Kept(m), Fail(m)
    PROVE  Calls' /\ Failed
<1>1. Failed
  BY DEF Failed, Fail
<1>2. Remembered
  <2>1. CASE Top.owns
    <3>1. mem' = ReleaseObject(m, Top.obj) /\ lost' = lost
      BY <2>1 DEF Fail
    <3>2. mem' = Released(m, {p \in Places(m) : IsStrictPrefix(Top.obj, p)}, Len(Top.obj) + 1)
      BY <3>1 DEF ReleaseObject
    <3>3. mem' \in Memory /\ mem'.done = m.done
      BY <3>2, ReleasedMem DEF Kept
    <3> QED BY <3>1, <3>3, AtTop DEF Remembered, Kept
  <2>2. CASE ~Top.owns
    BY <2>2, AtTop DEF Fail, Remembered, Kept
  <2> QED BY <2>1, <2>2
<1> QED BY <1>1, <1>2, FailedCalls

\* What is read from the stream stays in step.
LEMMA TookReadsOn ==
    ASSUME Calls, Top.kind # "outer", Top.phase # "inside", NEW n \in Nat, n <= Top.left
    PROVE  ReadsOn(Took(Top, n)) /\ (Top.kind = "message" => ReadsOn(NextTag(Took(Top, n))))
<1>1. Top \in Frame /\ FrameOK(Top)
  BY AtTop
<1> DEFINE fr == Took(Top, n)
           nt == NextTag(fr)
<1>2. /\ fr \in Frame /\ Like(fr, Top) /\ fr.at + fr.left = Top.at + Top.left
      /\ fr.phase = Top.phase /\ fr.field = Top.field /\ fr.fixed = Top.fixed
  BY <1>1, TookFields
<1>3. /\ nt \in Frame /\ Like(nt, fr) /\ nt.at = fr.at /\ nt.left = fr.left
      /\ nt.phase = "tag" /\ nt.fixed = fr.fixed
  BY <1>2, NextTagFields
<1> HIDE DEF fr, nt
<1>4. FrameOK(fr)
  BY <1>1, <1>2 DEF FrameOK, Like, AtField
<1>5. Top.kind = "message" => FrameOK(nt)
  BY <1>1, <1>2, <1>3 DEF FrameOK, Like, AtField
<1>6. ReadsOn(fr)
  BY <1>2, <1>4 DEF ReadsOn, Like
<1>7. Top.kind = "message" => ReadsOn(nt)
  BY <1>2, <1>3, <1>5 DEF ReadsOn, Like
<1> QED BY <1>6, <1>7 DEF fr, nt

\* The message ends, or its call fails for what is missing.
LEMMA EndOfMessageCalls ==
    ASSUME Calls, EndOfMessage
    PROVE  Calls'
<1>1. Busy /\ ret = "none" /\ Top.kind = "message" /\ Top.phase = "tag"
  BY DEF EndOfMessage, Running
<1>2. CASE Fail(mem)
  BY <1>1, <1>2, AtTop, FailCalls
<1>3. CASE ~Fail(mem)
  <2>1. PICK n \in {0, 1} : (n = 0 <=> Top.left = 0) /\ frames' = [frames EXCEPT ![depth] = Took(Top, n)]
    BY <1>3 DEF EndOfMessage
  <2>2. n \in Nat /\ n <= Top.left
    BY <2>1, AtTop
  <2>3. ReadsOn(Took(Top, n))
    BY <1>1, <2>2, TookReadsOn
  <2>4. MovedTo(Took(Top, n)) /\ Remembered
    BY <1>1, <1>3, <2>1, <2>3, AtTop DEF EndOfMessage, MovedTo, ReadsOn, Remembered, Kept
  <2> QED BY <2>4, MovedCalls
<1> QED BY <1>2, <1>3

\* The tag of a field the message does not have is read.
LEMMA UnknownFieldCalls ==
    ASSUME Calls, NEW w \in Wires, UnknownField(w)
    PROVE  Calls'
<1>1. Busy /\ ret = "none" /\ Top.kind = "message" /\ Top.phase = "tag" /\ Top.left > 0
  BY DEF UnknownField, Running
<1> DEFINE t == Took(Top, 1)
           fr == [t EXCEPT !.phase = "skip", !.wire = w]
<1>2. 1 <= Top.left /\ 1 \in Nat
  BY <1>1, AtTop
<1>3. /\ t \in Frame /\ Like(t, Top) /\ t.at + t.left = Top.at + Top.left
      /\ t.fixed = Top.fixed
  BY <1>2, AtTop, TookFields
<1> HIDE DEF t
<1>4. /\ fr \in Frame /\ Like(fr, t) /\ fr.at = t.at /\ fr.left = t.left
      /\ fr.phase = "skip" /\ fr.fixed = t.fixed
  BY <1>3 DEF Frame, Like, Phases
<1>5. Stay(fr, mem) /\ lost' = lost
  BY DEF UnknownField, t
<1> HIDE DEF fr
<1>6. FrameOK(fr)
  BY <1>1, <1>3, <1>4, AtTop DEF FrameOK, Like, AtField
<1>7. ReadsOn(fr)
  BY <1>1, <1>3, <1>4, <1>6 DEF ReadsOn, Like
<1>8. NumberedIn(fr, mem)
  BY <1>4 DEF NumberedIn
<1> QED BY <1>1, <1>5, <1>7, <1>8, AtTop, StayCalls

\* What is skipped has a length.
LEMMA SkipLensNat ==
    ASSUME NEW w, NEW n \in SkipLens(w)
    PROVE  n \in Nat
<1>1. VarLens \subseteq Nat /\ FixedLens \subseteq Nat /\ Lengths \subseteq Nat
  BY DecodeAssumption
<1> QED BY <1>1 DEF SkipLens

\* A field the message does not have is skipped.
LEMMA SkipFieldCalls ==
    ASSUME Calls, SkipField
    PROVE  Calls'
<1>1. Busy /\ ret = "none" /\ Top.kind = "message" /\ Top.phase = "skip"
  BY DEF SkipField, Running
<1>2. PICK n \in SkipLens(Top.wire) : n <= Top.left /\ Stay(NextTag(Took(Top, n)), mem)
  BY DEF SkipField
<1>3. n \in Nat
  BY SkipLensNat
<1>4. ReadsOn(NextTag(Took(Top, n)))
  BY <1>1, <1>2, <1>3, TookReadsOn
<1>5. lost' \in Nat
  BY AtTop DEF SkipField
<1>6. NumberedIn(NextTag(Took(Top, n)), mem)
  BY <1>2, <1>3, AtTop, TookFields, NextTagFields DEF NumberedIn
<1> QED BY <1>1, <1>2, <1>4, <1>5, <1>6, AtTop, StayCalls

\* What keeps the objects that are open.
LEMMA KeptReleased ==
    ASSUME Calls, NEW m, Kept(m), NEW ps, NEW n
    PROVE  Kept(Released(m, ps, n))
  BY ReleasedMem DEF Kept

\* The release of a field keeps what was read.
LEMMA KeptField ==
    ASSUME Calls, NEW m, Kept(m), NEW p
    PROVE  Kept(ReleaseField(m, p))
  BY KeptReleased DEF ReleaseField

\* So does that of a union's other member.
LEMMA KeptUnion ==
    ASSUME Calls
    PROVE  Kept(UnionReleased)
  BY AtTop, KeptField DEF UnionReleased

\* So does which_ or has_ when it is set.
LEMMA KeptWhich ==
    ASSUME Calls, NEW m, Kept(m), NEW p \in Inner
    PROVE  Kept(Which(m, p)) /\ Kept([m EXCEPT !.has = @ \cup {p}])
<1>1. Kept(Which(m, p))
  BY WhichMem DEF Kept
<1>2. [m EXCEPT !.has = @ \cup {p}] \in Memory /\ [m EXCEPT !.has = @ \cup {p}].done = m.done
  BY DEF Kept, Memory
<1> QED BY <1>1, <1>2 DEF Kept

\* So does a block that is allocated, and an item that is counted.
LEMMA KeptArray ==
    ASSUME Calls, NEW m, Kept(m), NEW p \in Inner, NEW n \in Nat
    PROVE  Kept(Allocated(m, p, n)) /\ Kept(Counted(m, p, n))
<1>1. m \in Memory
  BY DEF Kept
<1>2. Allocated(m, p, n) \in Memory /\ Allocated(m, p, n).done = m.done
  BY <1>1, AllocatedMem
<1>3. Counted(m, p, n) \in Memory /\ Counted(m, p, n).done = m.done
  BY <1>1, CountedMem
<1> QED BY <1>2, <1>3 DEF Kept

\* What is cleared below the message keeps what was read above.
LEMMA KeptCleared ==
    ASSUME Calls, NEW m, Kept(m), NEW item \in Path, Len(Top.obj) < Len(item)
    PROVE  Kept(Cleared(m, item))
<1>1. m \in Memory
  BY DEF Kept
<1>2. /\ Cleared(m, item) \in Memory
      /\ \A p : p \in DOMAIN Cleared(m, item).done <=> p \in DOMAIN m.done /\ ~IsPrefix(item, p)
  BY <1>1, ClearedMem
<1>3. \A o \in DOMAIN m.done : Len(o) <= Len(Top.obj) => ~IsPrefix(item, o)
  <2>1. DOMAIN m.done \subseteq Path
    BY <1>1, ReadsParts DEF Memory
  <2> SUFFICES ASSUME NEW o \in DOMAIN m.done, Len(o) <= Len(Top.obj)
               PROVE  ~IsPrefix(item, o)
    OBVIOUS
  <2>2. Len(o) \in Nat /\ Len(item) \in Nat /\ Len(Top.obj) \in Nat
    BY <2>1, AtTop, PathSeq
  <2> QED BY <2>2 DEF IsPrefix
<1> QED BY <1>2, <1>3 DEF Kept

\* The tag of a field of the message is read.
LEMMA KnownFieldCalls ==
    ASSUME Calls, NEW w \in Wires, NEW i \in DOMAIN Msg[Top.msg], KnownField(i, w)
    PROVE  Calls'
<1>1. Busy /\ ret = "none" /\ Top.kind = "message" /\ Top.phase = "tag" /\ Top.left > 0
  BY DEF KnownField, Running
<1> DEFINE f == Msg[Top.msg][i]
           fresh == f.rule = "fixed" /\ Top.fixed # i
           t == Took(Top, 1)
           wire == IF Looks(f) THEN w ELSE t.wire
           fixed == IF fresh THEN i ELSE t.fixed
           seen == IF i \in Checked(Top.msg) THEN t.seen \cup {i} ELSE t.seen
           fr == [t EXCEPT !.phase = "field", !.field = i, !.wire = wire,
                           !.fixed = fixed, !.seen = seen]
           m == IF fresh THEN Counted(mem, Member(Top.obj, Top.msg, i), 0) ELSE mem
<1>2. 1 <= Top.left /\ 1 \in Nat /\ i \in Nat /\ Top.msg \in Messages
  BY <1>1, AtTop, FieldTyped
<1>3. /\ t \in Frame /\ Like(t, Top) /\ t.at + t.left = Top.at + Top.left
      /\ t.fixed = Top.fixed
  BY <1>2, AtTop, TookFields
<1>4. Member(Top.obj, Top.msg, i) = Item(Top.obj, Top.msg, i, 0) /\ 0 \in Nat
  BY DEF Member, Item
<1>5. Member(Top.obj, Top.msg, i) \in Inner
  BY <1>2, <1>4, AtTop, Extended
<1>6. Kept(m)
  BY <1>4, <1>5, AtTop, KeptArray
<1>7. fresh => f.rule = "fixed"
  OBVIOUS
<1>8. IF fresh /\ Short(Top) THEN Fail(mem) ELSE Stay(fr, m)
  BY DEF KnownField
<1>9. lost' = lost
  BY DEF KnownField
<1> HIDE DEF t, m, fresh
<1>10. wire \in Wires /\ fixed \in Nat /\ seen \in SUBSET Nat /\ ((fixed = i /\ fresh) \/ fixed = t.fixed)
  BY <1>2, <1>3 DEF Frame
<1> HIDE DEF wire, seen, fixed
<1>11. /\ fr \in Frame /\ Like(fr, t) /\ fr.at = t.at /\ fr.left = t.left
       /\ fr.phase = "field" /\ fr.fixed = fixed /\ fr.field = i
  BY <1>2, <1>3, <1>10 DEF Frame, Like, Phases
<1> HIDE DEF fr
<1>12. FrameOK(fr)
  <2>1. fr.fixed # 0 => fr.fixed \in DOMAIN Msg[fr.msg] /\ Msg[fr.msg][fr.fixed].rule = "fixed"
    <3>1. fr.msg = Top.msg /\ fr.fixed = fixed
      BY <1>3, <1>11 DEF Like
    <3>2. CASE fixed = i /\ fresh
      BY <1>7, <3>1, <3>2
    <3>3. CASE fixed = t.fixed
      BY <1>3, <3>1, <3>3, AtTop DEF FrameOK
    <3> QED BY <1>10, <3>2, <3>3
  <2> QED BY <1>1, <1>3, <1>11, <2>1, AtTop DEF FrameOK, Like, AtField
<1>13. ReadsOn(fr)
  BY <1>1, <1>3, <1>11, <1>12 DEF ReadsOn, Like
<1>14. CASE fresh /\ Short(Top)
  BY <1>1, <1>8, <1>14, AtTop, FailCalls
<1>15. CASE ~(fresh /\ Short(Top))
  <2>1. NumberedIn(fr, m)
    BY <1>11 DEF NumberedIn
  <2> QED BY <1>1, <1>6, <1>8, <1>9, <1>13, <1>15, <2>1, AtTop, StayCalls
<1> QED BY <1>14, <1>15

\* A field whose value is read next.
LEMMA ToValueCalls ==
    ASSUME Calls, Running("message", "field"), Field.alloc # "callback",
           NEW m, Kept(m), lost' \in Nat, ToValue(m),
           Array(Field) => Get(m.count, Key) > 0
    PROVE  Calls' /\ mem' = m
<1>1. Busy /\ ret = "none" /\ Top.kind = "message" /\ Top.phase = "field"
  BY DEF Running
<1> DEFINE fr == [Top EXCEPT !.phase = "value"]
<1>2. /\ fr \in Frame /\ Like(fr, Top) /\ fr.at = Top.at /\ fr.left = Top.left
      /\ fr.phase = "value" /\ fr.fixed = Top.fixed /\ fr.field = Top.field
  BY AtTop DEF Frame, Like, Phases
<1>3. Stay(fr, m)
  BY DEF ToValue
<1> HIDE DEF fr
<1>4. FrameOK(fr)
  BY <1>1, <1>2, AtTop DEF FrameOK, Like, AtField, Field
<1>5. ReadsOn(fr)
  BY <1>1, <1>2, <1>4 DEF ReadsOn, Like
<1>6. NumberedIn(fr, m)
  BY <1>2 DEF NumberedIn, Like, Field, Key
<1> QED BY <1>1, <1>3, <1>5, <1>6, StayCalls

\* The item of the field at Top with a number.
LEMMA ItemThere ==
    ASSUME Calls, AtField(Top), NEW j \in Nat
    PROVE  /\ Append(Top.obj, <<Top.msg, Top.field, j>>) = Item(Top.obj, Top.msg, Top.field, j)
           /\ Item(Top.obj, Top.msg, Top.field, j) \in Inner
           /\ Item(Top.obj, Top.msg, Top.field, j) \in Path
           /\ Len(Item(Top.obj, Top.msg, Top.field, j)) = Len(Top.obj) + 1
           /\ Len(Top.obj) < Len(Item(Top.obj, Top.msg, Top.field, j))
<1>1. Top.field \in DOMAIN Msg[Top.msg] /\ Top.msg \in Messages /\ Top.obj \in Path
  BY AtTop, FieldHere
<1>2. /\ Item(Top.obj, Top.msg, Top.field, j) \in Inner
      /\ Len(Item(Top.obj, Top.msg, Top.field, j)) = Len(Top.obj) + 1
  BY <1>1, Extended
<1> QED BY <1>2, AtTop DEF Item, Inner

\* A static field begins.
LEMMA BeginStaticCalls ==
    ASSUME Calls, BeginStatic
    PROVE  Calls'
<1>1. /\ Running("message", "field") /\ Field.alloc = "static" /\ ~Array(Field) /\ AtField(Top)
  BY DEF BeginStatic, Running, AtField
<1> DEFINE item == Append(Top.obj, <<Top.msg, Top.field, 1>>)
<1>2. item \in Path /\ Len(Top.obj) < Len(item)
  BY <1>1, ItemThere
<1>3. Field.rule \in {"required", "optional", "oneof"}
  BY <1>1, FieldHere DEF FieldType, Array
<1>4. \/ ToValue(UnionReleased) /\ lost' = lost
      \/ ToValue([UnionReleased EXCEPT !.has = @ \cup {Key}]) /\ lost' = lost
      \/ ToValue(Cleared(Which(UnionReleased, Key), item)) /\ lost' = lost + Forgets(UnionReleased, item)
      \/ ToValue(Which(UnionReleased, Key)) /\ lost' = lost
  BY <1>3 DEF BeginStatic
<1>5. /\ Kept(UnionReleased) /\ Kept([UnionReleased EXCEPT !.has = @ \cup {Key}])
      /\ Kept(Which(UnionReleased, Key))
  BY <1>1, FieldHere, KeptUnion, KeptWhich
<1>6. Kept(Cleared(Which(UnionReleased, Key), item)) /\ Forgets(UnionReleased, item) \in Nat
  BY <1>2, <1>5, KeptCleared, ForgottenCounted DEF Kept
<1> HIDE DEF item
<1>7. lost' \in Nat
  BY <1>4, <1>6, AtTop
<1> QED BY <1>1, <1>4, <1>5, <1>6, <1>7, ToValueCalls

\* What pb_release_union_field and the release of an old submessage leave.
PointerFree ==
    IF Field.type = "message" /\ Key \in UnionReleased.ptr
    THEN ReleaseField(UnionReleased, Key) ELSE UnionReleased
PointerNamed == IF Field.rule = "oneof" THEN Which(PointerFree, Key) ELSE PointerFree

\* A pointer field begins.
LEMMA BeginPointerCalls ==
    ASSUME Calls, BeginPointer
    PROVE  Calls'
<1>1. /\ Running("message", "field") /\ Field.alloc = "pointer" /\ ~Array(Field) /\ AtField(Top)
      /\ Busy /\ ret = "none"
  BY DEF BeginPointer, Running, AtField
<1> DEFINE item == Append(Top.obj, <<Top.msg, Top.field, 1>>)
<1>2. item \in Path /\ Len(Top.obj) < Len(item)
  BY <1>1, ItemThere
<1>3. \/ ToValue(PointerNamed) /\ lost' = lost
      \/ /\ ToValue(Cleared(Allocated(PointerNamed, Key, 1), item))
         /\ lost' = lost + Forgets(PointerNamed, item)
      \/ Fail(PointerNamed)
  BY DEF BeginPointer, PointerNamed, PointerFree
<1>4. Kept(PointerNamed)
  BY <1>1, FieldHere, KeptUnion, KeptField, KeptWhich DEF PointerNamed, PointerFree
<1>5. Kept(Cleared(Allocated(PointerNamed, Key, 1), item)) /\ Forgets(PointerNamed, item) \in Nat
  BY <1>1, <1>2, <1>4, FieldHere, KeptArray, KeptCleared, ForgottenCounted DEF Kept
<1> HIDE DEF item
<1>6. CASE ToValue(PointerNamed) /\ lost' = lost
  BY <1>1, <1>4, <1>6, AtTop, ToValueCalls
<1>7. CASE /\ ToValue(Cleared(Allocated(PointerNamed, Key, 1), item))
           /\ lost' = lost + Forgets(PointerNamed, item)
  <2>1. lost' \in Nat
    BY <1>5, <1>7, AtTop
  <2> QED BY <1>1, <1>5, <1>7, <2>1, ToValueCalls
<1>8. CASE Fail(PointerNamed)
  BY <1>1, <1>4, <1>8, FailCalls
<1> QED BY <1>3, <1>6, <1>7, <1>8

\* An item of a static array begins.
LEMMA BeginStaticItemCalls ==
    ASSUME Calls, BeginStaticItem
    PROVE  Calls'
<1>1. /\ Running("message", "field") /\ Field.alloc = "static" /\ AtField(Top)
      /\ Busy /\ ret = "none"
  BY DEF BeginStaticItem, OneByOne, Running, AtField
<1> DEFINE more == Counted(mem, Key, Get(mem.count, Key) + 1)
<1>2. Kept(more)
  BY <1>1, AtTop, FieldHere, KeptArray
<1>3. Fail(more) \/ (ToValue(more) /\ lost' = lost)
  BY DEF BeginStaticItem
<1>4. Get(more.count, Key) > 0
  <2> DEFINE n == Get(mem.count, Key) + 1
  <2>1. n \in Nat /\ n > 0 /\ Key \in Inner /\ mem \in Memory /\ mem.count \in Counts
    BY <1>1, AtTop, FieldHere DEF Memory
  <2>2. more = Counted(mem, Key, n)
    OBVIOUS
  <2> HIDE DEF n, more
  <2>3. more.count = Put(mem.count, Key, n)
    BY <2>1, <2>2, CountedMem
  <2>4. Get(more.count, Key) = n
    <3>1. Get(Put(mem.count, Key, n), Key) = n
      BY <2>1, PutCounts
    <3> QED BY <2>3, <3>1
  <2> QED BY <2>1, <2>4
<1> HIDE DEF more
<1> QED BY <1>1, <1>2, <1>3, <1>4, AtTop, FailCalls, ToValueCalls

\* An item of an array of pointers begins.
LEMMA BeginPointerItemCalls ==
    ASSUME Calls, BeginPointerItem
    PROVE  Calls'
<1>1. /\ Running("message", "field") /\ Field.alloc = "pointer" /\ AtField(Top)
      /\ Busy /\ ret = "none"
  BY DEF BeginPointerItem, OneByOne, Running, AtField
<1> DEFINE n == Get(mem.count, Key) + 1
           more == Counted(mem, Key, n)
           item == Append(Top.obj, <<Top.msg, Top.field, n>>)
<1>2. n \in Nat
  BY <1>1, FieldHere
<1>3. \/ Fail(mem) \/ Fail(more)
      \/ /\ ToValue(Cleared(Allocated(more, Key, n), item))
         /\ lost' = lost + Forgets(mem, item)
  BY DEF BeginPointerItem
<1> HIDE DEF n
<1>4. item \in Path /\ Len(Top.obj) < Len(item)
  BY <1>1, <1>2, ItemThere
<1>5. Kept(more)
  BY <1>1, <1>2, AtTop, FieldHere, KeptArray
<1>6. Kept(Cleared(Allocated(more, Key, n), item)) /\ Forgets(mem, item) \in Nat
  BY <1>1, <1>2, <1>4, <1>5, AtTop, FieldHere, KeptArray, KeptCleared, ForgottenCounted
<1>8. Get(Cleared(Allocated(more, Key, n), item).count, Key) > 0
  <2>1. n > 0 /\ Key \in Inner /\ mem \in Memory /\ mem.count \in Counts
    BY <1>1, AtTop, FieldHere DEF Memory, n
  <2>2. more \in Memory /\ more.count = Put(mem.count, Key, n)
    BY <1>2, <2>1, CountedMem
  <2>3. Get(more.count, Key) = n
    <3>1. Get(Put(mem.count, Key, n), Key) = n
      BY <1>2, <2>1, PutCounts
    <3> QED BY <2>2, <3>1
  <2>4. item # Key /\ Len(item) = Len(Key) /\ Key \in Path
    <3>1. item = Item(Top.obj, Top.msg, Top.field, n)
      BY DEF Item
    <3> HIDE DEF item
    <3>2. Last(item) = <<Top.msg, Top.field, n>> /\ Len(item) = Len(Top.obj) + 1
      BY <1>1, <1>2, <3>1, AtTop, FieldHere, Extended
    <3>3. Last(Key) = <<Top.msg, Top.field, 0>> /\ Len(Key) = Len(Top.obj) + 1
      BY <1>1, FieldHere
    <3>4. <<Top.msg, Top.field, n>> # <<Top.msg, Top.field, 0>>
      BY <2>1
    <3> QED BY <2>1, <3>2, <3>3, <3>4 DEF Inner
  <2> DEFINE a == Allocated(more, Key, n)
  <2> HIDE DEF item, more
  <2>5. a \in Memory /\ a.count = more.count
    BY <1>2, <2>1, <2>2, AllocatedMem
  <2> HIDE DEF a
  <2>6. ~IsPrefix(item, Key)
    BY <1>4, <2>4, NotInMember
  <2>7. Get(Cleared(a, item).count, Key) = n
    BY <1>4, <2>3, <2>5, <2>6, ClearedGet
  <2> QED BY <2>1, <2>7 DEF a
<1> HIDE DEF item, more
<1>7. lost + Forgets(mem, item) \in Nat
  BY <1>6, AtTop
<1> QED BY <1>1, <1>3, <1>5, <1>6, <1>7, <1>8, AtTop, FailCalls, ToValueCalls

\* A value is read, and noted when it was required.
LEMMA ReadDoneCalls ==
    ASSUME Calls, Running("message", "value"), NEW n \in Nat, n <= Top.left,
           NEW m, Kept(m), ReadDone(Took(Top, n), m), lost' \in Nat
    PROVE  Calls'
<1>1. Busy /\ ret = "none" /\ Top.kind = "message" /\ Top.phase = "value" /\ AtField(Top)
  BY DEF Running, AtField
<1> DEFINE t == Took(Top, n)
           d == ReadAt(m, t.obj, t.field)
<1>2. t.obj = Top.obj /\ t.field = Top.field
  BY AtTop, TookFields DEF Like
<1>3. ReadsOn(NextTag(t))
  BY <1>1, TookReadsOn
<1>4. Top.obj \in DOMAIN m.done /\ m \in Memory /\ Top.field \in Nat
  <2>1. Top.obj \in DOMAIN mem.done
    BY <1>1 DEF Calls, Typed, EnteredAll, Top
  <2> QED BY <2>1, AtTop DEF Kept, Frame
<1>5. Stay(NextTag(t), d) \/ Stay(NextTag(t), m)
  BY DEF ReadDone, ReadAt
<1>6. d = ReadAt(m, Top.obj, Top.field)
  BY <1>2
<1> HIDE DEF t, d
<1>7. Kept(d)
  BY <1>4, <1>6, ReadMem DEF Kept
<1>8. NumberedIn(NextTag(Took(Top, n)), m) /\ NumberedIn(NextTag(Took(Top, n)), d)
  BY AtTop, TookFields, NextTagFields DEF NumberedIn
<1> QED BY <1>1, <1>3, <1>5, <1>7, <1>8, StayCalls DEF t

\* Values and lengths take some bytes.
LEMMA LensNat ==
    ASSUME Calls, AtField(Top)
    PROVE  ScalarLens(Field) \subseteq Nat \ {0} /\ Lengths \subseteq Nat
  BY FieldHere, DecodeAssumption DEF ScalarLens

\* A scalar is read.
LEMMA ReadScalarCalls ==
    ASSUME Calls, ReadScalar
    PROVE  Calls'
<1>1. Running("message", "value") /\ AtField(Top) /\ lost' \in Nat
  BY AtTop DEF ReadScalar, Running, AtField
<1>2. PICK n \in ScalarLens(Field) : n <= Top.left /\ ReadDone(Took(Top, n), mem)
  BY DEF ReadScalar
<1>3. n \in Nat
  BY <1>1, LensNat
<1> QED BY <1>1, <1>2, <1>3, AtTop, ReadDoneCalls

\* A text has its pointer in its member, or in its item.
LEMMA KeptText ==
    ASSUME Calls, Running("message", "value")
    PROVE  Kept(WithText) /\ TextSlot \in Inner
<1>1. AtField(Top)
  BY DEF Running, AtField
<1>2. TextSlot \in Inner
  <2>1. CASE Array(Field)
    <3>1. TextSlot = Item(Top.obj, Top.msg, Top.field, Get(mem.count, Key))
      BY <1>1, <2>1, FieldHere DEF TextSlot
    <3> QED BY <1>1, <3>1, FieldHere, ItemThere
  <2>2. CASE ~Array(Field)
    BY <1>1, <2>2, FieldHere DEF TextSlot
  <2> QED BY <2>1, <2>2
<1>3. 1 \in Nat
  OBVIOUS
<1> QED BY <1>2, <1>3, AtTop, KeptArray DEF WithText

\* A text is read.
LEMMA ReadTextCalls ==
    ASSUME Calls, ReadText
    PROVE  Calls'
<1>1. Running("message", "value") /\ AtField(Top) /\ lost' \in Nat
  BY AtTop DEF ReadText, Running, AtField
<1>2. PICK n \in Lengths : 1 + n <= Top.left /\ ReadDone(Took(Top, 1 + n), WithText)
  BY DEF ReadText
<1>3. 1 + n \in Nat
  BY <1>1, LensNat
<1> QED BY <1>1, <1>2, <1>3, KeptText, ReadDoneCalls

\* A text ends too early.
LEMMA TextCutCalls ==
    ASSUME Calls, TextCut
    PROVE  Calls'
<1>1. Running("message", "value") /\ Fail(WithText) /\ Busy /\ ret = "none"
  BY DEF TextCut, Running
<1> QED BY <1>1, KeptText, FailCalls

\* Nothing can be read.
LEMMA UnreadableCalls ==
    ASSUME Calls, Unreadable
    PROVE  Calls'
<1>1. Fail(mem) /\ Busy /\ ret = "none"
  BY DEF Unreadable, Reading, Running
<1> QED BY <1>1, AtTop, FailCalls

\* What a call keeps for itself while the one it makes runs.
LEMMA GaveUpFields ==
    ASSUME Calls, NEW n \in Nat, 1 + n <= Top.left
    PROVE  /\ GaveUp(n) \in Frame /\ Like(GaveUp(n), Top)
           /\ GaveUp(n).left = Top.left - 1 - n /\ GaveUp(n).phase = "inside"
           /\ GaveUp(n).field = Top.field /\ GaveUp(n).fixed = Top.fixed
           /\ GaveUp(n).seen = Top.seen
           /\ AtField(Top) \/ Top.kind = "outer" => FrameOK(GaveUp(n)) \/ Top.kind = "packed"
<1>1. Top.left \in Nat /\ Top.at \in Nat /\ Top.left - 1 - n \in Nat /\ Top.at + 1 \in Nat
  BY AtTop
<1>2. /\ GaveUp(n) \in Frame /\ Like(GaveUp(n), Top)
      /\ GaveUp(n).left = Top.left - 1 - n /\ GaveUp(n).phase = "inside"
      /\ GaveUp(n).field = Top.field /\ GaveUp(n).fixed = Top.fixed
      /\ GaveUp(n).seen = Top.seen
  BY <1>1, AtTop DEF GaveUp, Frame, Like, Phases
<1>3. ASSUME AtField(Top) \/ Top.kind = "outer", Top.kind # "packed"
      PROVE  FrameOK(GaveUp(n))
  BY <1>2, <1>3, AtTop DEF FrameOK, Like, AtField
<1> QED BY <1>2, <1>3

\* The stream of the nested call.
LEMMA SubstreamFields ==
    ASSUME Calls, NEW kind \in {"message", "packed", "callback", "outer"}, NEW m \in Messages,
           NEW o \in Path, NEW owns \in BOOLEAN, NEW n \in Nat, 1 + n <= Top.left
    PROVE  LET s == Substream(kind, m, o, owns, n)
           IN  /\ s \in Frame
               /\ s.kind = kind /\ s.msg = m /\ s.obj = o /\ s.owns = owns
               /\ s.left = n /\ s.at = Top.at + 1 /\ s.end = Top.at + 1 + n
               /\ s.phase = IF kind = "message" THEN "tag" ELSE "value"
               /\ s.field = 0 /\ s.seen = {} /\ s.fixed = 0 /\ s.room = 0
               /\ s.at + s.left = s.end
               /\ Busy /\ ret = "none" => s.end + GaveUp(n).left = GaveUp(n).end
<1>1. Top.at + 1 \in Nat /\ Top.left \in Nat /\ Top.end \in Nat
  BY AtTop
<1> DEFINE s == Substream(kind, m, o, owns, n)
<1>2. /\ s \in Frame
      /\ s.kind = kind /\ s.msg = m /\ s.obj = o /\ s.owns = owns
      /\ s.left = n /\ s.at = Top.at + 1 /\ s.end = Top.at + 1 + n
      /\ s.phase = IF kind = "message" THEN "tag" ELSE "value"
      /\ s.field = 0 /\ s.seen = {} /\ s.fixed = 0 /\ s.room = 0
  <2>1. o \in Seq(Messages \X Nat \X Nat) /\ Top.at + 1 + n \in Nat
    BY <1>1, PathSeq
  <2> QED BY <1>1, <2>1 DEF Substream, Stream, Frame, Phases, Wires
<1> HIDE DEF s
<1>3. s.at + s.left = s.end
  BY <1>1, <1>2
<1>4. Busy /\ ret = "none" => s.end + GaveUp(n).left = GaveUp(n).end
  <2>1. GaveUp(n).left = Top.left - 1 - n /\ GaveUp(n).end = Top.end
    BY GaveUpFields DEF Like
  <2>2. Busy /\ ret = "none" => Top.at + Top.left = Top.end
    BY AtTop
  <2> QED BY <1>1, <1>2, <2>1, <2>2, AtTop
<1> QED BY <1>2, <1>3, <1>4 DEF s

\* A submessage is open at the item of its field.
LEMMA OpenSubmessageCalls ==
    ASSUME Calls, OpenSubmessage
    PROVE  Calls'
<1>1. /\ Running("message", "value") /\ AtField(Top) /\ Busy /\ ret = "none"
      /\ Top.kind = "message" /\ Top.phase = "value" /\ Field.type = "message"
      /\ Field.alloc # "callback"
  BY AtTop DEF OpenSubmessage, Running, AtField, FrameOK, Field
<1> DEFINE item == ItemOf(Top)
           owns == Field.rule = "repeated"
           m == Entered(IF owns THEN Cleared(mem, item) ELSE mem, item)
<1>2. PICK n \in Lengths :
         /\ 1 + n <= Top.left
         /\ Push(GaveUp(n), Substream("message", Field.sub, item, owns, n))
         /\ mem' = m /\ lost' = lost + IF owns THEN Forgets(mem, item) ELSE 0
  BY DEF OpenSubmessage
<1> DEFINE child == Substream("message", Field.sub, item, owns, n)
<1>3. n \in Nat /\ Field.sub \in Messages /\ owns \in BOOLEAN /\ (owns <=> Field.rule = "repeated")
  BY <1>1, LensNat, FieldHere
<1>4. PICK j \in Nat \ {0} : item = Item(Top.obj, Top.msg, Top.field, j)
  <2>1. CASE Array(Field)
    <3>1. Get(mem.count, Key) \in Nat \ {0}
      BY <1>1, <2>1, FieldHere DEF Calls, Numbered, NumberedIn, Field, Key
    <3> QED BY <1>1, <2>1, <3>1, FieldHere
  <2>2. CASE ~Array(Field)
    BY <1>1, <2>2, FieldHere
  <2> QED BY <2>1, <2>2
<1>5. item \in Path /\ Len(Top.obj) < Len(item) /\ Len(item) = Len(Top.obj) + 1
  BY <1>1, <1>4, ItemThere
<1>6. Kept(m) /\ item \in DOMAIN m.done /\ lost' \in Nat
  <2>1. Kept(Cleared(mem, item))
    BY <1>5, AtTop, KeptCleared
  <2>2. ASSUME NEW b, Kept(b)
        PROVE  Kept(Entered(b, item)) /\ item \in DOMAIN Entered(b, item).done
    <3>1. b \in Memory
      BY <2>2 DEF Kept
    <3> HIDE DEF item
    <3>2. Entered(b, item) \in Memory /\ DOMAIN Entered(b, item).done = DOMAIN b.done \cup {item}
      BY <1>5, <3>1, EnteredMem
    <3> QED BY <2>2, <3>2 DEF Kept
  <2>3. Forgets(mem, item) \in Nat
    BY AtTop, ForgottenCounted
  <2>4. CASE owns
    BY <1>2, <2>1, <2>2, <2>3, <2>4, AtTop
  <2>5. CASE ~owns
    BY <1>2, <2>2, <2>5, AtTop
  <2> QED BY <2>4, <2>5
<1> HIDE DEF item, m, owns
<1>7. /\ child \in Frame /\ child.kind = "message" /\ child.msg = Field.sub /\ child.obj = item
      /\ child.owns = owns /\ child.phase = "tag" /\ child.fixed = 0
      /\ child.at + child.left = child.end /\ child.end + GaveUp(n).left = GaveUp(n).end
  BY <1>1, <1>2, <1>3, <1>5, SubstreamFields
<1> HIDE DEF child
<1>8. /\ GaveUp(n) \in Frame /\ Like(GaveUp(n), Top) /\ FrameOK(GaveUp(n))
      /\ GaveUp(n).phase = "inside" /\ GaveUp(n).field = Top.field
  BY <1>1, <1>2, <1>3, GaveUpFields
<1>9. FrameOK(child)
  BY <1>5, <1>7 DEF FrameOK, AtField
<1>10. Link(GaveUp(n), child)
  <2>1. Msg[GaveUp(n).msg][GaveUp(n).field] = Field
    BY <1>8 DEF Like, Field
  <2>2. /\ Len(child.obj) = Len(GaveUp(n).obj) + 1
        /\ \E j_1 \in Nat \ {0} : child.obj = Item(GaveUp(n).obj, GaveUp(n).msg, GaveUp(n).field, j_1)
    BY <1>4, <1>5, <1>7, <1>8 DEF Like
  <2>3. child.owns <=> Field.rule = "repeated"
    BY <1>3, <1>7
  <2>4. GaveUp(n).kind = "message"
    BY <1>1, <1>8 DEF Like
  <2> QED BY <1>1, <1>7, <1>8, <2>1, <2>2, <2>3, <2>4 DEF Link
<1>11. Under(GaveUp(n).obj, child.obj)
  <2>1. \A k \in 1 .. Len(Top.obj) : item[k] = Top.obj[k]
    <3>1. j \in Nat /\ Top.field \in DOMAIN Msg[Top.msg]
      BY <1>1, FieldHere
    <3> QED BY <1>4, <3>1, AtTop, Extended
  <2> QED BY <1>5, <1>7, <1>8, <2>1, AtTop DEF Under, Like
<1>12. Push(GaveUp(n), child)
  BY <1>2 DEF child, item, owns
<1>13. Opened(GaveUp(n), child)
  BY <1>1, <1>7, <1>8, <1>9, <1>10, <1>11, <1>12 DEF Opened, Push
<1>14. mem' = m
  BY <1>2 DEF m, item, owns
<1>15. Remembered /\ child.obj \in DOMAIN mem'.done
  BY <1>6, <1>7, <1>14 DEF Remembered, Kept
<1> QED BY <1>13, <1>15, OpenedCalls

\* A call for the bytes of the field itself: its object is the one that is open.
LEMMA OpenBytesCalls ==
    ASSUME Calls, Running("message", "field"), NEW n \in Nat, 1 + n <= Top.left,
           NEW child \in Frame, child.kind \in {"packed", "callback"}, child.msg = Top.msg,
           child.obj = Top.obj, child.owns = FALSE, child.phase = "value", child.fixed = 0,
           child.at + child.left = child.end, child.end = Top.at + 1 + n,
           child.kind = "packed" =>
              /\ child.field = Top.field
              /\ Array(Field) /\ Packable(Field) /\ Field.alloc # "callback",
           Push(GaveUp(n), child), mem' = mem, lost' = lost
    PROVE  Calls'
<1>1. Top.kind = "message" /\ AtField(Top) /\ Busy /\ ret = "none"
  BY DEF Running, AtField
<1>2. /\ GaveUp(n) \in Frame /\ Like(GaveUp(n), Top) /\ FrameOK(GaveUp(n))
      /\ GaveUp(n).phase = "inside" /\ GaveUp(n).field = Top.field
      /\ GaveUp(n).left = Top.left - 1 - n
  BY <1>1, GaveUpFields
<1>3. Top.obj \in Path /\ Len(Top.obj) \in Nat
  BY AtTop
<1>4. Msg[child.msg][Top.field] = Field /\ Top.field \in DOMAIN Msg[Top.msg]
  BY <1>1, FieldHere DEF Field
<1>5. FrameOK(child)
  BY <1>3, <1>4 DEF FrameOK, AtField
<1>6. Link(GaveUp(n), child)
  BY <1>1, <1>2 DEF Link, Like
<1>7. Under(GaveUp(n).obj, child.obj)
  BY <1>2, <1>3 DEF Under, Like
<1>8. child.end + GaveUp(n).left = GaveUp(n).end
  <2>1. Top.at + Top.left = Top.end /\ GaveUp(n).end = Top.end
    BY <1>1, <1>2, AtTop DEF Like
  <2> QED BY <1>2, <2>1, AtTop
<1>9. Opened(GaveUp(n), child)
  BY <1>1, <1>2, <1>5, <1>6, <1>7, <1>8 DEF Opened, Push
<1>10. Remembered
  BY AtTop DEF Remembered, Kept
<1>11. child.obj \in DOMAIN mem'.done
  BY <1>1 DEF Calls, EnteredAll, Typed, Top
<1> QED BY <1>9, <1>10, <1>11, OpenedCalls

\* A packed array is opened.
LEMMA OpenPackedCalls ==
    ASSUME Calls, OpenPacked
    PROVE  Calls'
<1>1. /\ Running("message", "field") /\ AtField(Top) /\ Busy /\ ret = "none"
      /\ Array(Field) /\ Packable(Field) /\ Field.alloc # "callback"
      /\ mem' = mem /\ lost' = lost
  BY DEF OpenPacked, Running, AtField
<1> DEFINE owns == FALSE
           s(n) == Substream("packed", Top.msg, Top.obj, owns, n)
           room == Get(mem.count, Key)
           child(n) == [s(n) EXCEPT !.field = Top.field, !.room = room]
<1>2. PICK n \in Lengths : 1 + n <= Top.left /\ Push(GaveUp(n), child(n))
  BY DEF OpenPacked
<1>3. n \in Nat /\ room \in Nat /\ Top.field \in Nat /\ owns \in BOOLEAN /\ owns = FALSE
  BY <1>1, LensNat, AtTop, FieldHere DEF Frame
<1> HIDE DEF owns
<1> DEFINE t == s(n)
           c == child(n)
<1>a. Top.obj \in Path /\ 1 + n <= Top.left /\ Top.msg \in Messages
  BY <1>2, AtTop
<1>4. /\ t \in Frame /\ t.kind = "packed" /\ t.msg = Top.msg /\ t.obj = Top.obj
      /\ t.owns = FALSE /\ t.end = Top.at + 1 + n /\ t.phase = "value" /\ t.fixed = 0
      /\ t.at + t.left = t.end
  BY <1>1, <1>3, <1>a, SubstreamFields
<1>5. c = [t EXCEPT !.field = Top.field, !.room = room]
  OBVIOUS
<1> HIDE DEF room, t, s
<1>6. /\ c \in Frame /\ c.kind = "packed" /\ c.msg = Top.msg /\ c.obj = Top.obj
      /\ c.owns = FALSE /\ c.end = Top.at + 1 + n /\ c.phase = "value" /\ c.fixed = 0
      /\ c.at + c.left = c.end /\ c.field = Top.field
  BY <1>3, <1>4, <1>5 DEF Frame
<1>7. Push(GaveUp(n), c)
  BY <1>2 DEF s, t, room
<1> HIDE DEF c
<1> QED BY <1>1, <1>2, <1>3, <1>6, <1>7, OpenBytesCalls

\* The stream of a callback is opened.
LEMMA OpenCallbackCalls ==
    ASSUME Calls, OpenCallback
    PROVE  Calls'
<1>1. /\ Running("message", "field") /\ AtField(Top) /\ Busy /\ ret = "none"
      /\ mem' = mem /\ lost' = lost
  BY DEF OpenCallback, AtCallback, Running, AtField
<1> DEFINE owns == FALSE
           c(n) == Substream("callback", Top.msg, Top.obj, owns, n)
<1>2. PICK n \in Lengths : 1 + n <= Top.left /\ Push(GaveUp(n), c(n))
  BY DEF OpenCallback
<1>3. n \in Nat /\ owns \in BOOLEAN /\ owns = FALSE
  BY <1>1, LensNat
<1> HIDE DEF owns
<1> DEFINE t == c(n)
<1>4. /\ t \in Frame /\ t.kind = "callback" /\ t.msg = Top.msg /\ t.obj = Top.obj
      /\ t.owns = FALSE /\ t.end = Top.at + 1 + n /\ t.phase = "value" /\ t.fixed = 0
      /\ t.at + t.left = t.end
  BY <1>1, <1>2, <1>3, AtTop, SubstreamFields
<1>5. Push(GaveUp(n), t)
  BY <1>2
<1> HIDE DEF t
<1> QED BY <1>1, <1>2, <1>3, <1>4, <1>5, OpenBytesCalls

\* A struct that takes its defaults, and is entered.
LEMMA NewMem ==
    /\ Entered(Nothing, <<>>) \in Memory /\ <<>> \in DOMAIN Entered(Nothing, <<>>).done
    /\ DOMAIN Entered(Nothing, <<>>).done = {<<>>} /\ Entered(Nothing, <<>>).ptr = {}
    /\ <<>> \in Path /\ Len(<<>>) = 0
<1>1. <<>> \in Path /\ Len(<<>>) = 0
  <2>1. <<>> \in Seq(Messages \X Nat \X Nat) /\ Len(<<>>) = 0 /\ 1 .. 0 = {}
    OBVIOUS
  <2> QED BY <2>1 DEF Path
<1> QED BY <1>1, NothingMem, EnteredMem

\* pb_decode_delimited opens the message.
LEMMA OpenDelimitedCalls ==
    ASSUME Calls, OpenDelimited
    PROVE  Calls'
<1>1. Busy /\ ret = "none" /\ Top.kind = "outer" /\ Top.phase = "value"
  BY DEF OpenDelimited, Running
<1> DEFINE owns == TRUE
           o == <<>>
           c(n) == Substream("message", Top.msg, o, owns, n)
<1>2. PICK n \in Lengths : 1 + n <= Top.left /\ Push(GaveUp(n), c(n))
  BY DEF OpenDelimited
<1>3. n \in Nat /\ owns \in BOOLEAN
  BY DecodeAssumption
<1> DEFINE child == c(n)
<1>a. o \in Path /\ o = <<>> /\ 1 + n <= Top.left /\ Top.msg \in Messages
  BY <1>2, AtTop, NewMem
<1> HIDE DEF owns, o
<1>4. /\ child \in Frame /\ child.kind = "message" /\ child.msg = Top.msg /\ child.obj = <<>>
      /\ child.owns = TRUE /\ child.phase = "tag" /\ child.fixed = 0
      /\ child.at + child.left = child.end /\ child.end + GaveUp(n).left = GaveUp(n).end
  <2>1. /\ child \in Frame /\ child.kind = "message" /\ child.msg = Top.msg /\ child.obj = o
        /\ child.owns = owns /\ child.left = n /\ child.at = Top.at + 1
        /\ child.end = Top.at + 1 + n
    BY <1>3, <1>a, SubstreamFields
  <2>2. child.phase = "tag" /\ child.fixed = 0 /\ child.at + child.left = child.end
    BY <1>3, <1>a, SubstreamFields
  <2>3. child.end + GaveUp(n).left = GaveUp(n).end
    BY <1>1, <1>3, <1>a, SubstreamFields
  <2> HIDE DEF child
  <2> QED BY <1>3, <1>a, <2>1, <2>2, <2>3 DEF owns
<1>5. Push(GaveUp(n), child)
  BY <1>2
<1> HIDE DEF child
<1>6. /\ GaveUp(n) \in Frame /\ Like(GaveUp(n), Top) /\ FrameOK(GaveUp(n))
      /\ GaveUp(n).phase = "inside"
  BY <1>1, <1>2, <1>3, GaveUpFields
<1>7. Top.obj = <<>>
  BY <1>1, AtTop DEF FrameOK
<1>8. FrameOK(child)
  BY <1>4, NewMem DEF FrameOK, AtField
<1>9. Link(GaveUp(n), child)
  BY <1>1, <1>4, <1>6 DEF Link, Like
<1>10. Under(GaveUp(n).obj, child.obj)
  BY <1>4, <1>6, <1>7, NewMem DEF Under, Like
<1>11. Opened(GaveUp(n), child)
  BY <1>1, <1>4, <1>5, <1>6, <1>8, <1>9, <1>10 DEF Opened, Push
<1>12. lost' \in Nat /\ mem' = Entered(Nothing, <<>>)
  <2>1. Cardinality(mem.ptr) \in Nat
    BY AtTop, ForgottenCounted
  <2> QED BY <2>1, AtTop DEF OpenDelimited
<1>13. \A q \in DOMAIN mem.done : Len(q) <= Len(Top.obj) => q = <<>>
  <2> SUFFICES ASSUME NEW q \in DOMAIN mem.done, Len(q) <= Len(Top.obj)
               PROVE  q = <<>>
    OBVIOUS
  <2>1. q \in Path
    BY AtTop, ReadsParts DEF Memory
  <2>2. Len(q) \in Nat /\ Len(q) <= 0
    BY <1>7, <2>1, NewMem, PathSeq
  <2>3. Len(q) = 0
    BY <2>2
  <2> QED BY <2>1, <2>3, NewMem, PathEqual
<1>14. Remembered /\ child.obj \in DOMAIN mem'.done
  BY <1>4, <1>12, <1>13, NewMem DEF Remembered
<1> QED BY <1>11, <1>14, OpenedCalls

\* An item of a packed array is read.
LEMMA PackedItemCalls ==
    ASSUME Calls, PackedItem
    PROVE  Calls'
<1>1. /\ Busy /\ ret = "none" /\ Top.kind = "packed" /\ Top.phase = "value" /\ AtField(Top)
      /\ lost' \in Nat
  BY AtTop DEF PackedItem, Running, AtField
<1> DEFINE m == Counted(mem, Key, Get(mem.count, Key) + 1)
<1>2. PICK k \in ScalarLens(Field) :
         k <= Top.left /\ (Fail(mem) \/ Stay(Took(Top, k), m))
  BY DEF PackedItem
<1>3. k \in Nat
  BY <1>1, LensNat
<1>4. ReadsOn(Took(Top, k)) /\ NumberedIn(Took(Top, k), m)
  BY <1>1, <1>2, <1>3, AtTop, TookReadsOn, TookFields DEF NumberedIn, Like
<1>5. Kept(m)
  BY <1>1, AtTop, FieldHere, KeptArray
<1> HIDE DEF m
<1> QED BY <1>1, <1>2, <1>4, <1>5, AtTop, FailCalls, StayCalls

\* The items a packed array is grown for.
LEMMA GrownNat ==
    ASSUME Calls, AtField(Top), Top.left > 0
    PROVE  Top.room + ((Top.left - 1) \div Field.width) + 1 \in Nat
<1>1. Top.room \in Nat /\ Top.left - 1 \in Nat /\ Field.width \in Nat \ {0}
  BY AtTop, FieldHere DEF Frame
<1>2. ((Top.left - 1) \div Field.width) \in Nat
  BY <1>1
<1> QED BY <1>1, <1>2

\* A packed array of pointers grows.
LEMMA PackedGrowCalls ==
    ASSUME Calls, PackedGrow
    PROVE  Calls'
<1>1. /\ Busy /\ ret = "none" /\ Top.kind = "packed" /\ Top.phase = "value" /\ AtField(Top)
      /\ lost' \in Nat /\ Top.left > 0
  BY AtTop DEF PackedGrow, Running, AtField
<1> DEFINE n == Top.room + ((Top.left - 1) \div Field.width) + 1
           fr == [Top EXCEPT !.room = n]
           m == Allocated(mem, Key, n)
<1>2. Fail(mem) \/ Stay(fr, m)
  BY DEF PackedGrow
<1>3. n \in Nat
  BY <1>1, GrownNat
<1> HIDE DEF n
<1>4. Kept(m)
  BY <1>1, <1>3, AtTop, FieldHere, KeptArray
<1>5. /\ fr \in Frame /\ Like(fr, Top) /\ fr.at = Top.at /\ fr.left = Top.left
      /\ fr.phase = Top.phase /\ fr.field = Top.field /\ fr.fixed = Top.fixed
  BY <1>3, AtTop DEF Frame, Like
<1> HIDE DEF fr, m
<1>6. FrameOK(fr)
  BY <1>1, <1>5, AtTop DEF FrameOK, Like, AtField
<1>7. ReadsOn(fr) /\ NumberedIn(fr, m)
  BY <1>1, <1>5, <1>6 DEF ReadsOn, NumberedIn, Like
<1> QED BY <1>1, <1>2, <1>4, <1>7, AtTop, FailCalls, StayCalls

\* A call that ends well without reading.
LEMMA SucceedCalls ==
    ASSUME Calls, Busy, ret = "none", Top.kind \in {"packed", "callback"}, NEW n \in Nat, n <= Top.left,
           ret' = "ok", frames' = [frames EXCEPT ![depth] = Took(Top, n)],
           UNCHANGED <<depth, call, root, mem, lost>>
    PROVE  Calls'
<1>1. Top.phase = "value"
  BY AtTop DEF FrameOK
<1>2. ReadsOn(Took(Top, n))
  BY <1>1, TookReadsOn
<1>3. MovedTo(Took(Top, n)) /\ Remembered
  BY <1>2, AtTop DEF MovedTo, ReadsOn, Remembered, Kept
<1> QED BY <1>3, MovedCalls

\* A packed array ends.
LEMMA PackedEndCalls ==
    ASSUME Calls, PackedEnd
    PROVE  Calls'
<1>1. Busy /\ ret = "none" /\ Top.kind = "packed" /\ Top.phase = "value"
  BY DEF PackedEnd, Running
<1>2. CASE Fail(mem)
  BY <1>1, <1>2, AtTop, FailCalls
<1>3. CASE Succeed
  <2>1. frames = [frames EXCEPT ![depth] = Took(Top, 0)]
    <3>1. Took(Top, 0) = Top
      <4>1. Top.left - 0 = Top.left /\ Top.at + 0 = Top.at
        BY AtTop
      <4> QED BY <4>1, AtTop DEF Took, Frame
    <3> QED BY <3>1 DEF Top, Calls, Typed
  <2>2. 0 \in Nat /\ 0 <= Top.left
    BY AtTop
  <2> QED BY <1>1, <1>3, <2>1, <2>2, SucceedCalls DEF Succeed
<1> QED BY <1>2, <1>3 DEF PackedEnd

\* A packed array holds a value that cannot be read.
LEMMA PackedUnreadableCalls ==
    ASSUME Calls, PackedUnreadable
    PROVE  Calls'
<1>1. Busy /\ ret = "none" /\ Fail(mem)
  BY DEF PackedUnreadable, Running
<1> QED BY <1>1, AtTop, FailCalls

\* A callback field without a callback is skipped.
LEMMA SkipCallbackCalls ==
    ASSUME Calls, SkipCallback
    PROVE  Calls'
<1>1. /\ Busy /\ ret = "none" /\ Top.kind = "message" /\ Top.phase = "field" /\ lost' \in Nat
  BY AtTop DEF SkipCallback, AtCallback, Running
<1> DEFINE fr == [Top EXCEPT !.phase = "skip"]
<1>2. Stay(fr, mem)
  BY DEF SkipCallback
<1>3. /\ fr \in Frame /\ Like(fr, Top) /\ fr.at = Top.at /\ fr.left = Top.left
      /\ fr.phase = "skip" /\ fr.fixed = Top.fixed
  BY AtTop DEF Frame, Like, Phases
<1> HIDE DEF fr
<1>4. FrameOK(fr)
  BY <1>1, <1>3, AtTop DEF FrameOK, Like, AtField
<1>5. ReadsOn(fr) /\ NumberedIn(fr, mem)
  BY <1>1, <1>3, <1>4 DEF ReadsOn, NumberedIn, Like
<1> QED BY <1>1, <1>2, <1>5, AtTop, StayCalls

\* A scalar goes to the callback.
LEMMA CallbackScalarCalls ==
    ASSUME Calls, CallbackScalar
    PROVE  Calls'
<1>1. /\ Busy /\ ret = "none" /\ Top.kind = "message" /\ Top.phase = "field" /\ lost' \in Nat
  BY AtTop DEF CallbackScalar, AtCallback, Running
<1>2. PICK n \in SkipLens(Top.wire) :
         n <= Top.left /\ (Stay(NextTag(Took(Top, n)), mem) \/ Fail(mem))
  BY DEF CallbackScalar
<1>3. n \in Nat
  BY SkipLensNat
<1>4. ReadsOn(NextTag(Took(Top, n))) /\ NumberedIn(NextTag(Took(Top, n)), mem)
  BY <1>1, <1>2, <1>3, AtTop, TookReadsOn, TookFields, NextTagFields DEF NumberedIn
<1> QED BY <1>1, <1>2, <1>4, AtTop, FailCalls, StayCalls

\* The callback reads of its stream.
LEMMA CallbackReadsCalls ==
    ASSUME Calls, CallbackReads
    PROVE  Calls'
<1>1. /\ Busy /\ ret = "none" /\ Top.kind = "callback" /\ Top.phase = "value" /\ lost' \in Nat
      /\ lost' = lost
  BY AtTop DEF CallbackReads, Running
<1>2. CASE Fail(mem)
  BY <1>1, <1>2, AtTop, FailCalls
<1>3. CASE \E n \in 1 .. Top.left : n < Top.left /\ Stay(Took(Top, n), mem)
  <2>1. PICK n \in 1 .. Top.left : n < Top.left /\ Stay(Took(Top, n), mem)
    BY <1>3
  <2>2. n \in Nat /\ n <= Top.left
    BY <2>1, AtTop
  <2>3. ReadsOn(Took(Top, n)) /\ NumberedIn(Took(Top, n), mem)
    BY <1>1, <2>2, AtTop, TookReadsOn, TookFields DEF NumberedIn, Like
  <2> QED BY <1>1, <2>1, <2>3, AtTop, StayCalls
<1>4. CASE /\ frames' = [frames EXCEPT ![depth] = Took(Top, Top.left)] /\ ret' = "ok"
           /\ UNCHANGED <<depth, call, root, mem>>
  <2>1. Top.left \in Nat /\ Top.left <= Top.left
    BY AtTop
  <2> QED BY <1>1, <1>4, <2>1, SucceedCalls
<1> QED BY <1>2, <1>3, <1>4 DEF CallbackReads

\* The call below, once its stream goes on.
LEMMA ClosedFields ==
    ASSUME Calls, depth > 1
    PROVE  /\ Parent = frames[depth - 1] /\ Parent \in Frame /\ FrameOK(Parent)
           /\ Parent.phase = "inside" /\ Parent.kind \in {"message", "outer"}
           /\ Parent.msg \in Messages /\ Parent.obj \in Path /\ Link(Parent, Top)
           /\ Closed \in Frame /\ FrameOK(Closed) /\ Like(Closed, Parent)
           /\ Closed.phase = "inside" /\ Closed.field = Parent.field /\ Closed.left = Parent.left
           /\ Closed.fixed = Parent.fixed /\ Closed.seen = Parent.seen
           /\ ret # "fail" => Closed.at = Top.at + Top.left
<1>1. depth - 1 \in 1 .. MaxDepth /\ depth - 1 \in 1 .. depth - 1 /\ (depth - 1) + 1 = depth
  BY DecodeAssumption DEF Calls, Typed
<1>2. /\ Parent = frames[depth - 1] /\ Parent \in Frame /\ FrameOK(Parent)
      /\ Link(Parent, Top)
  BY <1>1 DEF Parent, Top, Calls, Typed, Chained
<1>3. Parent.phase = "inside" /\ Parent.kind \in {"message", "outer"}
  BY <1>2 DEF Link
<1>4. Top.at + Top.left \in Nat
  BY AtTop
<1> DEFINE c == [Parent EXCEPT !.at = Top.at + Top.left]
<1>5. Closed = Parent \/ Closed = c
  BY DEF Closed
<1>6. ret # "fail" => Closed = c
  BY DEF Closed
<1>7. /\ c \in Frame /\ Like(c, Parent) /\ c.phase = Parent.phase /\ c.field = Parent.field
      /\ c.left = Parent.left /\ c.fixed = Parent.fixed /\ c.seen = Parent.seen
      /\ c.at = Top.at + Top.left
  BY <1>2, <1>4 DEF Frame, Like
<1> HIDE DEF c
<1>8. /\ Closed \in Frame /\ Like(Closed, Parent) /\ Closed.phase = Parent.phase
      /\ Closed.field = Parent.field /\ Closed.left = Parent.left
      /\ Closed.fixed = Parent.fixed /\ Closed.seen = Parent.seen
  BY <1>2, <1>5, <1>7 DEF Like
<1>9. FrameOK(Closed)
  BY <1>2, <1>3, <1>8 DEF FrameOK, Like, AtField
<1> QED BY <1>2, <1>3, <1>6, <1>7, <1>8, <1>9 DEF FrameOK, Frame

\* A nested call returns.
LEMMA ReturnCalls ==
    ASSUME Calls, Return
    PROVE  Calls'
<1>1. Busy /\ ret # "none" /\ depth > 1 /\ depth' = depth - 1 /\ UNCHANGED <<call, root, lost>>
  BY DEF Return
<1>2. CASE Parent.kind = "message" /\ ret = "ok"
  <2> DEFINE fr == NextTag(Closed)
  <2>1. /\ ret' = "none" /\ frames' = [frames EXCEPT ![depth - 1] = fr]
        /\ mem' = IF Msg[Parent.msg][Parent.field].rule = "required" /\ Top.kind = "message"
                  THEN ReadAt(mem, Parent.obj, Parent.field) ELSE mem
    BY <1>2 DEF Return, ReadAt
  <2>2. /\ fr \in Frame /\ Like(fr, Closed) /\ fr.left = Closed.left /\ fr.at = Closed.at
        /\ fr.phase = "tag" /\ fr.fixed = Closed.fixed
    BY <1>1, ClosedFields, NextTagFields
  <2> HIDE DEF fr
  <2>3. FrameOK(fr) /\ fr.kind = "message" /\ Like(fr, frames[depth - 1])
    BY <1>1, <1>2, <2>2, ClosedFields DEF FrameOK, Like, AtField
  <2>4. ReturnedTo(fr)
    BY <1>1, <1>2, <2>1, <2>2, <2>3, ClosedFields DEF ReturnedTo
  <2>5. Parent.obj \in DOMAIN mem.done /\ Parent.field \in Nat
    <3>1. depth - 1 \in 1 .. depth
      BY <1>1 DEF Calls, Typed
    <3> QED BY <1>1, <3>1, ClosedFields DEF Calls, EnteredAll, Frame
  <2>6. Remembered
    BY <1>1, <2>1, <2>5, AtTop, ReadMem DEF Remembered, Kept
  <2> QED BY <2>4, <2>6, ReturnedCalls
<1>3. CASE ~(Parent.kind = "message" /\ ret = "ok")
  <2>1. /\ ret' = ret /\ frames' = [frames EXCEPT ![depth - 1] = Closed]
        /\ mem' = IF ret = "fail" /\ Parent.owns THEN ReleaseObject(mem, Parent.obj) ELSE mem
    BY <1>3 DEF Return
  <2>2. ReturnedTo(Closed)
    BY <1>1, <2>1, ClosedFields DEF ReturnedTo, Like
  <2>3. Kept(ReleaseObject(mem, Parent.obj))
    BY AtTop, KeptReleased DEF ReleaseObject
  <2>4. Remembered
    BY <1>1, <2>1, <2>3, AtTop DEF Remembered, Kept
  <2> QED BY <2>2, <2>4, ReturnedCalls
<1> QED BY <1>2, <1>3

\* A stream of the caller's own.
First(s, kind, m) ==
    /\ s \in Frame /\ FrameOK(s) /\ s.kind = kind /\ s.msg = m /\ s.obj = <<>>
    /\ s.at + s.left = s.end /\ s.phase = IF kind = "message" THEN "tag" ELSE "value"

\* The caller's own stream.
LEMMA FirstStream ==
    ASSUME NEW m \in Roots, NEW n \in Nat
    PROVE  /\ First(Stream("message", m, <<>>, TRUE, 0, n), "message", m)
           /\ Stream("message", m, <<>>, TRUE, 0, n).owns
           /\ First(Stream("message", m, <<>>, FALSE, 0, n), "message", m)
           /\ ~Stream("message", m, <<>>, FALSE, 0, n).owns
           /\ First(Stream("outer", m, <<>>, FALSE, 0, n), "outer", m)
<1>1. m \in Messages /\ <<>> \in Path /\ <<>> \in Seq(Messages \X Nat \X Nat)
  BY DecodeAssumption, NewMem
<1>2. ASSUME NEW kind \in {"message", "outer"}, NEW owns \in BOOLEAN,
             kind = "outer" => owns = FALSE
      PROVE  First(Stream(kind, m, <<>>, owns, 0, n), kind, m)
  <2> DEFINE s == Stream(kind, m, <<>>, owns, 0, n)
  <2>1. /\ s \in Frame /\ s.kind = kind /\ s.msg = m /\ s.obj = <<>>
        /\ s.owns = owns /\ s.at + s.left = s.end /\ s.fixed = 0
        /\ s.phase = IF kind = "message" THEN "tag" ELSE "value"
    BY <1>1 DEF Stream, Frame, Phases, Wires
  <2> HIDE DEF s
  <2>2. s.kind = "outer" => ~s.owns
    BY <1>2, <2>1
  <2>3. FrameOK(s)
    BY <1>1, <2>1, <2>2 DEF FrameOK, AtField
  <2>4. First(s, kind, m)
    BY <2>1, <2>3 DEF First
  <2> QED BY <2>4 DEF s
<1>3. /\ First(Stream("message", m, <<>>, TRUE, 0, n), "message", m)
      /\ First(Stream("message", m, <<>>, FALSE, 0, n), "message", m)
      /\ First(Stream("outer", m, <<>>, FALSE, 0, n), "outer", m)
  BY <1>2, Zenon
<1>4. /\ Stream("message", m, <<>>, TRUE, 0, n).owns
      /\ ~Stream("message", m, <<>>, FALSE, 0, n).owns
  BY DEF Stream
<1> QED BY <1>3, <1>4

\* What is left of a released struct.
LEMMA UnreadMem ==
    ASSUME NEW m \in Memory
    PROVE  /\ Unread(m) \in Memory /\ Unread(m).ptr = m.ptr /\ Unread(m).has = {}
           /\ DOMAIN Unread(m).count = {} /\ DOMAIN Unread(m).room = {}
           /\ DOMAIN Unread(m).done = {}
<1>1. /\ Nothing \in Memory /\ Nothing.has = {} /\ DOMAIN Nothing.count = {}
      /\ DOMAIN Nothing.room = {} /\ DOMAIN Nothing.done = {}
  BY NothingMem
<1>2. Unread(m) = [Nothing EXCEPT !.ptr = m.ptr]
  BY DEF Unread
<1>3. m.ptr \in SUBSET Inner /\ IsFiniteSet(m.ptr)
  BY DEF Memory
<1> QED BY <1>1, <1>2, <1>3 DEF Memory

\* The caller calls, or releases his message.
LEMMA CallerCalls ==
    ASSUME Calls, Caller
    PROVE  Calls'
<1>1. CASE Release
  <2>1. /\ call \in {"held", "broken"} /\ call' = "idle" /\ ~Busy
        /\ UNCHANGED <<frames, depth, ret, root, lost>>
        /\ mem' = Unread(ReleaseObject(mem, <<>>))
    BY <1>1 DEF Release, Busy
  <2>2. depth = 1 /\ ret = "none"
    BY <2>1 DEF Calls, Bottom
  <2>3. Answered
    BY <2>1, <2>2 DEF Answered, Calls, Typed
  <2>4. ReleaseObject(mem, <<>>) \in Memory
    BY AtTop, ReleasedMem DEF ReleaseObject
  <2>5. mem' \in Memory
    BY <2>1, <2>4, UnreadMem
  <2> QED BY <2>1, <2>3, <2>5, AtTop, AnsweredCalls
<1>2. ASSUME NEW m \in Roots, NEW n \in StreamSizes[m],
             Decode(m, n) \/ DecodeDelimited(m, n) \/ DecodeNoinit(m, n)
      PROVE  Calls'
  <2>0. n \in Nat
    BY DecodeAssumption
  <2>1. n \in Nat /\ lost \in Nat /\ lost + Cardinality(mem.ptr) \in Nat
    <3>1. Cardinality(mem.ptr) \in Nat /\ lost \in Nat
      BY AtTop, ForgottenCounted
    <3> QED BY <2>0, <3>1
  <2>2. CASE Decode(m, n)
    <3> DEFINE fr == Stream("message", m, <<>>, TRUE, 0, n)
    <3>1. First(fr, "message", m) /\ fr.owns
      BY <2>1, FirstStream
    <3>2. /\ Start("decode", m, fr) /\ call = "idle" /\ mem' = Entered(Nothing, <<>>)
          /\ lost' \in Nat
      BY <2>1, <2>2 DEF Decode
    <3> HIDE DEF fr
    <3>3. Called(fr)
      BY <3>1, <3>2 DEF First, Called, Start, Busy
    <3> QED BY <3>2, <3>3, NewMem, CalledCalls
  <2>3. CASE DecodeDelimited(m, n)
    <3> DEFINE fr == Stream("outer", m, <<>>, FALSE, 0, n)
    <3>1. First(fr, "outer", m)
      BY <2>1, FirstStream
    <3>2. Start("decode", m, fr) /\ call = "idle" /\ mem' \in Memory /\ lost' \in Nat
      BY <2>3, AtTop DEF DecodeDelimited
    <3> HIDE DEF fr
    <3>3. Called(fr)
      BY <3>1, <3>2 DEF First, Called, Start, Busy
    <3> QED BY <3>1, <3>2, <3>3, CalledCalls DEF First
  <2>4. CASE DecodeNoinit(m, n)
    <3> DEFINE fr == Stream("message", m, <<>>, FALSE, 0, n)
    <3>1. First(fr, "message", m) /\ ~fr.owns
      BY <2>1, FirstStream
    <3>2. /\ Start("merge", m, fr) /\ call \in {"idle", "held"} /\ lost' \in Nat
          /\ mem' = IF call = "held" THEN mem ELSE Entered(Nothing, <<>>)
      <4>1. lost' = lost \/ lost' = lost + Cardinality(mem.ptr)
        BY <2>1, <2>4 DEF DecodeNoinit
      <4> QED BY <2>1, <2>4, <4>1 DEF DecodeNoinit
    <3> HIDE DEF fr
    <3>3. Called(fr)
      BY <3>1, <3>2 DEF First, Called, Start, Busy
    <3>4. mem' \in Memory /\ <<>> \in DOMAIN mem'.done
      BY <3>2, AtTop, NewMem DEF Calls, EnteredAll
    <3> QED BY <3>2, <3>3, <3>4, CalledCalls
  <2> QED BY <1>2, <2>2, <2>3, <2>4
<1> QED BY <1>1, <1>2 DEF Caller

\* The caller has his answer.
LEMMA FinishedCalls ==
    ASSUME Calls, Finished
    PROVE  Calls'
<1> DEFINE fr == Stream("message", root, <<>>, FALSE, 0, 0)
<1>1. /\ Busy /\ ret # "none" /\ depth = 1 /\ ret' = "none" /\ UNCHANGED <<depth, root, lost>>
      /\ frames' = [d \in 1 .. MaxDepth |-> fr]
      /\ call' \in {"idle", "held", "broken"} /\ (call' = "held" => ret = "ok")
      /\ mem' = IF call' = "idle" THEN Unread(mem) ELSE mem
  BY DEF Finished
<1>2. fr \in Frame /\ FrameOK(fr)
  <2>1. root \in Roots /\ 0 \in Nat
    BY DEF Calls, Typed
  <2> QED BY <2>1, FirstStream DEF First
<1> HIDE DEF fr
<1>3. Answered
  BY <1>1, <1>2 DEF Answered
<1>4. mem' \in Memory
  BY <1>1, AtTop, UnreadMem
<1> QED BY <1>1, <1>3, <1>4, AtTop, AnsweredCalls

\* At first there is no call.
LEMMA CallsInit ==
    ASSUME Init
    PROVE  Calls
<1> DEFINE fr == Stream("message", root, <<>>, FALSE, 0, 0)
<1>1. /\ root \in Roots /\ depth = 1 /\ ret = "none" /\ call = "idle" /\ mem = Nothing /\ lost = 0
      /\ frames = [d \in 1 .. MaxDepth |-> fr] /\ ~Busy /\ 1 \in 1 .. MaxDepth
  BY DecodeAssumption DEF Init, Busy
<1>2. fr \in Frame /\ FrameOK(fr)
  <2>1. 0 \in Nat
    OBVIOUS
  <2> QED BY <1>1, <2>1, FirstStream DEF First
<1> HIDE DEF fr
<1>3. Typed
  BY <1>1, <1>2, NothingMem DEF Typed
<1>4. Chained /\ Stacked /\ Bottom /\ InStep /\ EnteredAll /\ Numbered
  BY <1>1 DEF Chained, Stacked, Bottom, InStep, EnteredAll, Numbered
<1> QED BY <1>3, <1>4 DEF Calls

\* Every step leaves the stack of calls in order.
LEMMA CallsNext ==
    ASSUME Calls, [Next]_vars
    PROVE  Calls'
<1>1. CASE UNCHANGED vars
  <2>1. /\ frames' = frames /\ depth' = depth /\ ret' = ret /\ call' = call /\ root' = root
        /\ mem' = mem /\ lost' = lost
    BY <1>1 DEF vars
  <2> QED BY <2>1 DEF Calls, Typed, Chained, Stacked, Bottom, InStep, EnteredAll, Numbered,
                      NumberedIn, Busy, Top
<1>2. CASE Caller
  BY <1>2, CallerCalls
<1>3. CASE EndOfMessage \/ SkipField
  BY <1>3, EndOfMessageCalls, SkipFieldCalls
<1>4. CASE \E w \in Wires : UnknownField(w) \/ \E i \in DOMAIN Msg[Top.msg] : KnownField(i, w)
  BY <1>4, UnknownFieldCalls, KnownFieldCalls
<1>5. CASE BeginStatic \/ BeginPointer \/ BeginStaticItem \/ BeginPointerItem
  BY <1>5, BeginStaticCalls, BeginPointerCalls, BeginStaticItemCalls, BeginPointerItemCalls
<1>6. CASE ReadScalar \/ ReadText \/ TextCut \/ Unreadable
  BY <1>6, ReadScalarCalls, ReadTextCalls, TextCutCalls, UnreadableCalls
<1>7. CASE OpenSubmessage \/ OpenPacked \/ OpenDelimited
  BY <1>7, OpenSubmessageCalls, OpenPackedCalls, OpenDelimitedCalls
<1>8. CASE PackedItem \/ PackedGrow \/ PackedUnreadable \/ PackedEnd
  BY <1>8, PackedItemCalls, PackedGrowCalls, PackedUnreadableCalls, PackedEndCalls
<1>9. CASE SkipCallback \/ CallbackScalar \/ OpenCallback \/ CallbackReads
  BY <1>9, SkipCallbackCalls, CallbackScalarCalls, OpenCallbackCalls, CallbackReadsCalls
<1>10. CASE Return \/ Finished
  BY <1>10, ReturnCalls, FinishedCalls
<1> QED BY <1>1, <1>2, <1>3, <1>4, <1>5, <1>6, <1>7, <1>8, <1>9, <1>10 DEF Next, Walk

\* The stack of calls is always in order.
LEMMA CallsAlways == Spec => []Calls
<1>1. Init => Calls
  BY CallsInit
<1>2. Calls /\ [Next]_vars => Calls'
  BY CallsNext
<1> QED BY <1>1, <1>2, PTL DEF Spec

\* The variables have their types whatever is decoded: every pointer, has_, which_
\* and _count that pb_decode.c sets belongs to a field of a message.
THEOREM TypeCorrect == Spec => []TypeOK
<1>1. Calls => TypeOK
  <2> SUFFICES ASSUME Calls
               PROVE  TypeOK
    OBVIOUS
  <2>1. mem \in Memory
    BY DEF Calls, Typed
  <2>2. /\ \A p \in Path : \A n \in DOMAIN p :
              p[n][1] \in Messages /\ p[n][2] \in DOMAIN Msg[p[n][1]] /\ p[n][3] \in Nat
        /\ Inner \subseteq Path
    BY PathSeq, StepTyped DEF Inner
  <2>3. /\ mem.ptr \subseteq Path /\ mem.has \subseteq Path /\ DOMAIN mem = DOMAIN Nothing
        /\ mem.count \in Counts /\ mem.room \in Counts /\ mem.done \in Reads
    BY <2>1, <2>2 DEF Memory, Nothing
  <2>4. /\ DOMAIN mem.count \subseteq Path /\ \A p \in DOMAIN mem.count : mem.count[p] \in Nat
        /\ DOMAIN mem.room \subseteq Path /\ \A p \in DOMAIN mem.room : mem.room[p] \in Nat
        /\ DOMAIN mem.done \subseteq Path /\ \A p \in DOMAIN mem.done : mem.done[p] \subseteq Nat
    BY <2>2, <2>3, CountsParts, ReadsParts
  <2>5. MemoryType(mem)
    BY <2>2, <2>3, <2>4 DEF MemoryType
  <2> QED BY <2>5 DEF Calls, Typed, TypeOK
<1> QED BY <1>1, CallsAlways, PTL

\* pb_close_string_substream, and the streams of submessages, packed arrays and
\* callbacks: position and bytes left never drift apart, in whatever order the
\* bytes of nested messages run out.
THEOREM SubstreamsInStep == Spec => []StreamsInStep
<1>1. Calls => StreamsInStep
  <2> SUFFICES ASSUME Calls, Busy, ret # "fail"
               PROVE  /\ Top.at + Top.left = Top.end
                      /\ \A d \in 1 .. depth - 1 :
                            /\ frames[d].phase = "inside"
                            /\ frames[d + 1].end + frames[d].left = frames[d].end
    BY DEF StreamsInStep
  <2> QED BY DEF Calls, InStep, Chained, Link
<1> QED BY <1>1, CallsAlways, PTL

-----------------------------------------------------------------------------
(***************************************************************************)
(* Arrays and the room they have.                                          *)
(***************************************************************************)

\* Only arrays are counted, at their member.
CountedArrays(m) ==
    \A p \in DOMAIN m.count :
        /\ Array(FieldAt(Last(p))) /\ FieldAt(Last(p)).alloc # "callback"
        /\ Last(p)[3] = 0

\* The items there is room for.
RoomOf(m, p) ==
    IF FieldAt(Last(p)).alloc = "static" THEN FieldAt(Last(p)).cap ELSE Get(m.room, p)

\* No array counts more items than it has room for.
InRoom(m) == \A p \in DOMAIN m.count : m.count[p] <= RoomOf(m, p)

\* What a call that goes on makes of the memory.
Roomy(m) == m \in Memory /\ CountedArrays(m) /\ InRoom(m)

\* A call that fails may leave an item counted that there is no room for: it
\* was counted before there was.  The room a packed array thinks it has, it has.
Counting ==
    /\ CountedArrays(mem)
    /\ (Busy /\ ret # "fail") \/ call = "held" => InRoom(mem)
    /\ Busy /\ ret = "none" /\ Top.kind = "packed" /\ Field.alloc = "pointer" =>
          Get(mem.count, Key) <= Top.room /\ Top.room <= Get(mem.room, Key)
    /\ call = "idle" => DOMAIN mem.count = {}

\* A fixed-count array is static.
LEMMA FixedStatic ==
    ASSUME NEW m \in Messages, NEW i \in DOMAIN Msg[m], Msg[m][i].rule = "fixed"
    PROVE  Msg[m][i].alloc = "static" /\ Msg[m][i].type \in {"varint", "fixed"}
  BY MessageAssumption

\* A counted array is static, or is repeated and has a pointer.
LEMMA CountedField ==
    ASSUME NEW m \in Memory, CountedArrays(m), NEW p \in DOMAIN m.count
    PROVE  /\ p \in Inner /\ FieldAt(Last(p)) \in FieldType /\ m.count[p] \in Nat
           /\ FieldAt(Last(p)).cap \in Nat
           /\ FieldAt(Last(p)).alloc = "static" \/
                 (FieldAt(Last(p)).alloc = "pointer" /\ FieldAt(Last(p)).rule = "repeated")
<1>1. p \in Inner /\ m.count[p] \in Nat
  BY CountsParts DEF Memory
<1>2. /\ p \in Path /\ Last(p) = p[Len(p)] /\ Len(p) \in 1 .. Len(p)
  BY <1>1, FrontLast DEF Inner
<1> DEFINE s == p[Len(p)][1]
           i == p[Len(p)][2]
<1>3. FieldAt(Last(p)) \in FieldType /\ s \in Messages /\ i \in DOMAIN Msg[s]
  BY <1>2, StepTyped
<1>4. FieldAt(Last(p)) = Msg[s][i]
  BY <1>2 DEF FieldAt
<1> HIDE DEF s, i
<1>5. FieldAt(Last(p)).rule = "fixed" => FieldAt(Last(p)).alloc = "static"
  BY <1>3, <1>4, FixedStatic
<1>6. FieldAt(Last(p)).rule \in {"repeated", "fixed"} /\ FieldAt(Last(p)).alloc # "callback"
  BY DEF CountedArrays, Array
<1> QED BY <1>1, <1>3, <1>5, <1>6 DEF FieldType

\* Room is counted in items.
LEMMA RoomNat ==
    ASSUME NEW m \in Memory, NEW p \in Inner
    PROVE  RoomOf(m, p) \in Nat
<1>1. Last(p) = p[Len(p)] /\ Len(p) \in 1 .. Len(p) /\ p \in Path
  BY FrontLast DEF Inner
<1>2. FieldAt(Last(p)) \in FieldType
  BY <1>1, StepTyped
<1>3. FieldAt(Last(p)).cap \in Nat
  BY <1>2 DEF FieldType
<1>4. Get(m.room, p) \in Nat
  BY CountsParts DEF Memory
<1> QED BY <1>3, <1>4 DEF RoomOf

\* A release empties what it frees.
LEMMA ReleasedInRoom ==
    ASSUME NEW m \in Memory, CountedArrays(m), NEW ps, NEW n
    PROVE  /\ CountedArrays(Released(m, ps, n))
           /\ InRoom(m) => InRoom(Released(m, ps, n))
<1> DEFINE r == Released(m, ps, n)
           gone(p) == p \in ps /\ \A k \in n .. Len(p) : Visits(m, p, k)
<1>1. /\ DOMAIN r.count = DOMAIN m.count /\ DOMAIN r.room = DOMAIN m.room
      /\ \A p \in DOMAIN m.count : r.count[p] =
            IF gone(p) /\ FieldAt(Last(p)).rule = "repeated" /\ FieldAt(Last(p)).alloc = "pointer"
            THEN 0 ELSE m.count[p]
      /\ \A p \in DOMAIN m.room : r.room[p] = IF gone(p) THEN 0 ELSE m.room[p]
      /\ r \in Memory
  BY ReleasedMem
<1> HIDE DEF r, gone
<1>2. CountedArrays(r)
  BY <1>1 DEF CountedArrays
<1>3. InRoom(m) => InRoom(r)
  <2> SUFFICES ASSUME InRoom(m), NEW p \in DOMAIN m.count
               PROVE  r.count[p] <= RoomOf(r, p)
    BY <1>1 DEF InRoom
  <2>1. /\ m.count[p] \in Nat /\ p \in Inner
        /\ FieldAt(Last(p)).alloc = "static" \/
              (FieldAt(Last(p)).alloc = "pointer" /\ FieldAt(Last(p)).rule = "repeated")
    BY CountedField
  <2>2. m.count[p] <= RoomOf(m, p) /\ RoomOf(r, p) \in Nat
    BY <1>1, <2>1, RoomNat DEF InRoom
  <2>3. CASE FieldAt(Last(p)).alloc = "static"
    BY <1>1, <2>2, <2>3 DEF RoomOf
  <2>4. CASE FieldAt(Last(p)).alloc = "pointer" /\ gone(p)
    BY <1>1, <2>1, <2>2, <2>4
  <2>5. CASE FieldAt(Last(p)).alloc = "pointer" /\ ~gone(p)
    BY <1>1, <2>2, <2>5 DEF RoomOf, Get
  <2> QED BY <2>1, <2>3, <2>4, <2>5
<1> QED BY <1>2, <1>3 DEF r

\* Clearing an object takes arrays and their room away together.
LEMMA ClearedInRoom ==
    ASSUME NEW m \in Memory, CountedArrays(m), NEW o \in Path
    PROVE  /\ CountedArrays(Cleared(m, o))
           /\ InRoom(m) => InRoom(Cleared(m, o))
<1> DEFINE c == Cleared(m, o)
<1>1. /\ \A p \in DOMAIN c.count : p \in DOMAIN m.count /\ ~IsPrefix(o, p) /\ c.count[p] = m.count[p]
      /\ \A p : ~IsPrefix(o, p) => Get(c.room, p) = Get(m.room, p)
  BY ClearedMem, ClearedGet
<1> HIDE DEF c
<1>2. CountedArrays(c)
  BY <1>1 DEF CountedArrays
<1>3. InRoom(m) => InRoom(c)
  BY <1>1 DEF InRoom, RoomOf
<1> QED BY <1>2, <1>3 DEF c

\* What is counted and allocated alike stays in its room.
LEMMA SameInRoom ==
    ASSUME NEW m \in Memory, CountedArrays(m), NEW r, r.count = m.count, r.room = m.room
    PROVE  CountedArrays(r) /\ (InRoom(m) => InRoom(r))
  BY DEF CountedArrays, InRoom, RoomOf

\* Room is made for as many items as are counted.
LEMMA AllocatedInRoom ==
    ASSUME NEW m \in Memory, CountedArrays(m), NEW p \in Inner, NEW n \in Nat,
           p \in DOMAIN m.count => m.count[p] <= n
    PROVE  /\ CountedArrays(Allocated(m, p, n))
           /\ InRoom(m) => InRoom(Allocated(m, p, n))
<1> DEFINE a == Allocated(m, p, n)
           r == Put(m.room, p, n)
<1>1. a.count = m.count /\ a.room = r
  BY AllocatedMem
<1>2. Get(r, p) = n /\ \A q : q # p => Get(r, q) = Get(m.room, q)
  BY DEF Get, Put
<1> HIDE DEF a, r
<1>3. CountedArrays(a)
  BY <1>1 DEF CountedArrays
<1>4. ASSUME InRoom(m), NEW q \in DOMAIN m.count
      PROVE  a.count[q] <= RoomOf(a, q)
  <2>1. m.count[q] <= RoomOf(m, q)
    BY <1>4 DEF InRoom
  <2>2. CASE q = p
    BY <1>1, <1>2, <2>1, <2>2 DEF RoomOf
  <2>3. CASE q # p
    BY <1>1, <1>2, <2>1, <2>3 DEF RoomOf
  <2> QED BY <2>2, <2>3
<1>5. InRoom(m) => InRoom(a)
  BY <1>1, <1>4 DEF InRoom
<1> QED BY <1>3, <1>5 DEF a

\* An item is counted that there is room for.
LEMMA CountedInRoom ==
    ASSUME NEW m \in Memory, CountedArrays(m), NEW p \in Inner, NEW n \in Nat,
           Array(FieldAt(Last(p))), FieldAt(Last(p)).alloc # "callback", Last(p)[3] = 0
    PROVE  /\ CountedArrays(Counted(m, p, n))
           /\ InRoom(m) /\ n <= RoomOf(m, p) => InRoom(Counted(m, p, n))
<1> DEFINE c == Counted(m, p, n)
           f == Put(m.count, p, n)
<1>1. c.room = m.room /\ c.count = f /\ m.count \in Counts
  BY CountedMem DEF Memory
<1>2. /\ DOMAIN f = DOMAIN m.count \cup {p} /\ f[p] = n
      /\ \A q \in DOMAIN m.count : q # p => f[q] = m.count[q]
  BY <1>1, PutCounts
<1> HIDE DEF c, f
<1>3. CountedArrays(c)
  BY <1>1, <1>2 DEF CountedArrays
<1>4. ASSUME InRoom(m), n <= RoomOf(m, p), NEW q \in DOMAIN f
      PROVE  f[q] <= RoomOf(c, q)
  <2>1. RoomOf(c, q) = RoomOf(m, q)
    BY <1>1 DEF RoomOf
  <2>2. CASE q = p
    BY <1>2, <1>4, <2>1, <2>2
  <2>3. CASE q # p
    BY <1>2, <1>4, <2>1, <2>3 DEF InRoom
  <2> QED BY <2>2, <2>3
<1>5. InRoom(m) /\ n <= RoomOf(m, p) => InRoom(c)
  BY <1>1, <1>4 DEF InRoom
<1> QED BY <1>3, <1>5 DEF c

\* Items may be counted that there is not yet room for, if it is made at once.
LEMMA GrownInRoom ==
    ASSUME NEW m, Roomy(m), NEW p \in Inner, NEW n \in Nat,
           Array(FieldAt(Last(p))), FieldAt(Last(p)).alloc = "pointer", Last(p)[3] = 0
    PROVE  Roomy(Allocated(Counted(m, p, n), p, n)) /\ CountedArrays(Counted(m, p, n))
<1> DEFINE c == Counted(m, p, n)
           f == Put(m.count, p, n)
           a == Allocated(c, p, n)
           r == Put(c.room, p, n)
<1>0. m.count \in Counts /\ m.room \in Counts
  BY DEF Memory, Roomy
<1>1. c \in Memory /\ c.room = m.room /\ c.count = f
  BY CountedMem DEF Roomy
<1>2. /\ DOMAIN f = DOMAIN m.count \cup {p} /\ f[p] = n
      /\ \A q \in DOMAIN m.count : q # p => f[q] = m.count[q]
  BY <1>0, PutCounts
<1>3. CountedArrays(c)
  BY CountedInRoom DEF Roomy
<1> HIDE DEF c
<1>4. a \in Memory /\ a.count = f /\ a.room = r
  BY <1>1, AllocatedMem
<1>b. r = Put(m.room, p, n)
  BY <1>1
<1> HIDE DEF f, a, r
<1>5. Get(r, p) = n /\ \A q : q # p => Get(r, q) = Get(m.room, q)
  <2>1. Get(Put(m.room, p, n), p) = n
    BY DEF Get, Put
  <2>2. \A q : q # p => Get(Put(m.room, p, n), q) = Get(m.room, q)
    BY DEF Get, Put
  <2> QED BY <1>b, <2>1, <2>2
<1>6. CountedArrays(a)
  BY <1>1, <1>3, <1>4 DEF CountedArrays
<1>7. ASSUME NEW q \in DOMAIN f
      PROVE  f[q] <= RoomOf(a, q)
  <2>1. CASE q = p
    BY <1>2, <1>4, <1>5, <2>1 DEF RoomOf
  <2>2. CASE q # p
    BY <1>2, <1>4, <1>5, <2>2 DEF RoomOf, InRoom, Roomy
  <2> QED BY <2>1, <2>2
<1> QED BY <1>3, <1>4, <1>6, <1>7 DEF Roomy, InRoom, a, c

-----------------------------------------------------------------------------
(* Each step of a call keeps arrays in their room. *)

\* The memory a call goes on from.
LEMMA NowRoomy ==
    ASSUME Calls, Counting, Busy, ret # "fail"
    PROVE  Roomy(mem)
  BY DEF Counting, Roomy, Calls, Typed

\* The innermost call, after a step that leaves it there.
LEMMA StayTop ==
    ASSUME Calls, NEW fr, NEW m, Stay(fr, m)
    PROVE  Top' = fr /\ mem' = m
  BY DEF Stay, Top, Calls, Typed

\* A call that stays in a message, with its arrays in their room.
LEMMA StayCounting ==
    ASSUME Calls, Busy, NEW fr, NEW m, Stay(fr, m), Roomy(m), fr.kind # "packed"
    PROVE  Counting'
  BY StayTop DEF Roomy, Counting, Stay, Busy

\* So does one that goes on to the next tag.
LEMMA TagCounting ==
    ASSUME Calls, Counting, Busy, ret = "none", Top.kind = "message",
           NEW n, Stay(NextTag(Took(Top, n)), mem)
    PROVE  Counting'
<1>1. NextTag(Took(Top, n)).kind = "message"
  BY AtTop DEF NextTag, Took, Frame
<1> QED BY <1>1, NowRoomy, StayCounting

\* So does one that goes on to a value.
LEMMA ToValueCounting ==
    ASSUME Calls, Running("message", "field"), NEW m, Roomy(m), ToValue(m)
    PROVE  Counting'
<1>1. Stay([Top EXCEPT !.phase = "value"], m) /\ [Top EXCEPT !.phase = "value"].kind # "packed"
  BY AtTop DEF ToValue, Running, Frame
<1> QED BY <1>1, StayCounting DEF Running

\* A call that fails leaves only arrays counted.
LEMMA FailCounting ==
    ASSUME Calls, Busy, ret = "none", NEW m \in Memory, CountedArrays(m), Fail(m)
    PROVE  Counting'
<1>1. ret' = "fail" /\ Busy' /\ call' \notin {"held", "idle"}
  BY DEF Fail, Busy
<1>2. CountedArrays(mem')
  BY ReleasedInRoom DEF Fail, ReleaseObject
<1> QED BY <1>1, <1>2 DEF Counting

\* A call that calls another.
LEMMA PushCounting ==
    ASSUME Calls, Busy, NEW parent, NEW child, Push(parent, child), Roomy(mem'), child.kind # "packed"
    PROVE  Counting'
<1>1. Top' = child
  BY DecodeAssumption DEF Push, Top, Calls, Typed
<1> QED BY <1>1 DEF Counting, Roomy, Push, Busy

\* A call that has its answer.
LEMMA OkCounting ==
    ASSUME Calls, Counting, Busy, ret = "none", ret' = "ok", mem' = mem, call' = call
    PROVE  Counting'
<1>1. Roomy(mem)
  BY NowRoomy
<1> QED BY <1>1 DEF Counting, Roomy, Busy

\* The memories a field is read into.
LEMMA RoomyRelease ==
    ASSUME NEW m, Roomy(m), NEW p
    PROVE  Roomy(ReleaseField(m, p)) /\ Roomy(ReleaseObject(m, p))
  BY ReleasedInRoom, ReleasedMem DEF Roomy, ReleaseField, ReleaseObject

\* The release of a union's other member leaves arrays in their room.
LEMMA RoomyUnion ==
    ASSUME Roomy(mem)
    PROVE  Roomy(UnionReleased)
  BY RoomyRelease DEF UnionReleased

\* So does which_ or has_ when it is set.
LEMMA RoomyWhich ==
    ASSUME NEW m, Roomy(m), NEW p \in Inner
    PROVE  Roomy(Which(m, p)) /\ Roomy([m EXCEPT !.has = @ \cup {p}])
<1> DEFINE h == [m EXCEPT !.has = @ \cup {p}]
<1>1. h \in Memory /\ h.count = m.count /\ h.room = m.room
  BY DEF Roomy, Memory
<1>2. /\ Which(m, p) \in Memory
      /\ Which(m, p).count = m.count /\ Which(m, p).room = m.room
  BY WhichMem DEF Roomy
<1> HIDE DEF h
<1> QED BY <1>1, <1>2, SameInRoom DEF Roomy, h

\* So does what is cleared.
LEMMA RoomyCleared ==
    ASSUME NEW m, Roomy(m), NEW o \in Path
    PROVE  Roomy(Cleared(m, o))
  BY ClearedMem, ClearedInRoom DEF Roomy

\* Places that are no arrays are not counted.
LEMMA RoomyAllocated ==
    ASSUME NEW m, Roomy(m), NEW p \in Inner, NEW n \in Nat,
           ~Array(FieldAt(Last(p))) \/ Last(p)[3] # 0
    PROVE  Roomy(Allocated(m, p, n))
<1>1. p \notin DOMAIN m.count
  BY DEF Roomy, CountedArrays
<1> QED BY <1>1, AllocatedMem, AllocatedInRoom DEF Roomy

\* So does a message that is entered.
LEMMA RoomyEntered ==
    ASSUME NEW m, Roomy(m), NEW o \in Path
    PROVE  Roomy(Entered(m, o))
  BY EnteredMem, SameInRoom DEF Roomy

\* So does a required field that was read.
LEMMA RoomyRead ==
    ASSUME NEW m, Roomy(m), NEW o \in DOMAIN m.done, NEW i \in Nat
    PROVE  Roomy(ReadAt(m, o, i))
  BY ReadMem, SameInRoom DEF Roomy

\* A struct that has its defaults counts nothing.
LEMMA RoomyNew == Roomy(Entered(Nothing, <<>>)) /\ Roomy(Nothing)
<1>1. CountedArrays(Nothing) /\ InRoom(Nothing)
  BY NothingMem DEF CountedArrays, InRoom
<1> QED BY <1>1, NothingMem, NewMem, RoomyEntered DEF Roomy

\* The end of a message counts nothing.
LEMMA EndOfMessageCounting ==
    ASSUME Calls, Counting, EndOfMessage
    PROVE  Counting'
<1>1. Busy /\ ret = "none"
  BY DEF EndOfMessage, Running
<1>2. Fail(mem) \/ (ret' = "ok" /\ mem' = mem /\ call' = call)
  BY DEF EndOfMessage
<1> QED BY <1>1, <1>2, NowRoomy, FailCounting, OkCounting DEF Roomy

\* Nor does the tag of a field the message does not have.
LEMMA UnknownFieldCounting ==
    ASSUME Calls, Counting, NEW w \in Wires, UnknownField(w)
    PROVE  Counting'
<1> DEFINE fr == [Took(Top, 1) EXCEPT !.phase = "skip", !.wire = w]
<1>1. Busy /\ ret = "none" /\ Stay(fr, mem)
  BY DEF UnknownField, Running
<1>2. fr.kind # "packed"
  BY AtTop DEF UnknownField, Running, Took, Frame
<1> HIDE DEF fr
<1> QED BY <1>1, <1>2, NowRoomy, StayCounting

\* Nor does the field itself.
LEMMA SkipFieldCounting ==
    ASSUME Calls, Counting, SkipField
    PROVE  Counting'
  BY TagCounting DEF SkipField, Running

\* A fixed-count array that begins counts nothing.
LEMMA KnownFieldCounting ==
    ASSUME Calls, Counting, NEW w \in Wires, NEW i \in DOMAIN Msg[Top.msg], KnownField(i, w)
    PROVE  Counting'
<1>1. Busy /\ ret = "none" /\ Top.kind = "message"
  BY DEF KnownField, Running
<1> DEFINE f == Msg[Top.msg][i]
           fresh == f.rule = "fixed" /\ Top.fixed # i
           p == Member(Top.obj, Top.msg, i)
           t == Took(Top, 1)
           fr == [t EXCEPT !.phase = "field", !.field = i, !.wire = IF Looks(f) THEN w ELSE @,
                           !.fixed = IF fresh THEN i ELSE @,
                           !.seen = IF i \in Checked(Top.msg) THEN @ \cup {i} ELSE @]
           m == IF fresh THEN Counted(mem, p, 0) ELSE mem
<1>2. Fail(mem) \/ Stay(fr, m)
  BY DEF KnownField
<1>3. fr.kind = t.kind /\ t.kind = Top.kind
  <2>1. t.kind = Top.kind /\ t = [Top EXCEPT !.left = @ - 1, !.at = @ + 1]
    BY AtTop DEF Took, Frame
  <2>2. DOMAIN t = DOMAIN Top
    BY <2>1
  <2> HIDE DEF t
  <2> QED BY <2>1, <2>2, AtTop DEF Frame
<1> HIDE DEF fr, t
<1>4. Roomy(mem)
  BY <1>1, NowRoomy
<1>5. Top.obj \in Path /\ Top.msg \in Messages /\ 0 \in Nat /\ p = Item(Top.obj, Top.msg, i, 0)
  BY AtTop DEF Member, Item
<1>6. p \in Inner /\ Last(p) = <<Top.msg, i, 0>>
  BY <1>5, Extended
<1>7. FieldAt(Last(p)) = f /\ Last(p)[3] = 0
  BY <1>6 DEF FieldAt
<1> HIDE DEF p
<1>8. ASSUME fresh
      PROVE  Roomy(Counted(mem, p, 0))
  <2>1. f.rule = "fixed" /\ f.alloc = "static"
    BY <1>5, <1>8, FixedStatic
  <2>2. Array(FieldAt(Last(p))) /\ FieldAt(Last(p)).alloc # "callback"
    BY <1>7, <2>1 DEF Array
  <2>3. RoomOf(mem, p) \in Nat
    BY <1>4, <1>6, RoomNat DEF Roomy
  <2>4. Counted(mem, p, 0) \in Memory
    BY <1>4, <1>5, <1>6, CountedMem DEF Roomy
  <2> DEFINE z == 0
  <2>5. z \in Nat /\ z <= RoomOf(mem, p)
    BY <2>3
  <2> HIDE DEF z
  <2>6. CountedArrays(Counted(mem, p, z)) /\ InRoom(Counted(mem, p, z))
    BY <1>4, <1>6, <1>7, <2>2, <2>5, CountedInRoom DEF Roomy
  <2> QED BY <2>4, <2>6 DEF Roomy, z
<1>9. Roomy(m)
  BY <1>4, <1>8
<1> HIDE DEF m
<1>10. CASE Fail(mem)
  BY <1>1, <1>4, <1>10, FailCounting DEF Roomy
<1>11. CASE Stay(fr, m)
  BY <1>1, <1>3, <1>9, <1>11, StayCounting
<1> QED BY <1>2, <1>10, <1>11

\* A static field that is no array counts nothing.
LEMMA BeginStaticCounting ==
    ASSUME Calls, Counting, BeginStatic
    PROVE  Counting'
<1>1. /\ Running("message", "field") /\ ~Array(Field) /\ AtField(Top) /\ Busy /\ ret = "none"
  BY DEF BeginStatic, Running, AtField
<1> DEFINE item == Append(Top.obj, <<Top.msg, Top.field, 1>>)
<1>2. item \in Path /\ Key \in Inner
  BY <1>1, ItemThere, FieldHere
<1>3. Field.rule \in {"required", "optional", "oneof"}
  BY <1>1, FieldHere DEF FieldType, Array
<1>4. \/ ToValue(UnionReleased) \/ ToValue([UnionReleased EXCEPT !.has = @ \cup {Key}])
      \/ ToValue(Cleared(Which(UnionReleased, Key), item)) \/ ToValue(Which(UnionReleased, Key))
  BY <1>3 DEF BeginStatic
<1>5. /\ Roomy(UnionReleased) /\ Roomy([UnionReleased EXCEPT !.has = @ \cup {Key}])
      /\ Roomy(Which(UnionReleased, Key))
  BY <1>1, <1>2, NowRoomy, RoomyUnion, RoomyWhich
<1> HIDE DEF item
<1>6. Roomy(Cleared(Which(UnionReleased, Key), item))
  BY <1>2, <1>5, RoomyCleared
<1> QED BY <1>1, <1>4, <1>5, <1>6, ToValueCounting

\* Nor does a pointer field that is none.
LEMMA BeginPointerCounting ==
    ASSUME Calls, Counting, BeginPointer
    PROVE  Counting'
<1>1. /\ Running("message", "field") /\ ~Array(Field) /\ AtField(Top) /\ Busy /\ ret = "none"
  BY DEF BeginPointer, Running, AtField
<1> DEFINE item == Append(Top.obj, <<Top.msg, Top.field, 1>>)
<1>2. item \in Path /\ Key \in Inner /\ ~Array(FieldAt(Last(Key)))
  BY <1>1, ItemThere, FieldHere
<1>3. \/ ToValue(PointerNamed)
      \/ ToValue(Cleared(Allocated(PointerNamed, Key, 1), item))
      \/ Fail(PointerNamed)
  BY DEF BeginPointer, PointerNamed, PointerFree
<1> HIDE DEF item
<1>4. Roomy(PointerFree)
  BY <1>1, NowRoomy, RoomyUnion, RoomyRelease DEF PointerFree
<1>5. Roomy(PointerNamed)
  BY <1>2, <1>4, RoomyWhich DEF PointerNamed
<1>6. Roomy(Allocated(PointerNamed, Key, 1))
  <2>1. 1 \in Nat
    OBVIOUS
  <2> QED BY <1>2, <1>5, <2>1, RoomyAllocated
<1>7. Roomy(Cleared(Allocated(PointerNamed, Key, 1), item))
  BY <1>2, <1>6, RoomyCleared
<1>8. CASE Fail(PointerNamed)
  BY <1>1, <1>5, <1>8, FailCounting DEF Roomy
<1> QED BY <1>1, <1>3, <1>5, <1>7, <1>8, ToValueCounting

\* An array of arrays' field, and the room it has.
LEMMA KeyArray ==
    ASSUME Calls, Counting, Busy, ret = "none", AtField(Top), Array(Field),
           Field.alloc # "callback"
    PROVE  /\ Key \in Inner /\ Array(FieldAt(Last(Key))) /\ FieldAt(Last(Key)) = Field
           /\ Last(Key)[3] = 0 /\ Roomy(mem) /\ Get(mem.count, Key) \in Nat
           /\ Get(mem.count, Key) <= RoomOf(mem, Key) /\ RoomOf(mem, Key) \in Nat
           /\ Field.alloc = "static" => RoomOf(mem, Key) = Field.cap
           /\ Field.alloc = "pointer" => RoomOf(mem, Key) = Get(mem.room, Key)
           /\ Get(mem.room, Key) \in Nat
<1>1. /\ Key \in Inner /\ FieldAt(Last(Key)) = Field /\ Last(Key) = <<Top.msg, Top.field, 0>>
      /\ Get(mem.count, Key) \in Nat
  BY FieldHere
<1>2. Roomy(mem) /\ RoomOf(mem, Key) \in Nat /\ Get(mem.room, Key) \in Nat
  BY <1>1, NowRoomy, RoomNat, CountsParts DEF Roomy, Memory
<1>3. Get(mem.count, Key) <= RoomOf(mem, Key)
  <2>1. CASE Key \in DOMAIN mem.count
    BY <1>2, <2>1 DEF Roomy, InRoom, Get
  <2>2. CASE Key \notin DOMAIN mem.count
    BY <1>2, <2>2 DEF Get
  <2> QED BY <2>1, <2>2
<1>4. /\ Field.alloc = "static" => RoomOf(mem, Key) = Field.cap
      /\ Field.alloc = "pointer" => RoomOf(mem, Key) = Get(mem.room, Key)
  BY <1>1 DEF RoomOf
<1> QED BY <1>1, <1>2, <1>3, <1>4

\* An item of a static array is counted only below array_size.
LEMMA BeginStaticItemCounting ==
    ASSUME Calls, Counting, BeginStaticItem
    PROVE  Counting'
<1>1. /\ Running("message", "field") /\ Field.alloc = "static" /\ AtField(Top)
      /\ Busy /\ ret = "none" /\ Array(Field)
  BY DEF BeginStaticItem, OneByOne, Running, AtField
<1> DEFINE n == Get(mem.count, Key) + 1
           more == Counted(mem, Key, n)
<1>2. Fail(more) \/ (ToValue(more) /\ ~(Get(mem.count, Key) >= Field.cap))
  BY DEF BeginStaticItem
<1>3. /\ Key \in Inner /\ Array(FieldAt(Last(Key))) /\ FieldAt(Last(Key)).alloc # "callback"
      /\ Last(Key)[3] = 0 /\ Roomy(mem) /\ Get(mem.count, Key) \in Nat
      /\ RoomOf(mem, Key) = Field.cap /\ Field.cap \in Nat
  BY <1>1, KeyArray, FieldHere
<1>4. n \in Nat /\ (~(Get(mem.count, Key) >= Field.cap) => n <= RoomOf(mem, Key))
  BY <1>3
<1> HIDE DEF n
<1>5. more \in Memory /\ CountedArrays(more) /\ (n <= RoomOf(mem, Key) => InRoom(more))
  BY <1>3, <1>4, CountedMem, CountedInRoom DEF Roomy
<1> HIDE DEF more
<1>6. CASE Fail(more)
  BY <1>1, <1>5, <1>6, FailCounting
<1>7. CASE ToValue(more) /\ ~(Get(mem.count, Key) >= Field.cap)
  BY <1>1, <1>4, <1>5, <1>7, ToValueCounting DEF Roomy
<1> QED BY <1>2, <1>6, <1>7

\* An item of an array of pointers is counted, and then has its room.
LEMMA BeginPointerItemCounting ==
    ASSUME Calls, Counting, BeginPointerItem
    PROVE  Counting'
<1>1. /\ Running("message", "field") /\ Field.alloc = "pointer" /\ AtField(Top)
      /\ Busy /\ ret = "none" /\ Array(Field)
  BY DEF BeginPointerItem, OneByOne, Running, AtField
<1> DEFINE n == Get(mem.count, Key) + 1
           more == Counted(mem, Key, n)
           item == Append(Top.obj, <<Top.msg, Top.field, n>>)
<1>2. n \in Nat
  BY <1>1, FieldHere
<1>3. Fail(mem) \/ Fail(more) \/ ToValue(Cleared(Allocated(more, Key, n), item))
  BY DEF BeginPointerItem
<1> HIDE DEF n
<1>4. item \in Path
  BY <1>1, <1>2, ItemThere
<1>5. /\ Key \in Inner /\ Array(FieldAt(Last(Key))) /\ FieldAt(Last(Key)).alloc = "pointer"
      /\ Last(Key)[3] = 0 /\ Roomy(mem)
  BY <1>1, KeyArray
<1>6. more \in Memory /\ CountedArrays(more) /\ Roomy(Allocated(more, Key, n))
  BY <1>2, <1>5, CountedMem, GrownInRoom DEF Roomy
<1> HIDE DEF item, more
<1>7. Roomy(Cleared(Allocated(more, Key, n), item))
  BY <1>4, <1>6, RoomyCleared
<1>8. CASE Fail(mem) \/ Fail(more)
  BY <1>1, <1>5, <1>6, <1>8, FailCounting DEF Roomy
<1> QED BY <1>1, <1>3, <1>7, <1>8, ToValueCounting

\* A value that was read leaves arrays in their room.
LEMMA ReadDoneCounting ==
    ASSUME Calls, Running("message", "value"), NEW n \in Nat, n <= Top.left,
           NEW m, Kept(m), Roomy(m), ReadDone(Took(Top, n), m)
    PROVE  Counting'
<1>1. Busy /\ ret = "none" /\ Top.kind = "message" /\ AtField(Top)
  BY DEF Running, AtField
<1> DEFINE t == Took(Top, n)
           d == ReadAt(m, t.obj, t.field)
<1>2. t.obj = Top.obj /\ t.field = Top.field /\ t.kind = Top.kind /\ t \in Frame
  BY AtTop, TookFields DEF Like
<1>3. NextTag(t).kind # "packed"
  BY <1>1, <1>2, NextTagFields DEF Like
<1>4. Top.obj \in DOMAIN m.done /\ Top.field \in Nat
  <2>1. Top.obj \in DOMAIN mem.done
    BY <1>1 DEF Calls, Typed, EnteredAll, Top
  <2> QED BY <2>1, AtTop DEF Kept, Frame
<1>5. Stay(NextTag(t), d) \/ Stay(NextTag(t), m)
  BY DEF ReadDone, ReadAt
<1>6. d = ReadAt(m, Top.obj, Top.field)
  BY <1>2
<1> HIDE DEF t, d
<1>7. Roomy(d)
  BY <1>4, <1>6, RoomyRead
<1> QED BY <1>1, <1>3, <1>5, <1>7, StayCounting

\* The text is kept where no array is counted.
LEMMA RoomyText ==
    ASSUME Calls, Counting, Running("message", "value")
    PROVE  Roomy(WithText)
<1>1. Busy /\ ret = "none" /\ Top.kind = "message" /\ Top.phase = "value" /\ AtField(Top)
  BY DEF Running, AtField
<1>2. TextSlot \in Inner /\ 1 \in Nat /\ Roomy(mem)
  BY <1>1, KeptText, NowRoomy
<1>3. ~Array(FieldAt(Last(TextSlot))) \/ Last(TextSlot)[3] # 0
  <2>1. CASE Array(Field)
    <3> DEFINE j == Get(mem.count, Key)
    <3>1. j \in Nat /\ j # 0
      BY <1>1, <2>1, FieldHere DEF Calls, Numbered, NumberedIn, Field, Key
    <3>2. TextSlot = Item(Top.obj, Top.msg, Top.field, j)
      BY <1>1, <2>1, FieldHere DEF TextSlot
    <3> HIDE DEF j
    <3>3. Top.field \in DOMAIN Msg[Top.msg] /\ Top.obj \in Path /\ Top.msg \in Messages
      BY <1>1, AtTop, FieldHere
    <3>4. Last(TextSlot) = <<Top.msg, Top.field, j>>
      BY <3>1, <3>2, <3>3, Extended
    <3> QED BY <3>1, <3>4
  <2>2. CASE ~Array(Field)
    BY <1>1, <2>2, FieldHere DEF TextSlot
  <2> QED BY <2>1, <2>2
<1> QED BY <1>2, <1>3, RoomyAllocated DEF WithText

\* So does a scalar.
LEMMA ReadScalarCounting ==
    ASSUME Calls, Counting, ReadScalar
    PROVE  Counting'
<1>1. Running("message", "value") /\ AtField(Top) /\ Busy /\ ret = "none"
  BY DEF ReadScalar, Running, AtField
<1>2. PICK n \in ScalarLens(Field) : n <= Top.left /\ ReadDone(Took(Top, n), mem)
  BY DEF ReadScalar
<1>3. n \in Nat
  BY <1>1, LensNat
<1> QED BY <1>1, <1>2, <1>3, AtTop, NowRoomy, ReadDoneCounting

\* So does a text.
LEMMA ReadTextCounting ==
    ASSUME Calls, Counting, ReadText
    PROVE  Counting'
<1>1. Running("message", "value") /\ AtField(Top)
  BY DEF ReadText, Running, AtField
<1>2. PICK n \in Lengths : 1 + n <= Top.left /\ ReadDone(Took(Top, 1 + n), WithText)
  BY DEF ReadText
<1>3. 1 + n \in Nat
  BY <1>1, LensNat
<1> QED BY <1>1, <1>2, <1>3, KeptText, RoomyText, ReadDoneCounting

\* So does what fails.
LEMMA FailsCounting ==
    ASSUME Calls, Counting, TextCut \/ Unreadable \/ PackedUnreadable
    PROVE  Counting'
<1>1. Busy /\ ret = "none" /\ (Fail(mem) \/ (Running("message", "value") /\ Fail(WithText)))
  BY DEF TextCut, Unreadable, Reading, PackedUnreadable, Running
<1> QED BY <1>1, NowRoomy, RoomyText, FailCounting DEF Roomy

\* A submessage begins with the arrays the item had, or with none.
LEMMA OpenSubmessageCounting ==
    ASSUME Calls, Counting, OpenSubmessage
    PROVE  Counting'
<1>1. Running("message", "value") /\ AtField(Top) /\ Busy /\ ret = "none"
  BY DEF OpenSubmessage, Running, AtField
<1> DEFINE item == ItemOf(Top)
           owns == Field.rule = "repeated"
           m == Entered(IF owns THEN Cleared(mem, item) ELSE mem, item)
<1>2. PICK n \in Lengths :
         /\ Push(GaveUp(n), Substream("message", Field.sub, item, owns, n)) /\ mem' = m
  BY DEF OpenSubmessage
<1>3. item \in Path
  <2>1. CASE Array(Field)
    BY <1>1, <2>1, FieldHere, ItemThere
  <2>2. CASE ~Array(Field)
    <3>1. item = Item(Top.obj, Top.msg, Top.field, 1) /\ 1 \in Nat
      BY <1>1, <2>2, FieldHere
    <3> QED BY <1>1, <3>1, ItemThere
  <2> QED BY <2>1, <2>2
<1>4. Substream("message", Field.sub, item, owns, n).kind # "packed"
  BY DEF Substream, Stream
<1> HIDE DEF item
<1>5. Roomy(mem) /\ Roomy(Cleared(mem, item))
  BY <1>1, <1>3, NowRoomy, RoomyCleared
<1>6. Roomy(Entered(mem, item)) /\ Roomy(Entered(Cleared(mem, item), item))
  BY <1>3, <1>5, RoomyEntered
<1>7. Roomy(mem')
  BY <1>2, <1>6
<1> QED BY <1>1, <1>2, <1>4, <1>7, PushCounting

\* A packed array starts with the room it is counted to have filled.
LEMMA OpenPackedCounting ==
    ASSUME Calls, Counting, OpenPacked
    PROVE  Counting'
<1>1. /\ AtField(Top) /\ Busy /\ ret = "none" /\ Array(Field) /\ Field.alloc # "callback"
      /\ mem' = mem /\ call' # "idle"
  BY DEF OpenPacked, Running, AtField, Push, Busy
<1> DEFINE owns == FALSE
           s(n) == Substream("packed", Top.msg, Top.obj, owns, n)
           room == Get(mem.count, Key)
           child(n) == [s(n) EXCEPT !.field = Top.field, !.room = room]
<1>2. PICK n \in Lengths : Push(GaveUp(n), child(n))
  BY DEF OpenPacked
<1> DEFINE c == child(n)
<1>3. c.msg = Top.msg /\ c.obj = Top.obj /\ c.field = Top.field /\ c.room = room
  BY DEF Substream, Stream
<1>4. Top' = c
  BY <1>2, DecodeAssumption DEF Push, Top, Calls, Typed
<1> HIDE DEF c
<1>5. Field' = Field /\ Key' = Key /\ Top'.room = room
  BY <1>3, <1>4 DEF Field, Key
<1>6. Roomy(mem) /\ (Field.alloc = "pointer" => room <= Get(mem.room, Key)) /\ room \in Nat
  BY <1>1, KeyArray
<1>7. Field'.alloc = "pointer" => Get(mem'.count, Key') <= Top'.room /\ Top'.room <= Get(mem'.room, Key')
  BY <1>1, <1>5, <1>6
<1>8. CountedArrays(mem') /\ InRoom(mem')
  BY <1>1, <1>6 DEF Roomy
<1> QED BY <1>1, <1>7, <1>8 DEF Counting

\* A message of pb_decode_delimited begins with no arrays.
LEMMA OpenDelimitedCounting ==
    ASSUME Calls, Counting, OpenDelimited
    PROVE  Counting'
<1>1. PICK n \in Lengths : Push(GaveUp(n), Substream("message", Top.msg, <<>>, TRUE, n))
  BY DEF OpenDelimited
<1>2. Substream("message", Top.msg, <<>>, TRUE, n).kind # "packed"
  BY DEF Substream, Stream
<1>3. Roomy(mem')
  BY RoomyNew DEF OpenDelimited
<1>4. Busy
  BY DEF OpenDelimited, Running
<1> QED BY <1>1, <1>2, <1>3, <1>4, PushCounting

\* The stream of a callback has no arrays.
LEMMA OpenCallbackCounting ==
    ASSUME Calls, Counting, OpenCallback
    PROVE  Counting'
<1>1. Busy /\ ret = "none" /\ mem' = mem
  BY DEF OpenCallback, AtCallback, Running
<1>2. PICK n \in Lengths :
         Push(GaveUp(n), Substream("callback", Top.msg, Top.obj, FALSE, n))
  BY DEF OpenCallback
<1>3. Substream("callback", Top.msg, Top.obj, FALSE, n).kind # "packed"
  BY DEF Substream, Stream
<1> QED BY <1>1, <1>2, <1>3, NowRoomy, PushCounting

\* A packed array of pointers counts no item beyond the room it has.
LEMMA PackedItemCounting ==
    ASSUME Calls, Counting, PackedItem
    PROVE  Counting'
<1>1. /\ Busy /\ ret = "none" /\ Top.kind = "packed" /\ AtField(Top)
      /\ ~Full(Get(mem.count, Key))
      /\ Field.alloc = "pointer" => Get(mem.count, Key) < Top.room
  BY DEF PackedItem, Running, AtField
<1> DEFINE n == Get(mem.count, Key) + 1
           m == Counted(mem, Key, n)
<1>2. PICK k \in ScalarLens(Field) : k <= Top.left /\ (Fail(mem) \/ Stay(Took(Top, k), m))
  BY DEF PackedItem
<1>3. Array(Field) /\ Field.alloc # "callback" /\ k \in Nat /\ Field \in FieldType
      /\ Field.cap \in Nat
  BY <1>1, AtTop, FieldHere, LensNat DEF FrameOK, Field
<1>4. /\ Key \in Inner /\ Array(FieldAt(Last(Key))) /\ FieldAt(Last(Key)).alloc # "callback"
      /\ Last(Key)[3] = 0 /\ Roomy(mem) /\ Get(mem.count, Key) \in Nat
      /\ Field.alloc = "static" => RoomOf(mem, Key) = Field.cap
      /\ Field.alloc = "pointer" => RoomOf(mem, Key) = Get(mem.room, Key)
      /\ Get(mem.room, Key) \in Nat
  BY <1>1, <1>3, KeyArray
<1>5. Field.alloc = "static" \/ Field.alloc = "pointer"
  BY <1>3 DEF FieldType
<1>6. Top.room \in Nat /\ (Field.alloc = "pointer" => Top.room <= Get(mem.room, Key))
  BY <1>1, AtTop DEF Counting, Frame
<1>7. n \in Nat /\ n <= RoomOf(mem, Key) /\ (Field.alloc = "pointer" => n <= Top.room)
  <2>1. CASE Field.alloc = "static"
    BY <1>1, <1>3, <1>4, <2>1 DEF Full
  <2>2. CASE Field.alloc = "pointer"
    BY <1>1, <1>4, <1>6, <2>2
  <2> QED BY <1>5, <2>1, <2>2
<1>8. mem \in Memory /\ CountedArrays(mem) /\ mem.count \in Counts
  BY <1>4 DEF Roomy, Memory
<1> HIDE DEF n
<1>9. m \in Memory /\ m.room = mem.room /\ m.count = Put(mem.count, Key, n)
  BY <1>4, <1>7, <1>8, CountedMem
<1>10. CountedArrays(m) /\ InRoom(m)
  BY <1>4, <1>7, <1>8, CountedInRoom DEF Roomy
<1>11. Get(m.count, Key) = n
  BY <1>9 DEF Get, Put
<1> HIDE DEF m
<1>12. CASE Fail(mem)
  BY <1>1, <1>8, <1>12, FailCounting
<1>13. CASE Stay(Took(Top, k), m)
  <2>1. Top' = Took(Top, k) /\ mem' = m
    BY <1>13, StayTop
  <2>2. /\ Took(Top, k).msg = Top.msg /\ Took(Top, k).obj = Top.obj
        /\ Took(Top, k).field = Top.field /\ Took(Top, k).room = Top.room
    BY <1>2, <1>3, AtTop, TookFields DEF Like
  <2>3. Field' = Field /\ Key' = Key /\ Top'.room = Top.room
    BY <2>1, <2>2 DEF Field, Key
  <2>4. Field'.alloc = "pointer" =>
           Get(mem'.count, Key') <= Top'.room /\ Top'.room <= Get(mem'.room, Key')
    BY <1>6, <1>7, <1>9, <1>11, <2>1, <2>3
  <2>5. CountedArrays(mem') /\ InRoom(mem') /\ call' # "idle"
    BY <1>1, <1>10, <1>13, <2>1 DEF Stay, Busy
  <2> QED BY <2>4, <2>5 DEF Counting
<1> QED BY <1>2, <1>12, <1>13

\* A packed array of pointers grows beyond what it counts.
LEMMA PackedGrowCounting ==
    ASSUME Calls, Counting, PackedGrow
    PROVE  Counting'
<1>1. /\ Busy /\ ret = "none" /\ Top.kind = "packed" /\ AtField(Top) /\ Top.left > 0
      /\ Field.alloc = "pointer"
  BY DEF PackedGrow, Running, AtField
<1> DEFINE n == Top.room + ((Top.left - 1) \div Field.width) + 1
           fr == [Top EXCEPT !.room = n]
           m == Allocated(mem, Key, n)
<1>2. Fail(mem) \/ Stay(fr, m)
  BY DEF PackedGrow
<1>3. n \in Nat /\ n >= Top.room
  <2>1. Top.room \in Nat /\ Top.left - 1 \in Nat /\ Field.width \in Nat \ {0}
    BY <1>1, AtTop, FieldHere DEF Frame
  <2>2. ((Top.left - 1) \div Field.width) \in Nat
    BY <2>1
  <2> QED BY <2>1, <2>2
<1>4. Array(Field) /\ Field.alloc # "callback"
  BY <1>1, AtTop DEF FrameOK, Field
<1>5. /\ Key \in Inner /\ Roomy(mem) /\ Get(mem.count, Key) \in Nat
      /\ mem \in Memory /\ CountedArrays(mem) /\ InRoom(mem)
  BY <1>1, <1>4, KeyArray DEF Roomy
<1>6. Get(mem.count, Key) <= Top.room /\ Top.room \in Nat
  BY <1>1, AtTop DEF Counting, Frame
<1>7. fr.msg = Top.msg /\ fr.obj = Top.obj /\ fr.field = Top.field /\ fr.room = n
  BY AtTop DEF Frame
<1> HIDE DEF n, fr
<1>8. Get(mem.count, Key) <= n
  BY <1>3, <1>5, <1>6
<1>9. Key \in DOMAIN mem.count => mem.count[Key] <= n
  BY <1>8 DEF Get
<1>10. m.count = mem.count /\ m.room = Put(mem.room, Key, n)
  BY <1>3, <1>5, AllocatedMem
<1>11. CountedArrays(m) /\ InRoom(m)
  BY <1>3, <1>5, <1>9, AllocatedInRoom
<1>12. Get(m.room, Key) = n
  BY <1>10 DEF Get, Put
<1> HIDE DEF m
<1>13. CASE Fail(mem)
  BY <1>1, <1>5, <1>13, FailCounting
<1>14. CASE Stay(fr, m)
  <2>1. Top' = fr /\ mem' = m
    BY <1>14, StayTop
  <2>2. Field' = Field /\ Key' = Key /\ Top'.room = n
    BY <1>7, <2>1 DEF Field, Key
  <2>3. Get(mem'.count, Key') <= Top'.room /\ Top'.room <= Get(mem'.room, Key')
    BY <1>3, <1>8, <1>10, <1>12, <2>1, <2>2
  <2>4. CountedArrays(mem') /\ InRoom(mem') /\ call' # "idle"
    BY <1>1, <1>11, <1>14, <2>1 DEF Stay, Busy
  <2> QED BY <2>3, <2>4 DEF Counting
<1> QED BY <1>2, <1>13, <1>14

\* A packed array that ends is left as it is.
LEMMA PackedEndCounting ==
    ASSUME Calls, Counting, PackedEnd
    PROVE  Counting'
<1>1. Busy /\ ret = "none" /\ (Fail(mem) \/ Succeed)
  BY DEF PackedEnd, Running
<1> QED BY <1>1, NowRoomy, FailCounting, OkCounting DEF Roomy, Succeed

\* A callback field that is skipped counts nothing.
LEMMA SkipCallbackCounting ==
    ASSUME Calls, Counting, SkipCallback
    PROVE  Counting'
<1>1. Busy /\ ret = "none" /\ Top.kind = "message" /\ Stay([Top EXCEPT !.phase = "skip"], mem)
  BY DEF SkipCallback, AtCallback, Running
<1>2. [Top EXCEPT !.phase = "skip"].kind # "packed"
  BY <1>1, AtTop DEF Frame
<1> QED BY <1>1, <1>2, NowRoomy, StayCounting

\* Nor does a scalar that goes to the callback.
LEMMA CallbackScalarCounting ==
    ASSUME Calls, Counting, CallbackScalar
    PROVE  Counting'
<1>1. Busy /\ ret = "none" /\ Top.kind = "message"
  BY DEF CallbackScalar, AtCallback, Running
<1>2. PICK n \in SkipLens(Top.wire) : Stay(NextTag(Took(Top, n)), mem) \/ Fail(mem)
  BY DEF CallbackScalar
<1> QED BY <1>1, <1>2, NowRoomy, TagCounting, FailCounting DEF Roomy

\* Nor does what the callback reads.
LEMMA CallbackReadsCounting ==
    ASSUME Calls, Counting, CallbackReads
    PROVE  Counting'
<1>1. Busy /\ ret = "none" /\ Top.kind = "callback"
  BY DEF CallbackReads, Running
<1>2. \/ Fail(mem) \/ (ret' = "ok" /\ mem' = mem /\ call' = call)
      \/ \E n \in 1 .. Top.left : Stay(Took(Top, n), mem)
  BY DEF CallbackReads
<1>3. ASSUME NEW n, Stay(Took(Top, n), mem)
      PROVE  Counting'
  <2>1. Took(Top, n).kind # "packed"
    BY <1>1, AtTop DEF Took, Frame
  <2> QED BY <1>1, <1>3, <2>1, NowRoomy, StayCounting
<1> QED BY <1>1, <1>2, <1>3, NowRoomy, FailCounting, OkCounting DEF Roomy

\* A call that returns leaves arrays in their room.
LEMMA ReturnCounting ==
    ASSUME Calls, Counting, Return
    PROVE  Counting'
<1>1. Busy /\ ret # "none" /\ depth > 1 /\ depth' = depth - 1 /\ call' = call
  BY DEF Return
<1>2. /\ Parent = frames[depth - 1] /\ Parent.kind \in {"message", "outer"} /\ Parent \in Frame
      /\ Closed \in Frame /\ Closed.kind = Parent.kind
  BY <1>1, ClosedFields DEF Like
<1>5. depth - 1 \in 1 .. MaxDepth /\ call' \notin {"held", "idle"}
  BY <1>1, DecodeAssumption DEF Calls, Typed, Busy
<1>3. CASE Parent.kind = "message" /\ ret = "ok"
  <2>1. /\ ret' = "none" /\ frames' = [frames EXCEPT ![depth - 1] = NextTag(Closed)]
        /\ mem' = mem \/ mem' = ReadAt(mem, Parent.obj, Parent.field)
    BY <1>3 DEF Return, ReadAt
  <2>2. Top' = NextTag(Closed)
    BY <1>1, <1>5, <2>1 DEF Top, Calls, Typed
  <2>3. NextTag(Closed).kind # "packed"
    BY <1>2, <1>3, NextTagFields DEF Like
  <2>4. Parent.obj \in DOMAIN mem.done /\ Parent.field \in Nat
    <3>1. depth - 1 \in 1 .. depth
      BY <1>1 DEF Calls, Typed
    <3> QED BY <1>1, <3>1, ClosedFields DEF Calls, EnteredAll, Frame
  <2>5. Roomy(mem) /\ Roomy(ReadAt(mem, Parent.obj, Parent.field))
    BY <1>1, <1>3, <2>4, NowRoomy, RoomyRead
  <2> QED BY <1>5, <2>1, <2>2, <2>3, <2>5 DEF Counting, Roomy
<1>4. CASE ~(Parent.kind = "message" /\ ret = "ok")
  <2>1. /\ ret' = ret
        /\ mem' = IF ret = "fail" /\ Parent.owns THEN ReleaseObject(mem, Parent.obj) ELSE mem
    BY <1>4 DEF Return
  <2>2. mem \in Memory /\ CountedArrays(mem) /\ call' \notin {"held", "idle"}
    BY <1>5, AtTop DEF Counting
  <2>3. CASE ret = "fail"
    <3>1. CountedArrays(mem')
      BY <2>1, <2>2, ReleasedInRoom DEF ReleaseObject
    <3> QED BY <2>1, <2>2, <2>3, <3>1 DEF Counting
  <2>4. CASE ret # "fail"
    BY <1>1, <2>1, <2>2, <2>4, NowRoomy DEF Counting, Roomy
  <2> QED BY <2>3, <2>4
<1> QED BY <1>3, <1>4

\* The caller begins with no arrays, or with those he holds.
LEMMA CallerCounting ==
    ASSUME Calls, Counting, Caller
    PROVE  Counting'
<1>1. ASSUME NEW m \in Roots, NEW n \in StreamSizes[m],
             Decode(m, n) \/ DecodeDelimited(m, n) \/ DecodeNoinit(m, n)
      PROVE  Counting'
  <2> DEFINE fresh(fr) == frames' = [d \in 1 .. MaxDepth |-> fr]
  <2>1. /\ call' \in {"decode", "merge"} /\ depth' = 1 /\ ret' = "none"
        /\ \/ fresh(Stream("message", m, <<>>, TRUE, 0, n))
           \/ fresh(Stream("outer", m, <<>>, FALSE, 0, n))
           \/ fresh(Stream("message", m, <<>>, FALSE, 0, n))
    BY <1>1 DEF Decode, DecodeDelimited, DecodeNoinit, Start
  <2>7. /\ Stream("message", m, <<>>, TRUE, 0, n).kind # "packed"
        /\ Stream("outer", m, <<>>, FALSE, 0, n).kind # "packed"
        /\ Stream("message", m, <<>>, FALSE, 0, n).kind # "packed"
    BY DEF Stream
  <2>8. 1 \in 1 .. MaxDepth
    BY DecodeAssumption
  <2>9. ASSUME NEW fr, fr.kind # "packed", fresh(fr)
        PROVE  Top'.kind # "packed"
    BY <2>1, <2>8, <2>9 DEF Top
  <2> HIDE DEF fresh
  <2>2. Top'.kind # "packed" /\ call' # "idle"
    BY <2>1, <2>7, <2>9
  <2>3. \/ mem' = Entered(Nothing, <<>>)
        \/ mem' = mem /\ (DecodeDelimited(m, n) \/ call = "held")
    BY <1>1 DEF Decode, DecodeDelimited, DecodeNoinit
  <2>4. CASE mem' = Entered(Nothing, <<>>)
    BY <2>2, <2>4, RoomyNew DEF Counting, Roomy
  <2>5. CASE mem' = mem /\ call = "held"
    BY <2>2, <2>5 DEF Counting
  <2>6. CASE mem' = mem /\ DecodeDelimited(m, n)
    <3>1. CountedArrays(mem) /\ InRoom(mem)
      BY <2>6 DEF Counting, DecodeDelimited, InRoom
    <3> QED BY <2>2, <2>6, <3>1 DEF Counting
  <2> QED BY <2>3, <2>4, <2>5, <2>6
<1>2. CASE Release
  <2>1. call' = "idle" /\ mem' = Unread(ReleaseObject(mem, <<>>))
    BY <1>2 DEF Release
  <2>2. DOMAIN mem'.count = {}
    <3>1. ReleaseObject(mem, <<>>) \in Memory
      BY AtTop, ReleasedMem DEF ReleaseObject
    <3> QED BY <2>1, <3>1, UnreadMem
  <2> QED BY <2>1, <2>2 DEF Counting, CountedArrays, Busy
<1> QED BY <1>1, <1>2 DEF Caller

\* What he holds then has its arrays in their room.
LEMMA FinishedCounting ==
    ASSUME Calls, Counting, Finished
    PROVE  Counting'
<1>1. /\ Busy /\ ret # "none"
      /\ call' \in {"idle", "held", "broken"} /\ (call' = "held" => ret = "ok")
      /\ mem' = IF call' = "idle" THEN Unread(mem) ELSE mem
  BY DEF Finished
<1>2. ~Busy' /\ (call' = "held" => ret = "ok")
  BY <1>1 DEF Busy
<1>3. CASE call' = "idle"
  BY <1>1, <1>2, <1>3, AtTop, UnreadMem DEF Counting, CountedArrays
<1>4. CASE call' # "idle"
  BY <1>1, <1>2, <1>4 DEF Counting
<1> QED BY <1>3, <1>4

\* Every step keeps arrays in their room.
LEMMA CountingNext ==
    ASSUME Calls, Counting, [Next]_vars
    PROVE  Counting'
<1>1. CASE UNCHANGED vars
  BY <1>1 DEF vars, Counting, Busy, Top, Field, Key
<1>2. CASE Caller
  BY <1>2, CallerCounting
<1>3. CASE EndOfMessage \/ SkipField
  BY <1>3, EndOfMessageCounting, SkipFieldCounting
<1>4. CASE \E w \in Wires : UnknownField(w) \/ \E i \in DOMAIN Msg[Top.msg] : KnownField(i, w)
  BY <1>4, UnknownFieldCounting, KnownFieldCounting
<1>5. CASE BeginStatic \/ BeginPointer \/ BeginStaticItem \/ BeginPointerItem
  BY <1>5, BeginStaticCounting, BeginPointerCounting, BeginStaticItemCounting, BeginPointerItemCounting
<1>6. CASE ReadScalar \/ ReadText \/ TextCut \/ Unreadable \/ PackedUnreadable
  BY <1>6, ReadScalarCounting, ReadTextCounting, FailsCounting
<1>7. CASE OpenSubmessage \/ OpenPacked \/ OpenDelimited \/ OpenCallback
  BY <1>7, OpenSubmessageCounting, OpenPackedCounting, OpenDelimitedCounting, OpenCallbackCounting
<1>8. CASE PackedItem \/ PackedGrow \/ PackedEnd
  BY <1>8, PackedItemCounting, PackedGrowCounting, PackedEndCounting
<1>9. CASE SkipCallback \/ CallbackScalar \/ CallbackReads
  BY <1>9, SkipCallbackCounting, CallbackScalarCounting, CallbackReadsCounting
<1>10. CASE Return \/ Finished
  BY <1>10, ReturnCounting, FinishedCounting
<1> QED BY <1>1, <1>2, <1>3, <1>4, <1>5, <1>6, <1>7, <1>8, <1>9, <1>10 DEF Next, Walk

\* Arrays are always in their room.
LEMMA CountingAlways == Spec => []Counting
<1>1. Init => Counting
  <2> SUFFICES ASSUME Init
               PROVE  Counting
    OBVIOUS
  <2>1. DOMAIN mem.count = {} /\ ~Busy /\ call # "held"
    BY NothingMem DEF Init, Busy
  <2> QED BY <2>1 DEF Counting, CountedArrays
<1>2. Calls /\ Counting /\ [Next]_vars => Counting'
  BY CountingNext
<1> QED BY <1>1, <1>2, CallsAlways, PTL DEF Spec

\* The item being decoded lies in its array, static, allocated or packed, and no
\* array counts more items than it has: pb_decode.c counts an item before there is
\* room for it only where a failure follows.
THEOREM NoItemOutOfRoom == Spec => []ItemsInRoom
<1>1. Calls /\ Counting => ItemsInRoom
  <2> SUFFICES ASSUME Calls, Counting
               PROVE  ItemsInRoom
    OBVIOUS
  <2>1. ASSUME call = "held", NEW p \in DOMAIN mem.count
        PROVE  mem.count[p] <= RoomOf(mem, p)
    BY <2>1 DEF Counting, InRoom
  <2>2. ASSUME Busy, ret = "none", NEW d \in 1 .. depth,
               frames[d].kind = "message", frames[d].phase \in {"value", "inside"},
               Array(Msg[frames[d].msg][frames[d].field]),
               Msg[frames[d].msg][frames[d].field].alloc # "callback"
        PROVE  LET key == Member(frames[d].obj, frames[d].msg, frames[d].field)
               IN  Get(mem.count, key) <= RoomOf(mem, key)
    <3> DEFINE fr == frames[d]
               key == Member(fr.obj, fr.msg, fr.field)
    <3>0. d \in 1 .. MaxDepth
      BY DecodeAssumption DEF Calls, Typed
    <3>1. FrameOK(fr) /\ AtField(fr)
      BY <2>2, <3>0 DEF Calls, Typed, AtField
    <3>2. /\ fr.obj \in Path /\ fr.msg \in Messages /\ fr.field \in DOMAIN Msg[fr.msg]
          /\ key = Item(fr.obj, fr.msg, fr.field, 0) /\ 0 \in Nat
      BY <3>1 DEF FrameOK, Frame, Member, Item
    <3> HIDE DEF fr, key
    <3>3. key \in Inner
      BY <3>2, Extended
    <3>4. RoomOf(mem, key) \in Nat
      BY <3>3, AtTop, RoomNat
    <3>5. Get(mem.count, key) <= RoomOf(mem, key)
      <4>1. CASE key \in DOMAIN mem.count
        BY <2>2, <4>1 DEF Counting, InRoom, Get
      <4>2. CASE key \notin DOMAIN mem.count
        BY <3>4, <4>2 DEF Get
      <4> QED BY <4>1, <4>2
    <3> QED BY <3>5 DEF key, fr
  <2> QED BY <2>1, <2>2 DEF ItemsInRoom, RoomOf
<1> QED BY <1>1, CallsAlways, CountingAlways, PTL

-----------------------------------------------------------------------------
(***************************************************************************)
(* The blocks of the calls on the stack.                                   *)
(***************************************************************************)

\* What is read next, of field i of the message ms at o, has a place a release
\* finds, and nothing is in it yet if it is an item of its own.
ReadyAt(o, ms, i, m) ==
    LET f == Msg[ms][i]
        key == Item(o, ms, i, 0)
        item == Item(o, ms, i, IF Array(f) THEN Get(m.count, key) ELSE 1)
    IN  /\ Standing(m, key)
        /\ f.type = "message" \/ (Array(f) /\ f.type = "text") => Standing(m, item)
        /\ f.rule = "repeated" /\ f.type = "message" => \A p \in m.ptr : ~IsPrefix(item, p)

Ready(fr, m) ==
    fr.kind = "message" /\ fr.phase = "value" => ReadyAt(fr.obj, fr.msg, fr.field, m)

\* A call that failed and owned its message has freed it, and pb_decode_delimited
\* has nothing to free of its own.
Owned ==
    /\ Rooted(root, mem)
    /\ Busy => \A d \in 1 .. depth : Reaches(root, frames[d].obj, frames[d].msg)
    /\ Busy /\ ret # "fail" => Standing(mem, Top.obj)
    /\ Busy /\ ret = "none" => Ready(Top, mem)
    /\ Busy /\ ret = "fail" /\ Top.owns => \A p \in mem.ptr : ~IsStrictPrefix(Top.obj, p)
    /\ Busy /\ Top.kind = "outer" /\ (ret = "fail" \/ Top.phase = "value") => mem.ptr = {}
    /\ call = "idle" => mem.ptr = {} /\ mem.has = {}

\* What a call makes of the memory.
Sound(m) == m \in Memory /\ Rooted(root, m) /\ Standing(m, Top.obj)

\* The memory a call goes on from.
LEMMA NowSound ==
    ASSUME Calls, Owned, Busy, ret = "none"
    PROVE  Sound(mem) /\ Reaches(root, Top.obj, Top.msg) /\ root \in Messages
<1>1. depth \in 1 .. depth /\ root \in Messages
  BY DecodeAssumption DEF Calls, Typed
<1> QED BY <1>1, AtTop DEF Owned, Sound, Top

\* A call that stays in the same message.
LEMMA StayOwned ==
    ASSUME Calls, Owned, Busy, ret = "none", NEW fr, Like(fr, Top), Top.kind # "outer",
           NEW m, Stay(fr, m), Sound(m), Ready(fr, m)
    PROVE  Owned'
<1>1. Top' = fr /\ mem' = m
  BY StayTop
<1>2. depth' = depth /\ ret' = ret /\ call' = call /\ root' = root /\ frames' = [frames EXCEPT ![depth] = fr]
  BY DEF Stay
<1>3. Busy' /\ call' # "idle"
  BY <1>2 DEF Busy
<1>4. fr.obj = Top.obj /\ fr.msg = Top.msg /\ fr.kind # "outer"
  BY DEF Like
<1>5. \A d \in 1 .. depth : Reaches(root, frames'[d].obj, frames'[d].msg)
  <2> SUFFICES ASSUME NEW d \in 1 .. depth
               PROVE  Reaches(root, frames'[d].obj, frames'[d].msg)
    OBVIOUS
  <2>1. d \in 1 .. MaxDepth
    BY DecodeAssumption DEF Calls, Typed
  <2>2. CASE d = depth
    BY <1>2, <1>4, <2>1, <2>2 DEF Owned, Top, Calls, Typed
  <2>3. CASE d # depth
    BY <1>2, <2>1, <2>3 DEF Owned, Calls, Typed
  <2> QED BY <2>2, <2>3
<1> QED BY <1>1, <1>2, <1>3, <1>4, <1>5 DEF Owned, Sound

\* A call that fails.
LEMMA FailOwned ==
    ASSUME Calls, Owned, Busy, ret = "none", NEW m, Sound(m), Fail(m),
           Top.kind = "outer" => m.ptr = {}
    PROVE  Owned'
<1>1. /\ ret' = "fail" /\ frames' = frames /\ depth' = depth /\ call' = call /\ root' = root
      /\ mem' = IF Top.owns THEN ReleaseObject(m, Top.obj) ELSE m
  BY DEF Fail
<1>2. Busy' /\ call' # "idle" /\ Top' = Top
  BY <1>1 DEF Busy, Top
<1>3. /\ Rooted(root, ReleaseObject(m, Top.obj))
      /\ \A p \in ReleaseObject(m, Top.obj).ptr : ~IsStrictPrefix(Top.obj, p)
  BY AtTop, RootedReleaseObject DEF Sound
<1>4. Rooted(root, mem') /\ (Top.owns => \A p \in mem'.ptr : ~IsStrictPrefix(Top.obj, p))
  BY <1>1, <1>3 DEF Sound
<1>5. Top.kind = "outer" => mem'.ptr = {}
  <2>1. Top.kind = "outer" => ~Top.owns
    BY AtTop DEF FrameOK
  <2> QED BY <1>1, <2>1
<1>6. \A d \in 1 .. depth : Reaches(root, frames[d].obj, frames[d].msg)
  BY DEF Owned
<1> QED BY <1>1, <1>2, <1>4, <1>5, <1>6 DEF Owned

\* A call that calls another.
LEMMA PushOwned ==
    ASSUME Calls, Owned, Busy, ret = "none", NEW parent, NEW child, Push(parent, child),
           Like(parent, Top), child.kind # "outer", child.kind = "message" => child.phase = "tag",
           Reaches(root, child.obj, child.msg), Rooted(root, mem'), Standing(mem', child.obj)
    PROVE  Owned'
<1>1. /\ depth < MaxDepth /\ depth' = depth + 1 /\ UNCHANGED <<ret, call, root>>
      /\ frames' = [frames EXCEPT ![depth] = parent, ![depth + 1] = child]
  BY DEF Push
<1>2. depth \in 1 .. MaxDepth /\ depth + 1 \in 1 .. MaxDepth /\ DOMAIN frames = 1 .. MaxDepth
      /\ MaxDepth \in Nat
  BY <1>1, DecodeAssumption DEF Calls, Typed
<1>3. Top' = child
  BY <1>1, <1>2 DEF Top
<1>4. Busy' /\ call' # "idle" /\ ret' = "none"
  BY <1>1 DEF Busy
<1>5. parent.obj = Top.obj /\ parent.msg = Top.msg
  BY DEF Like
<1>6. \A d \in 1 .. depth + 1 : Reaches(root, frames'[d].obj, frames'[d].msg)
  <2> SUFFICES ASSUME NEW d \in 1 .. depth + 1
               PROVE  Reaches(root, frames'[d].obj, frames'[d].msg)
    OBVIOUS
  <2>1. CASE d = depth + 1
    BY <1>1, <1>2, <2>1
  <2>2. CASE d = depth
    <3>1. frames'[d] = parent
      BY <1>1, <1>2, <2>2
    <3> QED BY <1>2, <1>5, <2>2, <3>1 DEF Owned, Top
  <2>3. CASE d # depth /\ d # depth + 1
    <3>1. frames'[d] = frames[d] /\ d \in 1 .. depth
      BY <1>1, <1>2, <2>3
    <3> QED BY <3>1 DEF Owned
  <2> QED BY <2>1, <2>2, <2>3
<1>7. Ready(child, mem')
  BY DEF Ready
<1> QED BY <1>1, <1>3, <1>4, <1>6, <1>7 DEF Owned

\* A call that has its answer.
LEMMA OkOwned ==
    ASSUME Calls, Owned, Busy, ret = "none", Top.kind # "outer", NEW fr, Like(fr, Top),
           frames' = [frames EXCEPT ![depth] = fr], ret' = "ok",
           mem' = mem, depth' = depth, call' = call, root' = root
    PROVE  Owned'
<1>1. depth \in 1 .. MaxDepth /\ DOMAIN frames = 1 .. MaxDepth /\ MaxDepth \in Nat
  BY DecodeAssumption DEF Calls, Typed
<1>2. Top' = fr
  BY <1>1 DEF Top
<1>3. Busy' /\ call' # "idle"
  BY DEF Busy
<1>4. fr.obj = Top.obj /\ fr.msg = Top.msg /\ fr.kind # "outer"
  BY DEF Like
<1>5. \A d \in 1 .. depth : Reaches(root, frames'[d].obj, frames'[d].msg)
  <2> SUFFICES ASSUME NEW d \in 1 .. depth
               PROVE  Reaches(root, frames'[d].obj, frames'[d].msg)
    OBVIOUS
  <2>1. CASE d = depth
    BY <1>1, <1>4, <2>1 DEF Owned, Top
  <2>2. CASE d # depth
    BY <1>1, <2>2 DEF Owned
  <2> QED BY <2>1, <2>2
<1> QED BY <1>2, <1>3, <1>4, <1>5 DEF Owned

-----------------------------------------------------------------------------
(* What keeps a memory sound. *)

\* A call keeps what it does not touch.
LEMMA SoundSame ==
    ASSUME Calls, NEW m, Sound(m), NEW r \in Memory, r.ptr = m.ptr, r.has = m.has, r.count = m.count
    PROVE  Sound(r)
  BY AtTop, RootedSame DEF Sound

\* It may release what lies below its message.
LEMMA SoundRelease ==
    ASSUME Calls, NEW m, Sound(m), NEW q \in Inner, Len(Top.obj) < Len(q)
    PROVE  /\ Sound(ReleaseField(m, q))
           /\ \A p \in ReleaseField(m, q).ptr : ~(Len(p) >= Len(q) /\ MemberOf(p, Len(q)) = q)
<1>1. Top.obj \in Path /\ Len(Top.obj) \in Nat /\ Len(q) \in Nat
  BY AtTop, PathSeq DEF Inner
<1>2. ~(Len(Top.obj) >= Len(q))
  BY <1>1
<1> QED BY <1>1, <1>2, FieldReleased, RootedReleaseField DEF Sound

\* It may allocate a block for a member that stands.
LEMMA SoundAllocated ==
    ASSUME Calls, NEW m, Sound(m), NEW q \in Inner, NEW n \in Nat, Placed(root, q), Holder(q),
           Standing(m, q)
    PROVE  Sound(Allocated(m, q, n))
  BY AtTop, AllocatedMem, StandingAllocated, RootedAllocated DEF Sound

\* It may count more items.
LEMMA SoundCounted ==
    ASSUME Calls, NEW m, Sound(m), NEW q \in Inner, NEW n \in Nat,
           FieldAt(Last(q)).rule = "repeated" => Get(m.count, q) <= n
    PROVE  Sound(Counted(m, q, n))
  BY AtTop, CountedMem, StandingCounted, RootedCounted DEF Sound

\* It may clear an item.
LEMMA SoundCleared ==
    ASSUME Calls, NEW m, Sound(m), NEW o \in Inner, Last(o)[3] > 0, Len(Top.obj) < Len(o)
    PROVE  Sound(Cleared(m, o)) /\ \A p \in Cleared(m, o).ptr : ~IsPrefix(o, p)
<1>1. Top.obj \in Path /\ Len(Top.obj) \in Nat /\ Len(o) \in Nat /\ o \in Path
  BY AtTop, PathSeq DEF Inner
<1>2. Len(Top.obj) <= Len(o)
  BY <1>1
<1> QED BY <1>1, <1>2, ClearedMem, StandingCleared, RootedCleared DEF Sound

\* It may set has_.
LEMMA SoundHas ==
    ASSUME Calls, NEW m, Sound(m), NEW q \in Inner, Placed(root, q), Last(q)[3] = 0, ~OneOf(q)
    PROVE  Sound([m EXCEPT !.has = @ \cup {q}])
<1> DEFINE r == [m EXCEPT !.has = @ \cup {q}]
<1>1. r \in Memory /\ r.ptr = m.ptr /\ r.has = m.has \cup {q} /\ r.count = m.count /\ m \in Memory
  BY DEF Memory, Sound
<1>2. Rooted(root, r)
  BY RootedHas DEF Sound
<1> HIDE DEF r
<1>3. \A s \in Inner : Get(m.count, s) <= Get(r.count, s)
  BY <1>1, CountsParts DEF Memory
<1>4. Standing(r, Top.obj)
  BY <1>1, <1>3, AtTop, StandingMore DEF Sound
<1> QED BY <1>1, <1>2, <1>4 DEF Sound, r

\* No other member of the union at the field has a block.
Alone(m) ==
    \A p \in m.ptr : \A n \in 1 .. Len(p) :
        FieldAt(p[n]).rule = "oneof" /\ Front(MemberOf(p, n)) = Front(Key) => MemberOf(p, n) = Key

\* It may set which_, once the union's other members have no block.
LEMMA SoundWhich ==
    ASSUME Calls, AtField(Top), NEW m, Sound(m), Placed(root, Key), Alone(m)
    PROVE  Sound(Which(m, Key)) /\ Key \in Which(m, Key).has /\ Which(m, Key).ptr = m.ptr
<1>1. Key \in Inner /\ Last(Key)[3] = 0 /\ Front(Key) = Top.obj
  BY FieldHere
<1>2. Rooted(root, Which(m, Key))
  BY <1>1, RootedWhich DEF Sound, Alone
<1>3. /\ Which(m, Key) \in Memory /\ Which(m, Key).ptr = m.ptr /\ Key \in Which(m, Key).has
  BY <1>1, WhichMem DEF Sound
<1>4. Standing(Which(m, Key), Top.obj)
  <2>1. Top.obj \in Path /\ Len(Top.obj) \in Nat
    BY AtTop
  <2>2. ASSUME NEW n \in 1 .. Len(Top.obj), Front(MemberOf(Top.obj, n)) = Front(Key)
        PROVE  FALSE
    <3>1. MemberOf(Top.obj, n) \in Inner /\ Len(MemberOf(Top.obj, n)) = n
      BY <2>1, MemberOfPath
    <3>2. Len(Front(MemberOf(Top.obj, n))) = n - 1
      BY <3>1, FrontLast
    <3> QED BY <1>1, <2>1, <2>2, <3>2
  <2> QED BY <1>1, <2>1, <2>2, StandingWhich DEF Sound
<1> QED BY <1>2, <1>3, <1>4 DEF Sound

-----------------------------------------------------------------------------
(* What a field finds in memory, and leaves there. *)

\* The places of the field at Top.
LEMMA FieldPlaced ==
    ASSUME Calls, Owned, Busy, ret = "none", AtField(Top), NEW j \in Nat
    PROVE  /\ Placed(root, Key) /\ Placed(root, Item(Top.obj, Top.msg, Top.field, j))
           /\ Field.type = "message" /\ Field.alloc # "callback" /\ j > 0 =>
                 Reaches(root, Item(Top.obj, Top.msg, Top.field, j), Field.sub)
<1>1. /\ Top.field \in DOMAIN Msg[Top.msg] /\ Top.msg \in Messages /\ Top.obj \in Path
      /\ Key = Item(Top.obj, Top.msg, Top.field, 0) /\ Field = Msg[Top.msg][Top.field] /\ 0 \in Nat
  BY AtTop, FieldHere DEF Field
<1>2. root \in Messages /\ Reaches(root, Top.obj, Top.msg)
  BY NowSound
<1>3. Placed(root, Key)
  BY <1>1, <1>2, PlacedItem
<1> QED BY <1>1, <1>2, <1>3, PlacedItem

\* An item with a higher number than the array counts has no block.
LEMMA NothingBeyond ==
    ASSUME Calls, AtField(Top), NEW m, Sound(m), Field.rule = "repeated", NEW j \in Nat,
           Get(m.count, Key) < j, NEW p \in m.ptr
    PROVE  ~IsPrefix(Item(Top.obj, Top.msg, Top.field, j), p)
<1> DEFINE item == Item(Top.obj, Top.msg, Top.field, j)
           n == Len(Top.obj) + 1
<1> SUFFICES ASSUME IsPrefix(item, p)
             PROVE  FALSE
  OBVIOUS
<1>1. /\ Top.field \in DOMAIN Msg[Top.msg] /\ Top.msg \in Messages /\ Top.obj \in Path
      /\ Key = Item(Top.obj, Top.msg, Top.field, 0) /\ Field \in FieldType
      /\ Field = Msg[Top.msg][Top.field] /\ Len(Top.obj) \in Nat
  BY AtTop, FieldHere DEF Field
<1>2. item \in Path /\ Len(item) = n /\ item[n] = <<Top.msg, Top.field, j>>
  BY <1>1, Extended DEF Inner
<1>3. MemberOf(item, n) = Key
  BY <1>1, MemberOfLast
<1> HIDE DEF item
<1>4. p \in Path /\ Standing(m, p) /\ m \in Memory
  BY PointerPlaces DEF Sound, Rooted
<1>5. Len(item) <= Len(p) /\ \A k \in 1 .. Len(item) : item[k] = p[k]
  BY <1>2, <1>4, PrefixSteps
<1>6. Len(p) \in Nat /\ n \in 1 .. Len(item) /\ n <= Len(p) /\ n \in 1 .. Len(p)
  BY <1>1, <1>2, <1>4, <1>5, PathSeq
<1>7. MemberOf(p, n) = Key /\ p[n] = <<Top.msg, Top.field, j>>
  <2>1. \A k \in 1 .. n : item[k] = p[k]
    BY <1>2, <1>5
  <2> QED BY <1>2, <1>3, <1>4, <1>6, <2>1, SameMember
<1>8. FieldAt(p[n]) = Field /\ p[n][3] = j
  BY <1>1, <1>7 DEF FieldAt
<1>9. Get(m.count, Key) \in Nat /\ Field.cap \in Nat
  BY <1>1, <1>4, CountsParts DEF Memory, FieldType
<1>10. j > 0
  BY <1>9
<1>11. j <= Items(m, Field, Key)
  <2>1. Visits(m, p, n)
    BY <1>4, <1>6 DEF Standing
  <2> QED BY <1>7, <1>8, <1>10, <2>1 DEF Visits
<1>12. Items(m, Field, Key) <= Get(m.count, Key)
  <2>1. CASE Field.alloc = "pointer"
    <3>1. Items(m, Field, Key) = Get(m.count, Key)
      BY <2>1 DEF Items
    <3> QED BY <1>9, <3>1
  <2>2. CASE Field.alloc # "pointer"
    <3> DEFINE c == Get(m.count, Key)
    <3>1. Items(m, Field, Key) = Min({Field.cap, c})
      BY <2>2 DEF Items
    <3>2. c \in Nat
      BY <1>9
    <3> HIDE DEF c
    <3>3. Min({Field.cap, c}) <= c
      BY <1>9, <3>2, MinOfTwo
    <3> QED BY <3>1, <3>3 DEF c
  <2> QED BY <2>1, <2>2
<1>13. Items(m, Field, Key) \in Nat
  <2>1. Get(m.count, Key) <= Get(m.count, Key)
    BY <1>9
  <2> QED BY <1>1, <1>4, <2>1, MoreItems
<1> QED BY <1>9, <1>11, <1>12, <1>13

\* What is read next at Top has its place.
LEMMA ReadyHere ==
    ASSUME Calls, AtField(Top), NEW m, Sound(m),
           Field.rule = "oneof" => Key \in m.has,
           Field.alloc = "pointer" /\ (Field.type = "message" \/ Array(Field)) => Key \in m.ptr,
           Field.rule = "repeated" =>
              Get(m.count, Key) > 0 /\ (Field.alloc # "pointer" => Get(m.count, Key) <= Field.cap),
           Field.rule = "repeated" /\ Field.type = "message" => \A p \in m.ptr :
              ~IsPrefix(Item(Top.obj, Top.msg, Top.field, Get(m.count, Key)), p)
    PROVE  ReadyAt(Top.obj, Top.msg, Top.field, m)
<1> DEFINE n == Get(m.count, Key)
           j == IF Array(Field) THEN n ELSE 1
           item == Item(Top.obj, Top.msg, Top.field, j)
<1>1. /\ Top.field \in DOMAIN Msg[Top.msg] /\ Top.msg \in Messages /\ Top.obj \in Path
      /\ Key = Item(Top.obj, Top.msg, Top.field, 0) /\ Field \in FieldType
      /\ Field = Msg[Top.msg][Top.field] /\ Field.cap \in Nat
  BY AtTop, FieldHere DEF Field
<1>2. m \in Memory /\ Standing(m, Top.obj) /\ n \in Nat
  BY <1>1, CountsParts DEF Sound, Memory
<1>3. Field.rule = "fixed" => Field.type \notin {"message", "text"}
  BY <1>1, MessageAssumption
<1>4. Field.rule = "repeated" => Items(m, Field, Key) = n
  <2>1. CASE Field.alloc = "pointer"
    BY <2>1 DEF Items
  <2>2. CASE Field.alloc # "pointer" /\ Field.rule = "repeated"
    <3>1. n <= Field.cap
      BY <2>2
    <3>2. Items(m, Field, Key) = Min({Field.cap, n})
      BY <2>2 DEF Items
    <3> HIDE DEF n
    <3>3. /\ Min({Field.cap, n}) <= n /\ (Min({Field.cap, n}) = Field.cap \/ Min({Field.cap, n}) = n)
          /\ Min({Field.cap, n}) \in Nat
      BY <1>1, <1>2, MinOfTwo
    <3> QED BY <1>1, <1>2, <3>1, <3>2, <3>3
  <2> QED BY <2>1, <2>2
<1>5. Field.rule # "repeated" => Items(m, Field, Key) = 1
  BY DEF Items
<1>6. Standing(m, Key)
  <2> DEFINE z == 0
  <2>1. z \in Nat /\ ~(z > 0)
    OBVIOUS
  <2>2. Key = Item(Top.obj, Top.msg, Top.field, z)
    BY <1>1
  <2> HIDE DEF z
  <2>3. Item(Top.obj, Top.msg, Top.field, 0) = Key
    BY <1>1
  <2>4. Standing(m, Item(Top.obj, Top.msg, Top.field, z))
    BY <1>1, <1>2, <2>1, <2>3, StandingItem
  <2> QED BY <2>2, <2>4
<1>7. ASSUME Field.type = "message" \/ (Array(Field) /\ Field.type = "text")
      PROVE  Standing(m, item)
  <2>1. j \in Nat /\ j <= Items(m, Field, Key) /\ (Field.alloc = "pointer" => Key \in m.ptr)
    <3>1. CASE Array(Field)
      <4>1. Field.rule = "repeated"
        BY <1>3, <1>7, <3>1 DEF Array
      <4> QED BY <1>2, <1>4, <3>1, <4>1
    <3>2. CASE ~Array(Field)
      <4>1. Field.rule # "repeated" /\ Field.type = "message"
        BY <1>7, <3>2 DEF Array
      <4> QED BY <1>5, <3>2, <4>1
    <3> QED BY <3>1, <3>2
  <2> HIDE DEF j
  <2> QED BY <1>1, <1>2, <2>1, StandingItem
<1>8. Field.rule = "repeated" => Array(Field)
  BY DEF Array
<1> HIDE DEF n
<1>9. Field.rule = "repeated" /\ Field.type = "message" => \A p \in m.ptr : ~IsPrefix(item, p)
  BY <1>8 DEF n
<1> QED BY <1>1, <1>6, <1>7, <1>9 DEF ReadyAt, n

\* A call that goes on to the value of its field.
LEMMA ToValueOwned ==
    ASSUME Calls, Owned, Running("message", "field"), Field.alloc # "callback", NEW m, Sound(m),
           ReadyAt(Top.obj, Top.msg, Top.field, m), ToValue(m)
    PROVE  Owned'
<1>1. Busy /\ ret = "none" /\ Top.kind = "message"
  BY DEF Running
<1> DEFINE fr == [Top EXCEPT !.phase = "value"]
<1>2. Like(fr, Top) /\ fr.field = Top.field /\ fr.obj = Top.obj /\ fr.msg = Top.msg
  BY AtTop DEF Frame, Like
<1>3. Stay(fr, m)
  BY DEF ToValue
<1> HIDE DEF fr
<1>4. Ready(fr, m)
  BY <1>2 DEF Ready
<1> QED BY <1>1, <1>2, <1>3, <1>4, StayOwned

\* The release of a union's other member leaves nothing that hangs on one.
LEMMA SoundUnion ==
    ASSUME Calls, Owned, Busy, ret = "none", AtField(Top)
    PROVE  Sound(UnionReleased) /\ (Field.rule = "oneof" => Alone(UnionReleased))
<1>1. Sound(mem)
  BY NowSound
<1>2. Key \in Inner /\ Front(Key) = Top.obj /\ Top.obj \in Path /\ Len(Top.obj) \in Nat
  BY AtTop, FieldHere
<1>3. ASSUME NEW p \in mem.ptr, NEW n \in 1 .. Len(p), FieldAt(p[n]).rule = "oneof",
             Front(MemberOf(p, n)) = Front(Key), MemberOf(p, n) # Key
      PROVE  MemberOf(p, n) \in Others(mem)
  <2>1. p \in Path /\ Standing(mem, p)
    BY <1>1, PointerPlaces DEF Sound, Rooted
  <2>2. MemberOf(p, n) \in mem.has
    BY <1>3, <2>1 DEF Standing, Visits
  <2>3. FieldAt(Last(MemberOf(p, n))) = FieldAt(p[n])
    BY <2>1, FieldOfMember
  <2> QED BY <1>2, <1>3, <2>2, <2>3 DEF Others
<1>4. CASE ~(Field.rule = "oneof" /\ Others(mem) # {})
  <2>1. UnionReleased = mem
    BY <1>4 DEF UnionReleased
  <2>2. Field.rule = "oneof" => Alone(mem)
    BY <1>3, <1>4 DEF Alone
  <2> QED BY <1>1, <2>1, <2>2
<1>5. CASE Field.rule = "oneof" /\ Others(mem) # {}
  <2> DEFINE q == CHOOSE p \in Others(mem) : TRUE
             r == ReleaseField(mem, q)
  <2>1. UnionReleased = r /\ q \in Others(mem)
    BY <1>5 DEF UnionReleased
  <2> HIDE DEF q
  <2>2. q \in mem.has /\ Front(q) = Top.obj /\ OneOf(q)
    BY <2>1 DEF Others, OneOf
  <2>3. q \in Inner /\ mem \in Memory
    BY <1>1, <2>2, PointerPlaces DEF Sound
  <2>4. Len(q) = Len(Top.obj) + 1 /\ Len(Top.obj) < Len(q)
    BY <1>2, <2>2, <2>3, FrontLast
  <2>5. /\ Sound(r) /\ r.ptr \subseteq mem.ptr
        /\ \A p \in r.ptr : ~(Len(p) >= Len(q) /\ MemberOf(p, Len(q)) = q)
    BY <1>1, <2>3, <2>4, SoundRelease, FieldReleased
  <2> HIDE DEF r
  <2>6. ASSUME NEW p \in r.ptr, NEW n \in 1 .. Len(p), FieldAt(p[n]).rule = "oneof",
               Front(MemberOf(p, n)) = Front(Key), MemberOf(p, n) # Key
        PROVE  FALSE
    <3>1. MemberOf(p, n) \in Others(mem) /\ p \in mem.ptr
      BY <1>3, <2>5, <2>6
    <3>2. MemberOf(p, n) \in mem.has /\ Front(MemberOf(p, n)) = Top.obj /\ OneOf(MemberOf(p, n))
      BY <3>1 DEF Others, OneOf
    <3>3. MemberOf(p, n) = q
      BY <1>1, <2>2, <3>2 DEF Sound, Rooted
    <3>4. p \in Path /\ Len(p) \in Nat
      BY <2>3, <3>1, PointerPlaces, PathSeq
    <3>5. Len(MemberOf(p, n)) = n
      BY <3>4, MemberOfPath
    <3>6. Len(q) = n /\ Len(p) >= Len(q)
      BY <3>3, <3>4, <3>5
    <3>7. MemberOf(p, Len(q)) = q
      BY <3>3, <3>6
    <3> QED BY <2>5, <3>6, <3>7
  <2>7. Alone(r)
    BY <2>6 DEF Alone
  <2> QED BY <2>1, <2>5, <2>7
<1> QED BY <1>4, <1>5

\* The item at Top is not its member.
LEMMA KeyNotBelow ==
    ASSUME Calls, AtField(Top), NEW j \in Nat, j > 0
    PROVE  /\ Item(Top.obj, Top.msg, Top.field, j) \in Inner
           /\ Last(Item(Top.obj, Top.msg, Top.field, j))[3] > 0
           /\ Len(Top.obj) < Len(Item(Top.obj, Top.msg, Top.field, j))
           /\ Item(Top.obj, Top.msg, Top.field, j) \in Path
           /\ ~IsPrefix(Item(Top.obj, Top.msg, Top.field, j), Key)
           /\ Item(Top.obj, Top.msg, Top.field, j) = Append(Top.obj, <<Top.msg, Top.field, j>>)
<1> DEFINE item == Item(Top.obj, Top.msg, Top.field, j)
<1>1. /\ Top.field \in DOMAIN Msg[Top.msg] /\ Top.msg \in Messages /\ Top.obj \in Path
      /\ Key \in Inner /\ Len(Key) = Len(Top.obj) + 1 /\ Last(Key) = <<Top.msg, Top.field, 0>>
  BY AtTop, FieldHere
<1>2. /\ item \in Inner /\ Len(item) = Len(Top.obj) + 1 /\ Last(item) = <<Top.msg, Top.field, j>>
      /\ item \in Path /\ Len(Top.obj) < Len(item)
      /\ item = Append(Top.obj, <<Top.msg, Top.field, j>>)
  BY <1>1, Extended, ItemThere
<1> HIDE DEF item
<1>3. item # Key /\ Key \in Path
  <2>1. <<Top.msg, Top.field, j>> # <<Top.msg, Top.field, 0>>
    OBVIOUS
  <2> QED BY <1>1, <1>2, <2>1 DEF Inner
<1>4. ~IsPrefix(item, Key)
  BY <1>1, <1>2, <1>3, NotInMember
<1>5. Last(item)[3] > 0
  BY <1>2
<1> QED BY <1>2, <1>4, <1>5 DEF item

-----------------------------------------------------------------------------
(* What each step leaves of the blocks. *)

\* The answer of a call may come after it read some bytes more.
LEMMA EndOfMessageOwned ==
    ASSUME Calls, Owned, EndOfMessage
    PROVE  Owned'
<1>1. Busy /\ ret = "none" /\ Top.kind = "message"
  BY DEF EndOfMessage, Running
<1>2. CASE Fail(mem)
  BY <1>1, <1>2, NowSound, FailOwned
<1>3. CASE ~Fail(mem)
  <2>1. PICK n \in {0, 1} : (n = 0 <=> Top.left = 0) /\ frames' = [frames EXCEPT ![depth] = Took(Top, n)]
    BY <1>3 DEF EndOfMessage
  <2>2. ret' = "ok" /\ mem' = mem /\ depth' = depth /\ call' = call /\ root' = root
    BY <1>3 DEF EndOfMessage
  <2>3. n \in Nat /\ n <= Top.left
    BY <2>1, AtTop
  <2>4. Like(Took(Top, n), Top)
    BY <2>3, AtTop, TookFields
  <2> QED BY <1>1, <2>1, <2>2, <2>4, OkOwned
<1> QED BY <1>2, <1>3

\* A field nobody knows leaves everything where it is.
LEMMA UnknownFieldOwned ==
    ASSUME Calls, Owned, NEW w \in Wires, UnknownField(w)
    PROVE  Owned'
<1> DEFINE t == Took(Top, 1)
           fr == [t EXCEPT !.phase = "skip", !.wire = w]
<1>1. Busy /\ ret = "none" /\ Top.kind = "message" /\ Stay(fr, mem)
  BY DEF UnknownField, Running
<1>2. t = [Top EXCEPT !.left = @ - 1, !.at = @ + 1]
  BY DEF Took
<1>3. Like(fr, Top) /\ fr.phase = "skip"
  BY <1>2, AtTop DEF Like, Frame
<1> HIDE DEF fr
<1> QED BY <1>1, <1>3, NowSound, StayOwned DEF Ready

\* So does the skipping of it.
LEMMA TagOwned ==
    ASSUME Calls, Owned, Busy, ret = "none", Top.kind = "message", NEW n \in Nat, n <= Top.left,
           NEW m, Sound(m), Stay(NextTag(Took(Top, n)), m)
    PROVE  Owned'
<1> DEFINE t == Took(Top, n)
           fr == NextTag(t)
<1>1. t \in Frame /\ Like(t, Top)
  BY AtTop, TookFields
<1>2. Like(fr, t) /\ fr.phase = "tag"
  BY <1>1, NextTagFields
<1>3. Like(fr, Top) /\ Stay(fr, m)
  BY <1>1, <1>2 DEF Like
<1> HIDE DEF fr, t
<1> QED BY <1>2, <1>3, StayOwned DEF Ready

\* A field the message does not have is skipped.
LEMMA SkipFieldOwned ==
    ASSUME Calls, Owned, SkipField
    PROVE  Owned'
<1>1. Busy /\ ret = "none" /\ Top.kind = "message"
  BY DEF SkipField, Running
<1>2. PICK n \in SkipLens(Top.wire) : n <= Top.left /\ Stay(NextTag(Took(Top, n)), mem)
  BY DEF SkipField
<1>3. n \in Nat
  BY SkipLensNat
<1> QED BY <1>1, <1>2, <1>3, NowSound, TagOwned

\* A fixed-count array holds no block.
LEMMA KnownFieldOwned ==
    ASSUME Calls, Owned, NEW w \in Wires, NEW i \in DOMAIN Msg[Top.msg], KnownField(i, w)
    PROVE  Owned'
<1> DEFINE f == Msg[Top.msg][i]
           fresh == f.rule = "fixed" /\ Top.fixed # i
           p == Member(Top.obj, Top.msg, i)
           t == Took(Top, 1)
           fr == [t EXCEPT !.phase = "field", !.field = i, !.wire = IF Looks(f) THEN w ELSE @,
                           !.fixed = IF fresh THEN i ELSE @,
                           !.seen = IF i \in Checked(Top.msg) THEN @ \cup {i} ELSE @]
           m == IF fresh THEN Counted(mem, p, 0) ELSE mem
<1>1. Busy /\ ret = "none" /\ Top.kind = "message" /\ Sound(mem)
  BY NowSound DEF KnownField, Running
<1>2. Fail(mem) \/ Stay(fr, m)
  BY DEF KnownField
<1>3. Like(fr, Top) /\ fr.phase = "field"
  <2>1. t = [Top EXCEPT !.left = @ - 1, !.at = @ + 1]
    BY DEF Took
  <2>2. Like(t, Top) /\ DOMAIN t = DOMAIN Top
    BY <2>1, AtTop DEF Frame, Like
  <2> HIDE DEF t
  <2> QED BY <2>2, AtTop DEF Frame, Like
<1> HIDE DEF fr, t
<1>4. Top.obj \in Path /\ Top.msg \in Messages /\ 0 \in Nat /\ p = Item(Top.obj, Top.msg, i, 0)
  BY AtTop DEF Member, Item
<1>5. p \in Inner /\ FieldAt(Last(p)) = f
  BY <1>4, Extended DEF FieldAt
<1> HIDE DEF p
<1>6. Sound(m)
  <2>1. CASE fresh
    <3>1. FieldAt(Last(p)).rule # "repeated"
      BY <1>5, <2>1
    <3> DEFINE z == 0
    <3>2. z \in Nat
      OBVIOUS
    <3> HIDE DEF z
    <3>3. Sound(Counted(mem, p, z))
      BY <1>1, <1>5, <3>1, <3>2, SoundCounted
    <3> QED BY <2>1, <3>3 DEF z
  <2>2. CASE ~fresh
    BY <1>1, <2>2
  <2> QED BY <2>1, <2>2
<1> HIDE DEF m
<1>7. CASE Fail(mem)
  BY <1>1, <1>7, FailOwned
<1>8. CASE Stay(fr, m)
  BY <1>1, <1>3, <1>6, <1>8, StayOwned DEF Ready
<1> QED BY <1>2, <1>7, <1>8

\* A static field has its place in its object.
LEMMA BeginStaticOwned ==
    ASSUME Calls, Owned, BeginStatic
    PROVE  Owned'
<1>1. /\ Running("message", "field") /\ Field.alloc = "static" /\ ~Array(Field) /\ AtField(Top)
      /\ Busy /\ ret = "none"
  BY DEF BeginStatic, Running, AtField
<1> DEFINE item == Append(Top.obj, <<Top.msg, Top.field, 1>>)
           w == Which(UnionReleased, Key)
           h == [UnionReleased EXCEPT !.has = @ \cup {Key}]
<1>2. Field.rule \in {"required", "optional", "oneof"}
  BY <1>1, FieldHere DEF FieldType, Array
<1>3. \/ Field.rule = "required" /\ ToValue(UnionReleased)
      \/ Field.rule = "optional" /\ ToValue(h)
      \/ Field.rule = "oneof" /\ Field.type = "message" /\ ToValue(Cleared(w, item))
      \/ Field.rule = "oneof" /\ Field.type # "message" /\ ToValue(w)
  BY <1>2 DEF BeginStatic
<1>4. /\ Sound(UnionReleased) /\ (Field.rule = "oneof" => Alone(UnionReleased))
      /\ Placed(root, Key) /\ Key \in Inner /\ Last(Key)[3] = 0 /\ FieldAt(Last(Key)) = Field
  <2>1. 0 \in Nat
    OBVIOUS
  <2> QED BY <1>1, <2>1, SoundUnion, FieldPlaced, FieldHere
<1>5. CASE Field.rule = "required" /\ ToValue(UnionReleased)
  BY <1>1, <1>4, <1>5, ReadyHere, ToValueOwned
<1>6. CASE Field.rule = "optional" /\ ToValue(h)
  <2>1. Sound(h)
    BY <1>4, <1>6, SoundHas DEF OneOf
  <2> HIDE DEF h
  <2> QED BY <1>1, <1>6, <2>1, ReadyHere, ToValueOwned
<1>7. Field.rule = "oneof" => Sound(w) /\ Key \in w.has
  BY <1>1, <1>4, SoundWhich
<1>8. CASE Field.rule = "oneof" /\ Field.type # "message" /\ ToValue(w)
  BY <1>1, <1>7, <1>8, ReadyHere, ToValueOwned
<1>9. CASE Field.rule = "oneof" /\ Field.type = "message" /\ ToValue(Cleared(w, item))
  <2> DEFINE c == Cleared(w, item)
  <2>1. 1 \in Nat /\ 1 > 0
    OBVIOUS
  <2>2. /\ item \in Inner /\ Last(item)[3] > 0 /\ Len(Top.obj) < Len(item) /\ item \in Path
        /\ ~IsPrefix(item, Key)
    BY <1>1, <2>1, KeyNotBelow
  <2> HIDE DEF item
  <2>3. Sound(c)
    BY <1>7, <1>9, <2>2, SoundCleared
  <2>4. Key \in c.has
    BY <1>7, <1>9, <2>2, ClearedMem DEF Sound
  <2> HIDE DEF c, w
  <2> QED BY <1>1, <1>9, <2>3, <2>4, ReadyHere, ToValueOwned DEF c
<1> QED BY <1>3, <1>5, <1>6, <1>8, <1>9

\* What the old submessage leaves, and the union, before the new one.
LEMMA SoundNamed ==
    ASSUME Calls, Owned, Busy, ret = "none", AtField(Top)
    PROVE  /\ Sound(PointerNamed) /\ Sound(PointerFree) /\ PointerNamed.ptr = PointerFree.ptr
           /\ Field.rule = "oneof" => Key \in PointerNamed.has
           /\ Field.type = "message" /\ Key \in UnionReleased.ptr =>
                 \A p \in PointerNamed.ptr : ~(Len(p) >= Len(Key) /\ MemberOf(p, Len(Key)) = Key)
           /\ ~(Field.type = "message" /\ Key \in UnionReleased.ptr) =>
                 PointerFree = UnionReleased
<1>1. /\ Sound(UnionReleased) /\ (Field.rule = "oneof" => Alone(UnionReleased))
      /\ Placed(root, Key) /\ Key \in Inner /\ Len(Top.obj) < Len(Key)
  <2>1. 0 \in Nat /\ Len(Top.obj) \in Nat
    BY AtTop
  <2> QED BY <2>1, SoundUnion, FieldPlaced, FieldHere
<1>2. /\ Sound(ReleaseField(UnionReleased, Key))
      /\ \A p \in ReleaseField(UnionReleased, Key).ptr : ~(Len(p) >= Len(Key) /\ MemberOf(p, Len(Key)) = Key)
      /\ ReleaseField(UnionReleased, Key).ptr \subseteq UnionReleased.ptr
  BY <1>1, SoundRelease, FieldReleased DEF Sound
<1>3. Sound(PointerFree) /\ (Field.rule = "oneof" => Alone(PointerFree))
  BY <1>1, <1>2 DEF PointerFree, Alone
<1>4. Field.rule = "oneof" =>
         /\ Sound(Which(PointerFree, Key)) /\ Key \in Which(PointerFree, Key).has
         /\ Which(PointerFree, Key).ptr = PointerFree.ptr
  BY <1>1, <1>3, SoundWhich
<1>5. /\ Sound(PointerNamed) /\ PointerNamed.ptr = PointerFree.ptr
      /\ Field.rule = "oneof" => Key \in PointerNamed.has
  BY <1>3, <1>4 DEF PointerNamed
<1> QED BY <1>2, <1>3, <1>5 DEF PointerFree

\* A block for a field is found by way of the field's own pointer.
LEMMA SoundBlock ==
    ASSUME Calls, Owned, Busy, ret = "none", AtField(Top), Field.alloc = "pointer",
           NEW m, Sound(m), Field.rule = "oneof" => Key \in m.has, NEW n \in Nat,
           NEW j \in Nat, j > 0
    PROVE  LET c == Cleared(Allocated(m, Key, n), Item(Top.obj, Top.msg, Top.field, j))
           IN  /\ Sound(c) /\ Key \in c.ptr /\ (Field.rule = "oneof" => Key \in c.has)
               /\ \A p \in c.ptr : ~IsPrefix(Item(Top.obj, Top.msg, Top.field, j), p)
               /\ Get(c.count, Key) = Get(m.count, Key)
               /\ Sound(Allocated(m, Key, n))
<1> DEFINE a == Allocated(m, Key, n)
           item == Item(Top.obj, Top.msg, Top.field, j)
           c == Cleared(a, item)
<1>1. /\ Placed(root, Key) /\ Key \in Inner /\ Last(Key)[3] = 0 /\ FieldAt(Last(Key)) = Field
      /\ Top.field \in DOMAIN Msg[Top.msg] /\ Top.msg \in Messages /\ Top.obj \in Path
      /\ Key = Item(Top.obj, Top.msg, Top.field, 0) /\ Field = Msg[Top.msg][Top.field]
  BY FieldPlaced, AtTop, FieldHere DEF Field
<1>2. m \in Memory /\ Standing(m, Top.obj)
  BY DEF Sound
<1>3. Standing(m, Key)
  <2> DEFINE z == 0
  <2>1. z \in Nat /\ ~(z > 0) /\ Key = Item(Top.obj, Top.msg, Top.field, z)
    BY <1>1
  <2> HIDE DEF z
  <2>2. Item(Top.obj, Top.msg, Top.field, 0) = Key
    BY <1>1
  <2> QED BY <1>1, <1>2, <2>1, <2>2, StandingItem
<1>4. Holder(Key)
  BY <1>1 DEF Holder
<1>5. Sound(a) /\ a.ptr = m.ptr \cup {Key} /\ a.has = m.has /\ a.count = m.count /\ a \in Memory
  BY <1>1, <1>2, <1>3, <1>4, SoundAllocated, AllocatedMem
<1>6. item \in Inner /\ Last(item)[3] > 0 /\ Len(Top.obj) < Len(item) /\ item \in Path /\ ~IsPrefix(item, Key)
  BY KeyNotBelow
<1> HIDE DEF a, item
<1>7. Sound(c) /\ \A p \in c.ptr : ~IsPrefix(item, p)
  BY <1>5, <1>6, SoundCleared
<1>8. Key \in c.ptr /\ (Field.rule = "oneof" => Key \in c.has) /\ Get(c.count, Key) = Get(m.count, Key)
  BY <1>5, <1>6, ClearedMem, ClearedGet
<1> QED BY <1>5, <1>7, <1>8 DEF a, item

\* A pointer field has its block, or takes it with the text.
LEMMA BeginPointerOwned ==
    ASSUME Calls, Owned, BeginPointer
    PROVE  Owned'
<1>1. /\ Running("message", "field") /\ Field.alloc = "pointer" /\ ~Array(Field) /\ AtField(Top)
      /\ Busy /\ ret = "none" /\ Field.rule # "repeated" /\ Field.alloc # "callback"
      /\ Top.kind = "message"
  BY DEF BeginPointer, Running, AtField, Array
<1> DEFINE item == Append(Top.obj, <<Top.msg, Top.field, 1>>)
           one == 1
           c == Cleared(Allocated(PointerNamed, Key, one), Item(Top.obj, Top.msg, Top.field, one))
<1>2. \/ Field.type = "text" /\ ToValue(PointerNamed)
      \/ ToValue(c)
      \/ Fail(PointerNamed)
  BY DEF BeginPointer, PointerNamed, PointerFree, Item
<1>3. one \in Nat /\ one > 0
  OBVIOUS
<1>4. Sound(PointerNamed) /\ (Field.rule = "oneof" => Key \in PointerNamed.has)
  BY <1>1, SoundNamed
<1> HIDE DEF one
<1>5. Sound(c) /\ Key \in c.ptr /\ (Field.rule = "oneof" => Key \in c.has)
  BY <1>1, <1>3, <1>4, SoundBlock
<1> HIDE DEF c
<1>6. CASE Field.type = "text" /\ ToValue(PointerNamed)
  BY <1>1, <1>4, <1>6, ReadyHere, ToValueOwned
<1>7. CASE ToValue(c)
  BY <1>1, <1>5, <1>7, ReadyHere, ToValueOwned
<1>8. CASE Fail(PointerNamed)
  BY <1>1, <1>4, <1>8, FailOwned
<1> QED BY <1>2, <1>6, <1>7, <1>8

\* An item of a static array is counted, and has its place there.
LEMMA BeginStaticItemOwned ==
    ASSUME Calls, Owned, BeginStaticItem
    PROVE  Owned'
<1>1. /\ Running("message", "field") /\ Field.alloc = "static" /\ AtField(Top) /\ Array(Field)
      /\ Busy /\ ret = "none" /\ Field.rule # "oneof" /\ Field.alloc # "callback"
      /\ Top.kind = "message"
  BY DEF BeginStaticItem, OneByOne, Running, AtField, Array
<1> DEFINE n == Get(mem.count, Key) + 1
           more == Counted(mem, Key, n)
<1>2. Fail(more) \/ (ToValue(more) /\ ~(Get(mem.count, Key) >= Field.cap))
  BY DEF BeginStaticItem
<1>3. /\ Sound(mem) /\ mem \in Memory /\ Key \in Inner /\ FieldAt(Last(Key)) = Field
      /\ Get(mem.count, Key) \in Nat /\ Field.cap \in Nat
  BY <1>1, NowSound, FieldHere DEF Sound
<1>4. n \in Nat /\ n > 0 /\ Get(mem.count, Key) <= n /\ Get(mem.count, Key) < n
      /\ (~(Get(mem.count, Key) >= Field.cap) => n <= Field.cap)
  BY <1>3
<1> HIDE DEF n
<1>5. Sound(more) /\ Get(more.count, Key) = n /\ more.ptr = mem.ptr
  <2>1. more.count = Put(mem.count, Key, n) /\ more.ptr = mem.ptr
    BY <1>3, <1>4, CountedMem
  <2>2. Get(more.count, Key) = n
    BY <2>1 DEF Get, Put
  <2> QED BY <1>3, <1>4, <2>1, <2>2, SoundCounted
<1>6. Field.rule = "repeated" => \A p \in more.ptr : ~IsPrefix(Item(Top.obj, Top.msg, Top.field, n), p)
  BY <1>1, <1>3, <1>4, <1>5, NothingBeyond
<1> HIDE DEF more
<1>7. CASE Fail(more)
  BY <1>1, <1>5, <1>7, FailOwned
<1>8. CASE ToValue(more) /\ n <= Field.cap
  BY <1>1, <1>4, <1>5, <1>6, <1>8, ReadyHere, ToValueOwned
<1> QED BY <1>2, <1>4, <1>7, <1>8

\* An item of an array of pointers is counted before it has its block; where it
\* gets none the call fails, and the release finds what there was.
LEMMA BeginPointerItemOwned ==
    ASSUME Calls, Owned, BeginPointerItem
    PROVE  Owned'
<1>1. /\ Running("message", "field") /\ Field.alloc = "pointer" /\ AtField(Top) /\ Array(Field)
      /\ Busy /\ ret = "none" /\ Field.rule # "oneof" /\ Field.alloc # "callback"
      /\ Top.kind = "message"
  BY DEF BeginPointerItem, OneByOne, Running, AtField, Array
<1> DEFINE n == Get(mem.count, Key) + 1
           more == Counted(mem, Key, n)
           c == Cleared(Allocated(more, Key, n), Item(Top.obj, Top.msg, Top.field, n))
<1>2. Fail(mem) \/ Fail(more) \/ ToValue(c)
  BY DEF BeginPointerItem, Item
<1>3. /\ Sound(mem) /\ mem \in Memory /\ Key \in Inner /\ FieldAt(Last(Key)) = Field
      /\ Get(mem.count, Key) \in Nat
  BY <1>1, NowSound, FieldHere DEF Sound
<1>4. n \in Nat /\ n > 0 /\ Get(mem.count, Key) <= n
  BY <1>3
<1> HIDE DEF n
<1>5. Sound(more) /\ Get(more.count, Key) = n
  <2>1. more.count = Put(mem.count, Key, n)
    BY <1>3, <1>4, CountedMem
  <2>2. Get(more.count, Key) = n
    BY <2>1 DEF Get, Put
  <2> QED BY <1>3, <1>4, <2>2, SoundCounted
<1> HIDE DEF more
<1>6. /\ Sound(c) /\ Key \in c.ptr /\ Get(c.count, Key) = n
      /\ \A p \in c.ptr : ~IsPrefix(Item(Top.obj, Top.msg, Top.field, n), p)
  BY <1>1, <1>4, <1>5, SoundBlock
<1> HIDE DEF c
<1>7. CASE Fail(mem) \/ Fail(more)
  BY <1>1, <1>3, <1>5, <1>7, FailOwned
<1>8. CASE ToValue(c)
  BY <1>1, <1>4, <1>6, <1>8, ReadyHere, ToValueOwned
<1> QED BY <1>2, <1>7, <1>8

\* The text has its pointer where a release looks.
LEMMA SoundText ==
    ASSUME Calls, Owned, Running("message", "value"), Field.type = "text"
    PROVE  Sound(WithText)
<1>1. /\ Busy /\ ret = "none" /\ Top.kind = "message" /\ Top.phase = "value" /\ AtField(Top)
  BY DEF Running, AtField
<1>2. Sound(mem) /\ ReadyAt(Top.obj, Top.msg, Top.field, mem)
  BY <1>1, NowSound DEF Owned, Ready
<1>3. /\ Top.field \in DOMAIN Msg[Top.msg] /\ Top.msg \in Messages /\ Top.obj \in Path
      /\ Key = Item(Top.obj, Top.msg, Top.field, 0) /\ Field = Msg[Top.msg][Top.field]
      /\ FieldAt(Last(Key)) = Field /\ Last(Key)[3] = 0 /\ Key \in Inner
      /\ Get(mem.count, Key) \in Nat
  BY <1>1, AtTop, FieldHere DEF Field
<1>4. CASE Field.alloc # "pointer"
  BY <1>2, <1>4 DEF WithText
<1>5. CASE Field.alloc = "pointer"
  <2>1. /\ TextSlot \in Inner /\ Placed(root, TextSlot) /\ Holder(TextSlot)
        /\ Standing(mem, TextSlot)
    <3>1. CASE Array(Field)
      <4> DEFINE j == Get(mem.count, Key)
      <4>1. TextSlot = Item(Top.obj, Top.msg, Top.field, j) /\ j \in Nat
        BY <1>1, <1>3, <3>1, FieldHere DEF TextSlot
      <4>2. Standing(mem, TextSlot)
        BY <1>2, <1>3, <3>1, <4>1 DEF ReadyAt
      <4> HIDE DEF j
      <4>3. /\ TextSlot \in Inner /\ Last(TextSlot) = <<Top.msg, Top.field, j>>
            /\ Placed(root, TextSlot)
        BY <1>1, <1>3, <4>1, Extended, FieldPlaced
      <4>4. Field.rule = "repeated"
        BY <1>3, <3>1, MessageAssumption DEF Array
      <4>5. FieldAt(Last(TextSlot)) = Field
        BY <1>3, <4>3 DEF FieldAt
      <4>6. Holder(TextSlot)
        BY <1>5, <4>4, <4>5 DEF Holder
      <4> QED BY <4>2, <4>3, <4>6
    <3>2. CASE ~Array(Field)
      <4>1. TextSlot = Key
        BY <3>2 DEF TextSlot
      <4>2. 0 \in Nat
        OBVIOUS
      <4>3. Placed(root, Key)
        BY <1>1, <4>2, FieldPlaced
      <4>4. Standing(mem, Key)
        BY <1>2, <1>3 DEF ReadyAt
      <4>5. Holder(Key)
        BY <1>3, <1>5 DEF Holder
      <4> QED BY <1>3, <4>1, <4>3, <4>4, <4>5
    <3> QED BY <3>1, <3>2
  <2>2. 1 \in Nat
    OBVIOUS
  <2> QED BY <1>2, <1>5, <2>1, <2>2, SoundAllocated DEF WithText
<1> QED BY <1>4, <1>5

\* A value that was read changes nothing a release looks at.
LEMMA ReadDoneOwned ==
    ASSUME Calls, Owned, Running("message", "value"), NEW n \in Nat, n <= Top.left,
           NEW m, Kept(m), Sound(m), ReadDone(Took(Top, n), m)
    PROVE  Owned'
<1>1. Busy /\ ret = "none" /\ Top.kind = "message" /\ AtField(Top)
  BY DEF Running, AtField
<1> DEFINE t == Took(Top, n)
           d == ReadAt(m, t.obj, t.field)
<1>2. t.obj = Top.obj /\ t.field = Top.field
  BY AtTop, TookFields DEF Like
<1>3. Top.obj \in DOMAIN m.done /\ m \in Memory /\ Top.field \in Nat
  <2>1. Top.obj \in DOMAIN mem.done
    BY <1>1 DEF Calls, Typed, EnteredAll, Top
  <2> QED BY <2>1, AtTop DEF Kept, Frame
<1>4. Stay(NextTag(t), d) \/ Stay(NextTag(t), m)
  BY DEF ReadDone, ReadAt
<1>5. d = ReadAt(m, Top.obj, Top.field)
  BY <1>2
<1> HIDE DEF t, d
<1>6. d \in Memory /\ d.ptr = m.ptr /\ d.has = m.has /\ d.count = m.count
  BY <1>3, <1>5, ReadMem
<1>7. Sound(d)
  BY <1>6, SoundSame
<1> QED BY <1>1, <1>4, <1>7, TagOwned DEF t

\* A scalar owns nothing.
LEMMA ReadScalarOwned ==
    ASSUME Calls, Owned, ReadScalar
    PROVE  Owned'
<1>1. Running("message", "value") /\ AtField(Top) /\ Busy /\ ret = "none"
  BY DEF ReadScalar, Running, AtField
<1>2. PICK n \in ScalarLens(Field) : n <= Top.left /\ ReadDone(Took(Top, n), mem)
  BY DEF ReadScalar
<1>3. n \in Nat
  BY <1>1, LensNat
<1> QED BY <1>1, <1>2, <1>3, AtTop, NowSound, ReadDoneOwned

\* A text is read into its block.
LEMMA ReadTextOwned ==
    ASSUME Calls, Owned, ReadText
    PROVE  Owned'
<1>1. Running("message", "value") /\ AtField(Top) /\ Field.type = "text"
  BY DEF ReadText, Running, AtField
<1>2. PICK n \in Lengths : 1 + n <= Top.left /\ ReadDone(Took(Top, 1 + n), WithText)
  BY DEF ReadText
<1>3. 1 + n \in Nat
  BY <1>1, LensNat
<1> QED BY <1>1, <1>2, <1>3, KeptText, SoundText, ReadDoneOwned

\* A call that cannot read on fails with the blocks it has.
LEMMA FailsOwned ==
    ASSUME Calls, Owned, TextCut \/ Unreadable \/ PackedUnreadable
    PROVE  Owned'
<1>1. CASE TextCut
  <2>1. /\ Busy /\ ret = "none" /\ Top.kind = "message" /\ Fail(WithText)
        /\ Running("message", "value") /\ Field.type = "text"
    BY <1>1 DEF TextCut, Running
  <2> QED BY <2>1, SoundText, FailOwned
<1>2. CASE Unreadable \/ PackedUnreadable
  <2>1. /\ Busy /\ ret = "none" /\ Fail(mem)
        /\ Top.kind = "outer" => Top.phase = "value"
    BY <1>2 DEF Unreadable, Reading, PackedUnreadable, Running
  <2>2. Top.kind = "outer" => mem.ptr = {}
    BY <2>1 DEF Owned
  <2> QED BY <2>1, <2>2, NowSound, FailOwned
<1> QED BY <1>1, <1>2

\* A submessage is open where a release finds what it allocates.
LEMMA OpenSubmessageOwned ==
    ASSUME Calls, Owned, OpenSubmessage
    PROVE  Owned'
<1>1. /\ Running("message", "value") /\ AtField(Top) /\ Busy /\ ret = "none"
      /\ Top.kind = "message" /\ Top.phase = "value" /\ Field.type = "message"
      /\ Field.alloc # "callback"
  BY AtTop DEF OpenSubmessage, Running, AtField, FrameOK, Field
<1> DEFINE item == ItemOf(Top)
           owns == Field.rule = "repeated"
           b == IF owns THEN Cleared(mem, item) ELSE mem
<1>2. PICK n \in Lengths :
         /\ 1 + n <= Top.left
         /\ Push(GaveUp(n), Substream("message", Field.sub, item, owns, n))
         /\ mem' = Entered(b, item)
  BY DEF OpenSubmessage
<1> DEFINE child == Substream("message", Field.sub, item, owns, n)
<1>3. child.kind = "message" /\ child.phase = "tag" /\ child.msg = Field.sub /\ child.obj = item
  BY DEF Substream, Stream
<1>4. PICK j \in Nat \ {0} : /\ item = Item(Top.obj, Top.msg, Top.field, j)
                             /\ j = IF Array(Field) THEN Get(mem.count, Key) ELSE 1
  <2>1. CASE Array(Field)
    <3>1. Get(mem.count, Key) \in Nat \ {0}
      BY <1>1, <2>1, FieldHere DEF Calls, Numbered, NumberedIn, Field, Key
    <3> QED BY <1>1, <2>1, <3>1, FieldHere
  <2>2. CASE ~Array(Field)
    BY <1>1, <2>2, FieldHere
  <2> QED BY <2>1, <2>2
<1>5. /\ Key = Item(Top.obj, Top.msg, Top.field, 0) /\ Field = Msg[Top.msg][Top.field]
  BY <1>1, FieldHere DEF Field
<1>6. Sound(mem) /\ Standing(mem, item)
  <2>1. ReadyAt(Top.obj, Top.msg, Top.field, mem)
    BY <1>1 DEF Owned, Ready
  <2> QED BY <1>1, <1>4, <1>5, <2>1, NowSound DEF ReadyAt
<1>7. j \in Nat /\ j > 0 /\ n \in Nat
  BY <1>1, LensNat
<1>8. /\ item \in Inner /\ Last(item)[3] > 0 /\ item \in Path /\ Reaches(root, item, Field.sub)
      /\ Len(item) <= Len(item)
  <2>1. item \in Inner /\ Last(item)[3] > 0 /\ item \in Path
    BY <1>1, <1>4, <1>7, KeyNotBelow
  <2>2. Reaches(root, item, Field.sub)
    BY <1>1, <1>4, <1>7, FieldPlaced
  <2> QED BY <2>1, <2>2, PathSeq
<1> HIDE DEF item, child, owns
<1>9. b \in Memory /\ Rooted(root, b) /\ Standing(b, item)
  <2>1. mem \in Memory /\ Rooted(root, mem)
    BY <1>6 DEF Sound
  <2>2. CASE owns
    BY <1>6, <1>8, <2>1, <2>2, ClearedMem, RootedCleared, StandingCleared
  <2>3. CASE ~owns
    BY <1>6, <2>1, <2>3
  <2> QED BY <2>2, <2>3
<1> HIDE DEF b
<1>10. /\ Entered(b, item) \in Memory /\ Entered(b, item).ptr = b.ptr
       /\ Entered(b, item).has = b.has /\ Entered(b, item).count = b.count
  BY <1>8, <1>9, EnteredMem
<1>11. Rooted(root, mem') /\ Standing(mem', item)
  <2> DEFINE e == Entered(b, item)
  <2>1. Rooted(root, e) /\ Standing(e, item)
    <3> HIDE DEF e
    <3>1. e \in Memory /\ e.ptr = b.ptr /\ e.has = b.has /\ e.count = b.count
      BY <1>10 DEF e
    <3> QED BY <1>8, <1>9, <3>1, RootedSame
  <2> QED BY <1>2, <2>1 DEF item, b, owns
<1>12. Like(GaveUp(n), Top)
  BY <1>2, <1>7, GaveUpFields
<1>13. Push(GaveUp(n), child)
  BY <1>2 DEF child, item, owns
<1> QED BY <1>1, <1>3, <1>8, <1>11, <1>12, <1>13, PushOwned

\* The bytes of a field lie in the object that is open.
LEMMA OpenBytesOwned ==
    ASSUME Calls, Owned, OpenPacked \/ OpenCallback
    PROVE  Owned'
<1>1. Busy /\ ret = "none" /\ AtField(Top) /\ mem' = mem
  BY DEF OpenPacked, OpenCallback, AtCallback, Running, AtField
<1>2. PICK n \in Lengths : \E child :
         /\ 1 + n <= Top.left /\ Push(GaveUp(n), child)
         /\ child.kind \in {"packed", "callback"} /\ child.msg = Top.msg /\ child.obj = Top.obj
  <2>1. CASE OpenPacked
    <3> DEFINE s(n) == Substream("packed", Top.msg, Top.obj, FALSE, n)
               c(n) == [s(n) EXCEPT !.field = Top.field, !.room = Get(mem.count, Key)]
    <3>1. PICK n \in Lengths : 1 + n <= Top.left /\ Push(GaveUp(n), c(n))
      BY <2>1 DEF OpenPacked
    <3> DEFINE d == c(n)
    <3>2. d.kind = "packed" /\ d.msg = Top.msg /\ d.obj = Top.obj
      BY DEF Substream, Stream
    <3>3. Push(GaveUp(n), d)
      BY <3>1
    <3> HIDE DEF d
    <3> QED BY <3>1, <3>2, <3>3
  <2>2. CASE OpenCallback
    <3> DEFINE c(n) == Substream("callback", Top.msg, Top.obj, FALSE, n)
    <3>1. PICK n \in Lengths : 1 + n <= Top.left /\ Push(GaveUp(n), c(n))
      BY <2>2 DEF OpenCallback
    <3> DEFINE d == c(n)
    <3>2. d.kind = "callback" /\ d.msg = Top.msg /\ d.obj = Top.obj
      BY DEF Substream, Stream
    <3>3. Push(GaveUp(n), d)
      BY <3>1
    <3> HIDE DEF d
    <3> QED BY <3>1, <3>2, <3>3
  <2> QED BY <2>1, <2>2
<1>a. PICK child : /\ 1 + n <= Top.left /\ Push(GaveUp(n), child)
                   /\ child.kind \in {"packed", "callback"} /\ child.msg = Top.msg
                   /\ child.obj = Top.obj
  BY <1>2
<1>3. Like(GaveUp(n), Top)
  <2>1. n \in Nat
    BY <1>1, LensNat
  <2> QED BY <1>a, <2>1, GaveUpFields
<1>4. Rooted(root, mem') /\ Standing(mem', child.obj) /\ Reaches(root, child.obj, child.msg)
  BY <1>1, <1>a, NowSound DEF Sound
<1>5. child.kind # "outer" /\ child.kind # "message"
  BY <1>a
<1> QED BY <1>1, <1>a, <1>3, <1>4, <1>5, PushOwned

\* A struct that takes its defaults has no block.
LEMMA NewRooted ==
    ASSUME NEW t
    PROVE  /\ Rooted(t, Entered(Nothing, <<>>)) /\ Entered(Nothing, <<>>).ptr = {}
           /\ Entered(Nothing, <<>>).has = {}
           /\ \A m : Standing(m, <<>>) /\ Reaches(t, <<>>, t)
<1>1. Entered(Nothing, <<>>).ptr = {} /\ Entered(Nothing, <<>>).has = {}
  BY NothingMem, NewMem, EnteredMem
<1>2. Len(<<>>) = 0 /\ 1 .. 0 = {}
  OBVIOUS
<1> QED BY <1>1, <1>2 DEF Rooted, Standing, Reaches

\* pb_decode_delimited opens a message that is new.
LEMMA OpenDelimitedOwned ==
    ASSUME Calls, Owned, OpenDelimited
    PROVE  Owned'
<1>1. Busy /\ ret = "none" /\ Top.kind = "outer" /\ mem' = Entered(Nothing, <<>>)
  BY DEF OpenDelimited, Running
<1>2. PICK n \in Lengths : 1 + n <= Top.left /\ Push(GaveUp(n), Substream("message", Top.msg, <<>>, TRUE, n))
  BY DEF OpenDelimited
<1> DEFINE child == Substream("message", Top.msg, <<>>, TRUE, n)
<1>3. child.kind = "message" /\ child.phase = "tag" /\ child.msg = Top.msg /\ child.obj = <<>>
  BY DEF Substream, Stream
<1> HIDE DEF child
<1>4. Like(GaveUp(n), Top)
  <2>1. n \in Nat
    BY DecodeAssumption
  <2> QED BY <1>2, <2>1, GaveUpFields
<1>5. Reaches(root, child.obj, child.msg)
  <2>1. Top.obj = <<>>
    BY <1>1, AtTop DEF FrameOK
  <2> QED BY <1>1, <1>3, <2>1, NowSound
<1>6. Rooted(root, mem') /\ Standing(mem', child.obj)
  BY <1>1, <1>3, NewRooted
<1>7. Push(GaveUp(n), child)
  BY <1>2 DEF child
<1> QED BY <1>1, <1>3, <1>4, <1>5, <1>6, <1>7, PushOwned

\* An item of a packed array has no pointer of its own.
LEMMA PackedItemOwned ==
    ASSUME Calls, Owned, PackedItem
    PROVE  Owned'
<1>1. Busy /\ ret = "none" /\ Top.kind = "packed" /\ AtField(Top) /\ Sound(mem)
  BY NowSound DEF PackedItem, Running, AtField
<1> DEFINE n == Get(mem.count, Key) + 1
           m == Counted(mem, Key, n)
<1>2. PICK k \in ScalarLens(Field) : k <= Top.left /\ (Fail(mem) \/ Stay(Took(Top, k), m))
  BY DEF PackedItem
<1>3. k \in Nat /\ Key \in Inner /\ n \in Nat /\ Get(mem.count, Key) <= n
  <2>1. Get(mem.count, Key) \in Nat
    BY <1>1, FieldHere
  <2> QED BY <1>1, <2>1, LensNat, FieldHere
<1> HIDE DEF n
<1>4. Sound(m)
  BY <1>1, <1>3, SoundCounted
<1> HIDE DEF m
<1>5. Like(Took(Top, k), Top)
  BY <1>2, <1>3, AtTop, TookFields
<1>6. CASE Fail(mem)
  BY <1>1, <1>6, FailOwned
<1>7. CASE Stay(Took(Top, k), m)
  BY <1>1, <1>4, <1>5, <1>7, StayOwned DEF Ready, Like
<1> QED BY <1>2, <1>6, <1>7

\* A packed array of pointers has its block in its member.
LEMMA PackedGrowOwned ==
    ASSUME Calls, Owned, PackedGrow
    PROVE  Owned'
<1>1. /\ Busy /\ ret = "none" /\ Top.kind = "packed" /\ AtField(Top) /\ Field.alloc = "pointer"
      /\ Sound(mem)
  BY NowSound DEF PackedGrow, Running, AtField
<1> DEFINE n == Top.room + ((Top.left - 1) \div Field.width) + 1
           fr == [Top EXCEPT !.room = n]
           m == Allocated(mem, Key, n)
<1>2. Top.left > 0 /\ (Fail(mem) \/ Stay(fr, m))
  BY DEF PackedGrow
<1>3. n \in Nat
  <2>1. Top.room \in Nat /\ Top.left - 1 \in Nat /\ Field.width \in Nat \ {0}
    BY <1>1, <1>2, AtTop, FieldHere DEF Frame
  <2>2. ((Top.left - 1) \div Field.width) \in Nat
    BY <2>1
  <2> QED BY <2>1, <2>2
<1>4. Like(fr, Top)
  BY AtTop DEF Like, Frame
<1> HIDE DEF n, fr
<1>5. Field.rule # "oneof"
  BY <1>1, AtTop DEF FrameOK, Field, Array
<1>6. Sound(m)
  <2>1. 1 \in Nat /\ 1 > 0
    OBVIOUS
  <2> QED BY <1>1, <1>3, <1>5, <2>1, SoundBlock
<1> HIDE DEF m
<1>7. CASE Fail(mem)
  BY <1>1, <1>7, FailOwned
<1>8. CASE Stay(fr, m)
  BY <1>1, <1>4, <1>6, <1>8, StayOwned DEF Ready, Like
<1> QED BY <1>2, <1>7, <1>8

\* A packed array ends.
LEMMA PackedEndOwned ==
    ASSUME Calls, Owned, PackedEnd
    PROVE  Owned'
<1>1. Busy /\ ret = "none" /\ Top.kind = "packed" /\ (Fail(mem) \/ Succeed)
  BY DEF PackedEnd, Running
<1>2. CASE Fail(mem)
  BY <1>1, <1>2, NowSound, FailOwned
<1>3. CASE Succeed
  <2>1. frames' = [frames EXCEPT ![depth] = Top]
    BY <1>3 DEF Succeed, Top, Calls, Typed
  <2>2. Like(Top, Top)
    BY DEF Like
  <2> QED BY <1>1, <1>3, <2>1, <2>2, OkOwned DEF Succeed
<1> QED BY <1>1, <1>2, <1>3

\* A callback keeps what it reads to itself.
LEMMA CallbackOwned ==
    ASSUME Calls, Owned, SkipCallback \/ CallbackScalar \/ CallbackReads
    PROVE  Owned'
<1>1. CASE SkipCallback
  <2> DEFINE fr == [Top EXCEPT !.phase = "skip"]
  <2>1. Busy /\ ret = "none" /\ Top.kind = "message" /\ Stay(fr, mem)
    BY <1>1 DEF SkipCallback, AtCallback, Running
  <2>2. Like(fr, Top) /\ fr.phase = "skip"
    BY AtTop DEF Like, Frame
  <2> HIDE DEF fr
  <2> QED BY <2>1, <2>2, NowSound, StayOwned DEF Ready
<1>2. CASE CallbackScalar
  <2>1. Busy /\ ret = "none" /\ Top.kind = "message"
    BY <1>2 DEF CallbackScalar, AtCallback, Running
  <2>2. PICK n \in SkipLens(Top.wire) :
           n <= Top.left /\ (Stay(NextTag(Took(Top, n)), mem) \/ Fail(mem))
    BY <1>2 DEF CallbackScalar
  <2>3. n \in Nat
    BY SkipLensNat
  <2> QED BY <2>1, <2>2, <2>3, NowSound, TagOwned, FailOwned
<1>3. CASE CallbackReads
  <2>1. Busy /\ ret = "none" /\ Top.kind = "callback" /\ Sound(mem)
    BY <1>3, NowSound DEF CallbackReads, Running
  <2>2. \/ Fail(mem)
        \/ \E n \in 1 .. Top.left : n < Top.left /\ Stay(Took(Top, n), mem)
        \/ /\ frames' = [frames EXCEPT ![depth] = Took(Top, Top.left)] /\ ret' = "ok"
           /\ UNCHANGED <<depth, call, root, mem>>
    BY <1>3 DEF CallbackReads
  <2>3. ASSUME NEW n \in 1 .. Top.left
        PROVE  Like(Took(Top, n), Top)
    <3>1. n \in Nat /\ n <= Top.left
      BY AtTop
    <3> QED BY <3>1, AtTop, TookFields
  <2>4. Like(Took(Top, Top.left), Top)
    <3>1. Top.left \in Nat /\ Top.left <= Top.left
      BY AtTop
    <3> QED BY <3>1, AtTop, TookFields
  <2>5. CASE Fail(mem)
    BY <2>1, <2>5, FailOwned
  <2>6. CASE \E n \in 1 .. Top.left : n < Top.left /\ Stay(Took(Top, n), mem)
    <3>1. PICK n \in 1 .. Top.left : Stay(Took(Top, n), mem)
      BY <2>6
    <3> QED BY <2>1, <2>3, <3>1, StayOwned DEF Ready, Like
  <2>7. CASE /\ frames' = [frames EXCEPT ![depth] = Took(Top, Top.left)] /\ ret' = "ok"
             /\ UNCHANGED <<depth, call, root, mem>>
    BY <2>1, <2>4, <2>7, OkOwned
  <2> QED BY <2>2, <2>5, <2>6, <2>7
<1> QED BY <1>1, <1>2, <1>3

\* Nothing lies in the caller's struct when no place is below the empty one.
LEMMA NothingBelow ==
    ASSUME NEW m \in Memory, \A p \in m.ptr : ~IsStrictPrefix(<<>>, p)
    PROVE  m.ptr = {}
<1> SUFFICES ASSUME NEW p \in m.ptr
             PROVE  FALSE
  OBVIOUS
<1> DEFINE o == <<>>
<1>1. o \in Path /\ Len(o) = 0 /\ p \in Path /\ Len(p) > 0
  BY NewMem DEF Memory, Inner
<1>2. ~IsStrictPrefix(o, p)
  OBVIOUS
<1> HIDE DEF o
<1> QED BY <1>1, <1>2, PrefixSteps

\* The one that called goes on in its own message, or releases it as well.
LEMMA ReturnOwned ==
    ASSUME Calls, Owned, Return
    PROVE  Owned'
<1>1. Busy /\ ret # "none" /\ depth > 1 /\ depth' = depth - 1 /\ call' = call /\ root' = root
  BY DEF Return
<1>2. /\ Parent = frames[depth - 1] /\ FrameOK(Parent) /\ Parent \in Frame /\ Parent.obj \in Path
      /\ Parent.kind \in {"message", "outer"} /\ Link(Parent, Top) /\ Parent.phase = "inside"
      /\ Closed \in Frame /\ Like(Closed, Parent) /\ Closed.phase = "inside"
  BY <1>1, ClosedFields
<1>3. /\ depth - 1 \in 1 .. MaxDepth /\ depth - 1 \in 1 .. depth /\ depth \in 1 .. depth
      /\ depth - 1 < depth /\ depth \in Nat
  BY <1>1, DecodeAssumption DEF Calls, Typed
<1>4. Busy' /\ call' # "idle"
  BY <1>1 DEF Busy
<1>5. mem \in Memory /\ Rooted(root, mem) /\ Top.obj \in Path
  BY AtTop DEF Owned
<1>6. Under(Parent.obj, Top.obj)
  BY <1>2, <1>3 DEF Calls, Stacked, Top
<1>7. ret # "fail" => Standing(mem, Parent.obj)
  BY <1>1, <1>2, <1>5, <1>6, StandingUnder DEF Owned
<1>8. ASSUME NEW fr, frames' = [frames EXCEPT ![depth - 1] = fr], Like(fr, Parent)
      PROVE  /\ \A d \in 1 .. depth' : Reaches(root, frames'[d].obj, frames'[d].msg)
             /\ Top' = fr
  <2>1. Top' = fr
    BY <1>1, <1>3, <1>8 DEF Top, Calls, Typed
  <2>2. ASSUME NEW d \in 1 .. depth - 1
        PROVE  Reaches(root, frames'[d].obj, frames'[d].msg)
    <3>1. d \in 1 .. depth /\ d \in 1 .. MaxDepth
      BY <1>3, DecodeAssumption DEF Calls, Typed
    <3>2. Reaches(root, frames[d].obj, frames[d].msg)
      BY <1>1, <3>1 DEF Owned
    <3>3. CASE d = depth - 1
      <4>1. frames'[d] = fr /\ frames[d] = Parent
        BY <1>2, <1>3, <1>8, <3>3 DEF Calls, Typed
      <4> QED BY <1>8, <3>2, <4>1 DEF Like
    <3>4. CASE d # depth - 1
      <4>1. frames'[d] = frames[d]
        BY <1>8, <3>1, <3>4 DEF Calls, Typed
      <4> QED BY <3>2, <4>1
    <3> QED BY <3>3, <3>4
  <2> QED BY <1>1, <2>1, <2>2
<1>9. CASE Parent.kind = "message" /\ ret = "ok"
  <2> DEFINE fr == NextTag(Closed)
  <2>1. /\ ret' = "none" /\ frames' = [frames EXCEPT ![depth - 1] = fr]
        /\ mem' = mem \/ mem' = ReadAt(mem, Parent.obj, Parent.field)
    BY <1>9 DEF Return, ReadAt
  <2>2. Like(fr, Closed) /\ fr.phase = "tag"
    BY <1>2, NextTagFields
  <2> HIDE DEF fr
  <2>3. Like(fr, Parent) /\ fr.kind = "message" /\ fr.obj = Parent.obj
    BY <1>2, <1>9, <2>2 DEF Like
  <2>4. Parent.obj \in DOMAIN mem.done /\ Parent.field \in Nat
    BY <1>1, <1>2, <1>3 DEF Calls, EnteredAll, Frame
  <2>5. Rooted(root, mem') /\ Standing(mem', Parent.obj)
    <3>1. CASE mem' = mem
      BY <1>5, <1>7, <1>9, <3>1
    <3>2. CASE mem' = ReadAt(mem, Parent.obj, Parent.field)
      <4> DEFINE r == ReadAt(mem, Parent.obj, Parent.field)
      <4>1. r \in Memory /\ r.ptr = mem.ptr /\ r.has = mem.has /\ r.count = mem.count
        BY <1>2, <1>5, <2>4, ReadMem
      <4> HIDE DEF r
      <4>2. Rooted(root, r) /\ Standing(r, Parent.obj)
        BY <1>2, <1>5, <1>7, <1>9, <4>1, RootedSame
      <4> QED BY <3>2, <4>2 DEF r
    <3> QED BY <2>1, <3>1, <3>2
  <2>6. Ready(fr, mem')
    BY <2>2 DEF Ready
  <2>7. Top' = fr /\ \A d \in 1 .. depth' : Reaches(root, frames'[d].obj, frames'[d].msg)
    BY <1>8, <2>1, <2>3
  <2> QED BY <1>1, <1>4, <2>1, <2>3, <2>5, <2>6, <2>7 DEF Owned
<1>10. CASE ~(Parent.kind = "message" /\ ret = "ok")
  <2>1. /\ ret' = ret /\ frames' = [frames EXCEPT ![depth - 1] = Closed]
        /\ mem' = IF ret = "fail" /\ Parent.owns THEN ReleaseObject(mem, Parent.obj) ELSE mem
    BY <1>10 DEF Return
  <2>2. Top' = Closed /\ \A d \in 1 .. depth' : Reaches(root, frames'[d].obj, frames'[d].msg)
    BY <1>2, <1>8, <2>1
  <2>3. Closed.obj = Parent.obj /\ Closed.owns = Parent.owns /\ Closed.kind = Parent.kind
    BY <1>2 DEF Like
  <2>4. CASE ret = "ok"
    <3>1. mem' = mem /\ ret' = "ok"
      BY <2>1, <2>4
    <3> QED BY <1>1, <1>2, <1>4, <1>5, <1>7, <2>2, <2>3, <2>4, <3>1 DEF Owned
  <2>5. CASE ret = "fail"
    <3>1. /\ Rooted(root, ReleaseObject(mem, Parent.obj))
          /\ \A p \in ReleaseObject(mem, Parent.obj).ptr : ~IsStrictPrefix(Parent.obj, p)
      BY <1>2, <1>5, RootedReleaseObject
    <3>2. Rooted(root, mem') /\ (Parent.owns => \A p \in mem'.ptr : ~IsStrictPrefix(Parent.obj, p))
      BY <1>5, <2>1, <2>5, <3>1
    <3>3. Parent.kind = "outer" => mem'.ptr = {}
      <4> SUFFICES ASSUME Parent.kind = "outer"
                   PROVE  mem'.ptr = {}
        OBVIOUS
      <4>1. Top.obj = <<>> /\ Top.owns /\ ~Parent.owns
        BY <1>2 DEF Link, FrameOK
      <4>2. \A p \in mem.ptr : ~IsStrictPrefix(<<>>, p)
        BY <1>1, <2>5, <4>1 DEF Owned
      <4>3. mem.ptr = {}
        BY <1>5, <4>2, NothingBelow
      <4> QED BY <2>1, <4>1, <4>3
    <3> QED BY <1>1, <1>4, <2>1, <2>2, <2>3, <2>5, <3>2, <3>3 DEF Owned
  <2> QED BY <1>1, <2>4, <2>5 DEF Calls, Typed
<1> QED BY <1>9, <1>10

\* The caller decodes into a struct that has no block he does not hold.
LEMMA CallerOwned ==
    ASSUME Calls, Owned, Caller
    PROVE  Owned'
<1>1. ASSUME NEW m \in Roots, NEW n \in StreamSizes[m],
             Decode(m, n) \/ DecodeDelimited(m, n) \/ DecodeNoinit(m, n)
      PROVE  Owned'
  <2> DEFINE s(kind, owns) == Stream(kind, m, <<>>, owns, 0, n)
             fresh(fr) == frames' = [d \in 1 .. MaxDepth |-> fr]
  <2>1. /\ call' \in {"decode", "merge"} /\ depth' = 1 /\ ret' = "none" /\ root' = m
        /\ \/ fresh(s("message", TRUE)) \/ fresh(s("message", FALSE))
           \/ fresh(s("outer", FALSE)) /\ mem' = mem /\ call = "idle"
    BY <1>1 DEF Decode, DecodeDelimited, DecodeNoinit, Start
  <2>2. PICK fr : /\ fresh(fr) /\ fr.obj = <<>> /\ fr.msg = m
                  /\ fr.kind = "message" => fr.phase = "tag"
                  /\ fr.kind = "outer" => mem' = mem /\ call = "idle"
    <3>1. ASSUME NEW kind \in {"message", "outer"}, NEW owns,
                 fresh(s(kind, owns)), kind = "outer" => mem' = mem /\ call = "idle"
          PROVE  \E fr : /\ fresh(fr) /\ fr.obj = <<>> /\ fr.msg = m
                         /\ fr.kind = "message" => fr.phase = "tag"
                         /\ fr.kind = "outer" => mem' = mem /\ call = "idle"
      <4> DEFINE t == s(kind, owns)
      <4>1. t.obj = <<>> /\ t.msg = m /\ t.kind = kind /\ (kind = "message" => t.phase = "tag")
        BY DEF Stream
      <4>2. fresh(t)
        BY <3>1
      <4> HIDE DEF t, fresh
      <4> QED BY <3>1, <4>1, <4>2
    <3> HIDE DEF s, fresh
    <3> QED BY <2>1, <3>1
  <2>3. Top' = fr /\ frames'[1] = fr
    <3>1. 1 \in 1 .. MaxDepth
      BY DecodeAssumption
    <3> QED BY <2>1, <2>2, <3>1 DEF Top
  <2>4. \/ mem' = Entered(Nothing, <<>>)
        \/ mem' = mem /\ call = "held" /\ m = root
        \/ mem' = mem /\ call = "idle"
    BY <1>1 DEF Decode, DecodeDelimited, DecodeNoinit
  <2>5. Rooted(m, mem')
    <3>1. CASE mem' = mem /\ call = "idle"
      BY <3>1 DEF Owned, Rooted
    <3> QED BY <2>4, <3>1, NewRooted DEF Owned
  <2>6. fr.kind = "outer" => mem'.ptr = {}
    BY <2>2 DEF Owned
  <2>7. Reaches(m, <<>>, m) /\ Standing(mem', <<>>)
    BY NewRooted
  <2>8. Ready(fr, mem')
    BY <2>2 DEF Ready
  <2>9. \A d \in 1 .. depth' : Reaches(root', frames'[d].obj, frames'[d].msg)
    BY <2>1, <2>2, <2>3, <2>7
  <2>10. call' # "idle" /\ ret' # "fail"
    BY <2>1
  <2> HIDE DEF fresh
  <2> QED BY <2>1, <2>2, <2>3, <2>5, <2>6, <2>7, <2>8, <2>9, <2>10 DEF Owned
<1>2. CASE Release
  <2>1. call' = "idle" /\ ~Busy' /\ mem' = Unread(ReleaseObject(mem, <<>>))
    BY <1>2 DEF Release, Busy
  <2> DEFINE r == ReleaseObject(mem, <<>>)
  <2>2. r \in Memory /\ \A p \in r.ptr : ~IsStrictPrefix(<<>>, p)
    BY AtTop, NewMem, ObjectReleased, RootedReleaseObject DEF Owned
  <2> HIDE DEF r
  <2>3. r.ptr = {}
    BY <2>2, NothingBelow
  <2>4. mem'.ptr = {} /\ mem'.has = {}
    BY <2>1, <2>2, <2>3, UnreadMem DEF r
  <2> QED BY <2>1, <2>4 DEF Owned, Rooted
<1> QED BY <1>1, <1>2 DEF Caller

\* A struct that failed pb_decode has no block left.
LEMMA FinishedOwned ==
    ASSUME Calls, Owned, Finished
    PROVE  Owned'
<1>1. /\ Busy /\ ret # "none" /\ depth = 1 /\ root' = root
      /\ call' \in {"idle", "held", "broken"} /\ ~Busy'
      /\ call' = "idle" => ret = "fail" /\ call = "decode"
      /\ mem' = IF call' = "idle" THEN Unread(mem) ELSE mem
  BY DEF Finished, Busy, Calls, Typed
<1>2. CASE call' = "idle"
  <2>1. Top.obj = <<>> /\ Top.kind \in {"outer", "message"} /\ (Top.kind = "message" => Top.owns)
    BY <1>1, <1>2 DEF Calls, Bottom, Top
  <2>2. mem.ptr = {}
    <3>1. CASE Top.kind = "outer"
      BY <1>1, <1>2, <3>1 DEF Owned
    <3>2. CASE Top.kind = "message"
      <4>1. \A p \in mem.ptr : ~IsStrictPrefix(<<>>, p)
        BY <1>1, <1>2, <2>1, <3>2 DEF Owned
      <4> QED BY <4>1, AtTop, NothingBelow
    <3> QED BY <2>1, <3>1, <3>2
  <2>3. mem'.ptr = {} /\ mem'.has = {}
    BY <1>1, <1>2, <2>2, AtTop, UnreadMem
  <2> QED BY <1>1, <2>3 DEF Owned, Rooted
<1>3. CASE call' # "idle"
  <2>1. Rooted(root', mem')
    BY <1>1, <1>3 DEF Owned
  <2> QED BY <1>1, <1>3, <2>1 DEF Owned
<1> QED BY <1>2, <1>3

\* Every step leaves every block where a release finds it.
LEMMA OwnedNext ==
    ASSUME Calls, Owned, [Next]_vars
    PROVE  Owned'
<1>1. CASE UNCHANGED vars
  BY <1>1 DEF vars, Owned, Busy, Top
<1>2. CASE Caller
  BY <1>2, CallerOwned
<1>3. CASE EndOfMessage \/ SkipField
  BY <1>3, EndOfMessageOwned, SkipFieldOwned
<1>4. CASE \E w \in Wires : UnknownField(w) \/ \E i \in DOMAIN Msg[Top.msg] : KnownField(i, w)
  BY <1>4, UnknownFieldOwned, KnownFieldOwned
<1>5. CASE BeginStatic \/ BeginPointer \/ BeginStaticItem \/ BeginPointerItem
  BY <1>5, BeginStaticOwned, BeginPointerOwned, BeginStaticItemOwned, BeginPointerItemOwned
<1>6. CASE ReadScalar \/ ReadText \/ TextCut \/ Unreadable \/ PackedUnreadable
  BY <1>6, ReadScalarOwned, ReadTextOwned, FailsOwned
<1>7. CASE OpenSubmessage \/ OpenPacked \/ OpenDelimited \/ OpenCallback
  BY <1>7, OpenSubmessageOwned, OpenBytesOwned, OpenDelimitedOwned
<1>8. CASE PackedItem \/ PackedGrow \/ PackedEnd
  BY <1>8, PackedItemOwned, PackedGrowOwned, PackedEndOwned
<1>9. CASE SkipCallback \/ CallbackScalar \/ CallbackReads
  BY <1>9, CallbackOwned
<1>10. CASE Return \/ Finished
  BY <1>10, ReturnOwned, FinishedOwned
<1> QED BY <1>1, <1>2, <1>3, <1>4, <1>5, <1>6, <1>7, <1>8, <1>9, <1>10 DEF Next, Walk

\* Every block is always where a release finds it.
LEMMA OwnedAlways == Spec => []Owned
<1>1. Init => Owned
  <2> SUFFICES ASSUME Init
               PROVE  Owned
    OBVIOUS
  <2>1. mem.ptr = {} /\ mem.has = {} /\ ~Busy /\ call = "idle"
    BY NothingMem DEF Init, Busy
  <2> QED BY <2>1 DEF Owned, Rooted
<1>2. Calls /\ Owned /\ [Next]_vars => Owned'
  BY OwnedNext
<1> QED BY <1>1, <1>2, CallsAlways, PTL DEF Spec

\* A struct that failed pb_decode or was released holds no block that was
\* allocated: every pointer that is set lies where the release of the caller's
\* struct, or of the submessage a failing call owned, finds it.
THEOREM NothingLeftBehind == Spec => []ReleasedWhole
<1>1. Owned => ReleasedWhole
  BY DEF Owned, ReleasedWhole
<1> QED BY <1>1, OwnedAlways, PTL
-----------------------------------------------------------------------------
(***************************************************************************)
(* What a merge leaves alone.                                              *)
(***************************************************************************)

\* Field k of the message that is being read is in its union.
InUnion(k) == k \in DOMAIN Msg[Top.msg] /\ Msg[Top.msg][k].rule = "oneof"

\* p lies in the field that is being read, or both lie in the union.
InRead(p) ==
    /\ Top.kind = "message" /\ Len(Top.obj) < Len(p)
    /\ \A k \in 1 .. Len(Top.obj) : Top.obj[k] = p[k]
    /\ \/ p[Len(Top.obj) + 1][2] = Top.field
       \/ InUnion(Top.field) /\ InUnion(p[Len(Top.obj) + 1][2])

\* A block that m has no longer is one of the field being read.
Spares(m) == m \in Memory /\ \A p \in mem.ptr : p \notin m.ptr => InRead(p)

\* A block that is gone was one of the field being read, or of the message of
\* a call that failed and owned it.
Spared ==
    \A p \in mem.ptr : p \notin mem'.ptr =>
        \/ InRead(p)
        \/ \E d \in 1 .. depth : frames[d].owns /\ IsStrictPrefix(frames[d].obj, p)

\* In a struct, what lies below an object has the type of the object.
LEMMA SameMessage ==
    ASSUME NEW t, NEW q \in Path, NEW o \in Path, NEW m, Placed(t, q), Reaches(t, o, m),
           Len(o) < Len(q), \A k \in 1 .. Len(o) : o[k] = q[k]
    PROVE  q[Len(o) + 1][1] = m
<1>1. Len(o) \in Nat /\ Len(q) \in Nat
  BY PathSeq
<1>2. CASE Len(o) = 0
  BY <1>2 DEF Reaches, Placed
<1>3. CASE Len(o) > 0
  <2>1. Len(o) \in 1 .. Len(q) - 1 /\ Len(o) \in 1 .. Len(o)
    BY <1>1, <1>3
  <2>2. Holds(q[Len(o)], q[Len(o) + 1][1])
    BY <2>1 DEF Placed
  <2>3. Holds(o[Len(o)], m) /\ o[Len(o)] = q[Len(o)]
    BY <1>3, <2>1 DEF Reaches
  <2> QED BY <2>2, <2>3 DEF Holds
<1> QED BY <1>1, <1>2, <1>3

\* A call that leaves all pointers in place spares them.
LEMMA SparesMore ==
    ASSUME NEW m \in Memory, NEW r \in Memory, Spares(m), m.ptr \subseteq r.ptr
    PROVE  Spares(r)
  BY DEF Spares

\* The release of the field being read, or of another of its union.
LEMMA SparesField ==
    ASSUME Calls, Top.kind = "message", NEW m, Spares(m), NEW q \in Inner, Front(q) = Top.obj,
           \/ Last(q)[2] = Top.field
           \/ InUnion(Top.field) /\ InUnion(Last(q)[2])
    PROVE  Spares(ReleaseField(m, q))
<1> DEFINE r == ReleaseField(m, q)
           n == Len(Top.obj) + 1
<1>1. /\ r \in Memory
      /\ \A p \in m.ptr : ~(Len(p) >= Len(q) /\ MemberOf(p, Len(q)) = q) => p \in r.ptr
  BY FieldReleased DEF Spares
<1>2. /\ Len(q) = n /\ Len(Top.obj) \in Nat /\ Last(q) = q[n] /\ n \in Nat \ {0}
      /\ \A k \in 1 .. Len(Top.obj) : Top.obj[k] = q[k]
  BY FrontLast, AtTop
<1> HIDE DEF r
<1>3. ASSUME NEW p \in mem.ptr, p \notin r.ptr, p \in m.ptr
      PROVE  InRead(p)
  <2>1. p \in Path /\ Len(p) \in Nat
    BY AtTop, PointerPlaces, PathSeq
  <2>2. Len(p) >= Len(q) /\ MemberOf(p, Len(q)) = q
    BY <1>1, <1>3
  <2>3. n \in 1 .. Len(p) /\ MemberOf(p, n) = q
    BY <1>2, <2>1, <2>2
  <2>4. /\ \A k \in 1 .. n - 1 : q[k] = p[k]
        /\ q[n] = <<p[n][1], p[n][2], 0>>
    BY <2>1, <2>3, MemberOfPath
  <2>5. Last(q)[2] = p[n][2]
    BY <1>2, <2>4
  <2>6. Len(Top.obj) < Len(p) /\ \A k \in 1 .. Len(Top.obj) : Top.obj[k] = p[k]
    BY <1>2, <2>1, <2>3, <2>4
  <2> QED BY <2>5, <2>6 DEF InRead
<1> QED BY <1>1, <1>3 DEF Spares, r

\* Clearing an item of the field being read.
LEMMA SparesCleared ==
    ASSUME Calls, AtField(Top), Top.kind = "message", NEW m, Spares(m), NEW j \in Nat
    PROVE  Spares(Cleared(m, Item(Top.obj, Top.msg, Top.field, j)))
<1> DEFINE item == Item(Top.obj, Top.msg, Top.field, j)
           r == Cleared(m, item)
           n == Len(Top.obj) + 1
<1>1. Top.field \in DOMAIN Msg[Top.msg] /\ Top.msg \in Messages /\ Top.obj \in Path
  BY AtTop, FieldHere
<1>a. /\ item \in Inner /\ Len(item) = Len(Top.obj) + 1
      /\ item[Len(Top.obj) + 1] = <<Top.msg, Top.field, j>>
      /\ \A k \in 1 .. Len(Top.obj) : item[k] = Top.obj[k]
  BY <1>1, Extended
<1> HIDE DEF item
<1>2. /\ item \in Path /\ Len(item) = n /\ item[n] = <<Top.msg, Top.field, j>>
      /\ \A k \in 1 .. Len(Top.obj) : item[k] = Top.obj[k]
      /\ Len(Top.obj) \in Nat
  BY <1>a, AtTop DEF Inner
<1>3. r \in Memory /\ \A p : p \in r.ptr <=> p \in m.ptr /\ ~IsPrefix(item, p)
  BY <1>2, ClearedMem DEF Spares
<1> HIDE DEF r
<1>4. ASSUME NEW p \in mem.ptr, p \in m.ptr, p \notin r.ptr
      PROVE  InRead(p)
  <2>1. p \in Path /\ Len(p) \in Nat
    BY AtTop, PointerPlaces, PathSeq
  <2>2. n <= Len(p) /\ \A k \in 1 .. n : item[k] = p[k]
    BY <1>2, <1>3, <1>4, <2>1, PrefixSteps
  <2>3. n \in 1 .. n /\ \A k \in 1 .. Len(Top.obj) : k \in 1 .. n
    BY <1>2
  <2>4. p[n] = <<Top.msg, Top.field, j>>
    BY <1>2, <2>2, <2>3
  <2>5. Len(Top.obj) < Len(p) /\ \A k \in 1 .. Len(Top.obj) : Top.obj[k] = p[k]
    BY <1>2, <2>1, <2>2, <2>3
  <2> QED BY <2>4, <2>5 DEF InRead
<1> QED BY <1>3, <1>4 DEF Spares, r, item

\* pb_release_union_field.
LEMMA SparesUnion ==
    ASSUME Calls, Owned, Busy, ret = "none", AtField(Top), Top.kind = "message"
    PROVE  Spares(UnionReleased)
<1>1. Spares(mem)
  BY AtTop DEF Spares
<1>2. CASE ~(Field.rule = "oneof" /\ Others(mem) # {})
  BY <1>1, <1>2 DEF UnionReleased
<1>3. CASE Field.rule = "oneof" /\ Others(mem) # {}
  <2> DEFINE q == CHOOSE p \in Others(mem) : TRUE
  <2>1. UnionReleased = ReleaseField(mem, q) /\ q \in Others(mem)
    BY <1>3 DEF UnionReleased
  <2> HIDE DEF q
  <2>2. q \in mem.has /\ Front(q) = Top.obj /\ FieldAt(Last(q)).rule = "oneof"
    BY <2>1 DEF Others
  <2>3. q \in Inner /\ q \in Path /\ Placed(root, q)
    BY <2>2, NowSound, PointerPlaces DEF Sound, Rooted
  <2>a. /\ Len(Top.obj) = Len(q) - 1 /\ Len(q) \in Nat \ {0}
        /\ Last(q) = q[Len(q)] /\ Len(q) \in 1 .. Len(q)
        /\ \A k \in 1 .. Len(q) - 1 : Top.obj[k] = q[k]
    BY <2>2, <2>3, FrontLast
  <2>4. /\ Len(q) = Len(Top.obj) + 1 /\ Last(q) = q[Len(q)] /\ Len(q) \in 1 .. Len(q)
        /\ \A k \in 1 .. Len(Top.obj) : Top.obj[k] = q[k]
        /\ Top.obj \in Path /\ Len(Top.obj) < Len(q)
    BY <2>a, AtTop
  <2>5. Last(q)[1] = Top.msg
    BY <2>3, <2>4, NowSound, SameMessage
  <2>6. Last(q)[2] \in DOMAIN Msg[Last(q)[1]]
    BY <2>3, <2>4, StepTyped
  <2>7. InUnion(Last(q)[2])
    BY <2>2, <2>5, <2>6 DEF InUnion, FieldAt
  <2>8. InUnion(Top.field)
    BY <1>3, FieldHere DEF InUnion, Field
  <2> QED BY <1>1, <2>1, <2>2, <2>3, <2>7, <2>8, SparesField
<1> QED BY <1>2, <1>3
-----------------------------------------------------------------------------
(* What each step of a merge leaves alone. *)

\* A step that takes no pointer away.
LEMMA AllSpared ==
    ASSUME mem.ptr \subseteq mem'.ptr
    PROVE  Spared
  BY DEF Spared

\* A call that fails frees its message where it owns it.
LEMMA FailSpared ==
    ASSUME Calls, Busy, ret = "none", NEW m, Spares(m), Fail(m)
    PROVE  Spared
<1>1. depth \in 1 .. depth /\ Top = frames[depth] /\ Top.obj \in Path /\ m \in Memory
  BY AtTop, DecodeAssumption DEF Calls, Typed, Top, Spares
<1>2. CASE Top.owns
  <2>1. mem' = ReleaseObject(m, Top.obj)
    BY <1>2 DEF Fail
  <2>2. \A p \in m.ptr : ~IsStrictPrefix(Top.obj, p) => p \in mem'.ptr
    BY <1>1, <2>1, ObjectReleased
  <2> QED BY <1>1, <1>2, <2>2 DEF Spared, Spares
<1>3. CASE ~Top.owns
  BY <1>3 DEF Fail, Spared, Spares
<1> QED BY <1>2, <1>3

\* A call that reads on leaves what it made of the memory.
LEMMA StaySpared ==
    ASSUME NEW m, Spares(m), mem' = m
    PROVE  Spared
  BY DEF Spared, Spares

\* A call spares what it leaves as it is, and what it only counts.
LEMMA SparesSame ==
    ASSUME Calls
    PROVE  /\ Spares(mem)
           /\ AtField(Top) => \A n \in Nat : /\ Spares(Counted(mem, Key, n))
                                             /\ Spares(Allocated(mem, Key, n))
<1>1. Spares(mem) /\ mem \in Memory
  BY AtTop DEF Spares
<1>2. ASSUME AtField(Top), NEW n \in Nat
      PROVE  Spares(Counted(mem, Key, n)) /\ Spares(Allocated(mem, Key, n))
  <2>1. Key \in Inner
    BY <1>2, FieldHere
  <2>2. Counted(mem, Key, n) \in Memory /\ Counted(mem, Key, n).ptr = mem.ptr
    BY <1>1, <2>1, CountedMem
  <2>3. Allocated(mem, Key, n) \in Memory /\ Allocated(mem, Key, n).ptr = mem.ptr \cup {Key}
    BY <1>1, <2>1, AllocatedMem
  <2> QED BY <1>1, <2>2, <2>3 DEF Spares
<1> QED BY <1>1, <1>2

\* Tags, unknown fields, callbacks and nested streams take no pointer away.
LEMMA PlainSpared ==
    ASSUME Calls,
           \/ EndOfMessage \/ SkipField \/ \E w \in Wires : UnknownField(w)
           \/ Unreadable \/ OpenPacked \/ PackedUnreadable \/ PackedEnd
           \/ SkipCallback \/ CallbackScalar \/ OpenCallback \/ CallbackReads
    PROVE  Spared
<1>1. Busy /\ ret = "none"
  BY DEF EndOfMessage, SkipField, UnknownField, Unreadable, Reading, OpenPacked,
         PackedUnreadable, PackedEnd, SkipCallback, CallbackScalar, OpenCallback,
         CallbackReads, AtCallback, Running
<1>2. mem' = mem \/ Fail(mem)
  BY DEF EndOfMessage, SkipField, UnknownField, Unreadable, OpenPacked,
         PackedUnreadable, PackedEnd, SkipCallback, CallbackScalar, OpenCallback,
         CallbackReads, Stay, Succeed
<1> QED BY <1>1, <1>2, SparesSame, FailSpared, StaySpared

\* A field begins: a fixed-count array is counted anew.
LEMMA KnownFieldSpared ==
    ASSUME Calls, NEW i, NEW w, KnownField(i, w)
    PROVE  Spared
<1> DEFINE c == Counted(mem, Member(Top.obj, Top.msg, i), 0)
<1>1. Busy /\ ret = "none" /\ i \in DOMAIN Msg[Top.msg]
  BY DEF KnownField, Running
<1>2. mem' = mem \/ Fail(mem) \/ mem' = c
  BY DEF KnownField, Stay
<1>3. mem' = c => mem'.ptr = mem.ptr
  <2>1. c = [mem EXCEPT !.count = Put(@, Member(Top.obj, Top.msg, i), 0)]
    BY DEF Counted
  <2>2. mem \in Memory
    BY AtTop
  <2> QED BY <2>1, <2>2 DEF Memory
<1> HIDE DEF c
<1> QED BY <1>1, <1>2, <1>3, SparesSame, FailSpared, AllSpared

\* What begins a static field takes the union's other member, and what the
\* member had before.
LEMMA BeginStaticSpared ==
    ASSUME Calls, Owned, BeginStatic
    PROVE  Spared
<1>1. /\ Running("message", "field") /\ Field.alloc = "static" /\ ~Array(Field) /\ AtField(Top)
      /\ Busy /\ ret = "none" /\ Top.kind = "message"
  BY DEF BeginStatic, Running, AtField
<1> DEFINE one == 1
           w == Which(UnionReleased, Key)
           h == [UnionReleased EXCEPT !.has = @ \cup {Key}]
           c == Cleared(w, Item(Top.obj, Top.msg, Top.field, one))
<1>2. Field.rule \in {"required", "optional", "oneof"}
  BY <1>1, FieldHere DEF FieldType, Array
<1>3. mem' = UnionReleased \/ mem' = h \/ mem' = w \/ mem' = c
  BY <1>2 DEF BeginStatic, ToValue, Stay, Item
<1>4. Spares(UnionReleased) /\ Key \in Inner /\ UnionReleased \in Memory
  BY <1>1, SparesUnion, FieldHere DEF Spares
<1>5. Spares(w)
  <2>1. w \in Memory /\ w.ptr = UnionReleased.ptr
    BY <1>4, WhichMem
  <2> QED BY <1>4, <2>1, SparesMore
<1>6. Spares(h)
  <2>1. h \in Memory /\ h.ptr = UnionReleased.ptr
    BY <1>4, HasMem
  <2> QED BY <1>4, <2>1, SparesMore
<1>7. one \in Nat
  OBVIOUS
<1> HIDE DEF w, h, one
<1>8. Spares(c)
  BY <1>1, <1>5, <1>7, SparesCleared
<1> HIDE DEF c
<1> QED BY <1>3, <1>4, <1>5, <1>6, <1>8, StaySpared

\* A pointer field lets go of the union's other member and of its old message.
LEMMA BeginPointerSpared ==
    ASSUME Calls, Owned, BeginPointer
    PROVE  Spared
<1>1. /\ Running("message", "field") /\ AtField(Top) /\ Busy /\ ret = "none"
      /\ Top.kind = "message"
  BY DEF BeginPointer, Running, AtField
<1> DEFINE one == 1
           a == Allocated(PointerNamed, Key, one)
           c == Cleared(a, Item(Top.obj, Top.msg, Top.field, one))
<1>2. mem' = PointerNamed \/ mem' = c \/ Fail(PointerNamed)
  BY DEF BeginPointer, PointerNamed, PointerFree, ToValue, Stay, Item
<1>3. /\ Spares(UnionReleased) /\ Key \in Inner /\ UnionReleased \in Memory
      /\ Front(Key) = Top.obj /\ Last(Key)[2] = Top.field
  BY <1>1, SparesUnion, FieldHere DEF Spares
<1>4. Spares(ReleaseField(UnionReleased, Key))
  BY <1>1, <1>3, SparesField
<1>5. Spares(PointerFree) /\ PointerFree \in Memory
  BY <1>3, <1>4 DEF PointerFree, Spares
<1>6. Spares(PointerNamed) /\ PointerNamed \in Memory
  <2>1. Which(PointerFree, Key) \in Memory /\ Which(PointerFree, Key).ptr = PointerFree.ptr
    BY <1>3, <1>5, WhichMem
  <2>2. Spares(Which(PointerFree, Key))
    BY <1>5, <2>1, SparesMore
  <2> QED BY <1>5, <2>1, <2>2 DEF PointerNamed
<1>7. one \in Nat
  OBVIOUS
<1> HIDE DEF one
<1>8. Spares(a)
  <2>1. a \in Memory /\ a.ptr = PointerNamed.ptr \cup {Key}
    BY <1>3, <1>6, <1>7, AllocatedMem
  <2> QED BY <1>6, <2>1, SparesMore
<1> HIDE DEF a
<1>9. Spares(c)
  BY <1>1, <1>7, <1>8, SparesCleared
<1> HIDE DEF c
<1> QED BY <1>1, <1>2, <1>6, <1>9, StaySpared, FailSpared

\* An item is counted, and what lay where it goes is forgotten.
LEMMA BeginItemSpared ==
    ASSUME Calls, BeginStaticItem \/ BeginPointerItem
    PROVE  Spared
<1>1. AtField(Top) /\ Busy /\ ret = "none" /\ Top.kind = "message"
  BY DEF BeginStaticItem, BeginPointerItem, OneByOne, Running, AtField
<1> DEFINE n == Get(mem.count, Key) + 1
           more == Counted(mem, Key, n)
           a == Allocated(more, Key, n)
           c == Cleared(a, Item(Top.obj, Top.msg, Top.field, n))
<1>2. Fail(mem) \/ Fail(more) \/ mem' = more \/ mem' = c
  BY DEF BeginStaticItem, BeginPointerItem, ToValue, Stay, Item
<1>3. n \in Nat /\ Key \in Inner
  BY <1>1, FieldHere
<1> HIDE DEF n
<1>4. Spares(mem) /\ Spares(more) /\ more \in Memory
  BY <1>1, <1>3, SparesSame DEF Spares
<1> HIDE DEF more
<1>5. Spares(a)
  <2>1. a \in Memory /\ a.ptr = more.ptr \cup {Key}
    BY <1>3, <1>4, AllocatedMem
  <2> QED BY <1>4, <2>1, SparesMore
<1> HIDE DEF a
<1>6. Spares(c)
  BY <1>1, <1>3, <1>5, SparesCleared
<1> HIDE DEF c
<1> QED BY <1>1, <1>2, <1>4, <1>6, StaySpared, FailSpared

\* A value takes no pointer away, a text sets one.
LEMMA ReadSpared ==
    ASSUME Calls, ReadScalar \/ ReadText \/ TextCut
    PROVE  Spared
<1>1. Running("message", "value") /\ Busy /\ ret = "none"
  BY DEF ReadScalar, ReadText, TextCut, Running
<1>2. Spares(mem) /\ mem \in Memory /\ TextSlot \in Inner
  BY <1>1, SparesSame, KeptText DEF Spares
<1>3. Spares(WithText) /\ WithText \in Memory
  <2> DEFINE one == 1
             a == Allocated(mem, TextSlot, one)
  <2>1. one \in Nat
    OBVIOUS
  <2>2. WithText = a \/ WithText = mem
    BY DEF WithText
  <2> HIDE DEF one
  <2>3. a \in Memory /\ a.ptr = mem.ptr \cup {TextSlot}
    BY <1>2, <2>1, AllocatedMem
  <2>4. Spares(a)
    BY <1>2, <2>3, SparesMore
  <2> QED BY <1>2, <2>2, <2>3, <2>4
<1>4. ASSUME NEW fr, NEW m \in Memory, ReadDone(fr, m)
      PROVE  mem'.ptr = m.ptr
  BY <1>4 DEF ReadDone, Stay, Memory
<1>5. CASE ReadScalar
  BY <1>2, <1>4, <1>5, AllSpared DEF ReadScalar
<1>6. CASE ReadText
  <2>1. mem'.ptr = WithText.ptr
    BY <1>3, <1>4, <1>6 DEF ReadText
  <2> QED BY <1>3, <2>1 DEF Spared, Spares
<1>7. CASE TextCut
  BY <1>1, <1>3, <1>7, FailSpared DEF TextCut
<1> QED BY <1>5, <1>6, <1>7

\* An item of a repeated submessage is initialised before it is read.
LEMMA OpenSubmessageSpared ==
    ASSUME Calls, OpenSubmessage
    PROVE  Spared
<1>1. AtField(Top) /\ Top.kind = "message"
  BY DEF OpenSubmessage, Running, AtField
<1> DEFINE j == IF Array(Field) THEN Get(mem.count, Key) ELSE 1
           item == Item(Top.obj, Top.msg, Top.field, j)
           c == Cleared(mem, item)
<1>2. j \in Nat /\ ItemOf(Top) = item
  <2>1. 1 \in Nat
    OBVIOUS
  <2> QED BY <1>1, <2>1, FieldHere
<1>3. mem' = Entered(c, item) \/ mem' = Entered(mem, item)
  BY <1>2 DEF OpenSubmessage
<1> HIDE DEF j
<1>4. Spares(mem) /\ Spares(c) /\ item \in Path /\ c \in Memory /\ mem \in Memory
  BY <1>1, <1>2, SparesSame, SparesCleared, ItemThere DEF Spares
<1> HIDE DEF c, item
<1>5. /\ Entered(c, item) \in Memory /\ Entered(c, item).ptr = c.ptr
      /\ Entered(mem, item) \in Memory /\ Entered(mem, item).ptr = mem.ptr
  BY <1>4, EnteredMem
<1>6. Spares(Entered(c, item)) /\ Spares(Entered(mem, item))
  BY <1>4, <1>5, SparesMore
<1> QED BY <1>3, <1>6, StaySpared

\* A packed array is counted, and grows.
LEMMA PackedSpared ==
    ASSUME Calls, PackedItem \/ PackedGrow
    PROVE  Spared
<1>1. AtField(Top) /\ Busy /\ ret = "none" /\ mem \in Memory /\ Top.kind = "packed"
  BY AtTop DEF PackedItem, PackedGrow, Running, AtField
<1>2. CASE PackedItem
  <2> DEFINE n == Get(mem.count, Key) + 1
  <2>1. Fail(mem) \/ mem' = Counted(mem, Key, n)
    BY <1>2 DEF PackedItem, Stay
  <2>2. n \in Nat
    BY <1>1, FieldHere
  <2> HIDE DEF n
  <2> QED BY <1>1, <2>1, <2>2, SparesSame, FailSpared, StaySpared
<1>3. CASE PackedGrow
  <2>1. \/ Fail(mem)
        \/ \E n : mem' = Allocated(mem, Key, n)
    BY <1>3 DEF PackedGrow, Stay
  <2>2. (\E n : mem' = Allocated(mem, Key, n)) => mem.ptr \subseteq mem'.ptr
    BY <1>1 DEF Allocated, Memory
  <2> QED BY <1>1, <2>1, <2>2, SparesSame, FailSpared, AllSpared
<1> QED BY <1>2, <1>3

\* A call that returns with an error frees the message of its caller, where
\* that one owns it.
LEMMA ReturnSpared ==
    ASSUME Calls, Return
    PROVE  Spared
<1>1. depth > 1 /\ depth - 1 \in 1 .. depth /\ depth - 1 \in 1 .. MaxDepth /\ mem \in Memory
  BY AtTop, DecodeAssumption DEF Return, Calls, Typed
<1>2. Parent = frames[depth - 1] /\ Parent.obj \in Path
  BY <1>1 DEF Parent, Calls, Typed, FrameOK
<1>3. CASE ret = "fail" /\ Parent.owns
  <2>1. mem' = ReleaseObject(mem, Parent.obj)
    BY <1>3 DEF Return
  <2>2. \A p \in mem.ptr : ~IsStrictPrefix(Parent.obj, p) => p \in mem'.ptr
    BY <1>1, <1>2, <2>1, ObjectReleased
  <2> QED BY <1>1, <1>2, <1>3, <2>2 DEF Spared
<1>4. CASE ~(ret = "fail" /\ Parent.owns)
  <2> DEFINE r == ReadAt(mem, Parent.obj, Parent.field)
  <2>1. mem' = mem \/ mem' = r
    BY <1>4 DEF Return, ReadAt
  <2>2. r.ptr = mem.ptr
    BY <1>1 DEF ReadAt, Memory
  <2> HIDE DEF r
  <2> QED BY <2>1, <2>2, AllSpared
<1> QED BY <1>3, <1>4

\* Where the field of the caller's struct is that a nested call is in.
LEMMA OuterStep ==
    ASSUME Calls, Busy, frames[1].kind = "message",
           NEW d \in 2 .. depth, frames[d].kind = "message"
    PROVE  /\ frames[d].obj \in Path /\ 1 \in 1 .. Len(frames[d].obj)
           /\ frames[d].obj[1][2] = frames[1].field
<1>1. /\ depth \in Nat /\ depth <= MaxDepth /\ d \in 1 .. depth /\ d \in 1 .. MaxDepth
      /\ 1 \in 1 .. depth - 1 /\ 2 \in 1 .. depth /\ 1 \in 1 .. MaxDepth /\ 2 \in 1 .. MaxDepth
      /\ 1 \in Nat /\ 1 + 1 = 2 /\ 2 + 1 = 3 /\ MaxDepth \in Nat
  BY DecodeAssumption DEF Calls, Typed
<1>2. Link(frames[1], frames[1 + 1])
  BY <1>1 DEF Calls, Chained
<1>3. Link(frames[1], frames[2])
  BY <1>1, <1>2
<1>4. frames[2].kind = "message"
  <2>1. CASE d = 2
    BY <2>1
  <2>2. CASE d # 2
    <3>1. 2 \in 1 .. depth - 1
      BY <1>1, <2>2
    <3>2. Link(frames[2], frames[2 + 1])
      BY <3>1 DEF Calls, Chained
    <3> QED BY <1>3, <3>2 DEF Link
  <2> QED BY <2>1, <2>2
<1>5. /\ FrameOK(frames[1]) /\ FrameOK(frames[2]) /\ FrameOK(frames[d])
      /\ frames[1].msg = root /\ frames[1].obj = <<>>
  BY <1>1 DEF Calls, Typed, Bottom
<1>6. /\ frames[1].obj \in Path /\ frames[2].obj \in Path /\ frames[d].obj \in Path
      /\ frames[1].msg \in Messages /\ frames[1].field \in DOMAIN Msg[frames[1].msg]
      /\ Len(frames[1].obj) = 0
  <2>1. AtField(frames[1])
    BY <1>3 DEF Link, AtField
  <2> QED BY <1>5, <2>1 DEF FrameOK, Frame
<1>7. PICK j \in Nat \ {0} : frames[2].obj = Item(frames[1].obj, frames[1].msg, frames[1].field, j)
  BY <1>3, <1>4 DEF Link
<1>8. /\ Len(frames[2].obj) = Len(frames[1].obj) + 1
      /\ frames[2].obj[Len(frames[1].obj) + 1] = <<frames[1].msg, frames[1].field, j>>
  <2> DEFINE o == frames[1].obj
             m == frames[1].msg
             i == frames[1].field
  <2>1. o \in Path /\ m \in Messages /\ i \in DOMAIN Msg[m] /\ j \in Nat
    BY <1>6
  <2>2. frames[2].obj = Item(o, m, i, j)
    BY <1>7
  <2> HIDE DEF o, m, i
  <2>3. /\ Len(Item(o, m, i, j)) = Len(o) + 1
        /\ Item(o, m, i, j)[Len(o) + 1] = <<m, i, j>>
    BY <2>1, Extended
  <2>4. Len(frames[2].obj) = Len(o) + 1 /\ frames[2].obj[Len(o) + 1] = <<m, i, j>>
    BY <2>2, <2>3
  <2> QED BY <2>4 DEF o, m, i
<1>9. Len(frames[2].obj) = 1 /\ frames[2].obj[1] = <<frames[1].msg, frames[1].field, j>>
  BY <1>6, <1>8
<1>10. Len(frames[2].obj) <= Len(frames[d].obj) /\ frames[2].obj[1] = frames[d].obj[1]
  <2>1. CASE d = 2
    BY <1>9, <2>1
  <2>2. CASE d # 2
    <3>1. 2 < d
      BY <1>1, <2>2
    <3>2. Under(frames[2].obj, frames[d].obj)
      BY <1>1, <3>1 DEF Calls, Stacked
    <3> QED BY <1>9, <3>2 DEF Under
  <2> QED BY <2>1, <2>2
<1>11. Len(frames[d].obj) \in Nat
  BY <1>6, PathSeq
<1> QED BY <1>6, <1>9, <1>10, <1>11

\* In a merge, a block that is gone was in the field of the caller's struct
\* that is being read, or in its union.
LEMMA SparedOutside ==
    ASSUME Calls, call = "merge", Spared, NEW p \in mem.ptr \ mem'.ptr
    PROVE  LET i == frames[1].field
               union(k) == k \in DOMAIN Msg[root] /\ Msg[root][k].rule = "oneof"
           IN  p[1][2] = i \/ (union(i) /\ union(p[1][2]))
<1>1. /\ Busy /\ frames[1].kind = "message" /\ frames[1].msg = root /\ frames[1].obj = <<>>
      /\ ~frames[1].owns /\ Len(frames[1].obj) = 0
  BY DEF Busy, Calls, Bottom
<1>2. /\ depth \in 1 .. depth /\ depth \in Nat /\ depth <= MaxDepth /\ MaxDepth \in Nat
      /\ Top = frames[depth] /\ p \in Path
  BY AtTop, PointerPlaces, DecodeAssumption DEF Calls, Typed, Top
<1>3. CASE InRead(p)
  <2>1. CASE depth = 1
    BY <1>1, <1>2, <1>3, <2>1 DEF InRead, InUnion
  <2>2. CASE depth # 1
    <3>1. depth \in 2 .. depth /\ frames[depth].kind = "message"
      BY <1>2, <1>3, <2>2 DEF InRead
    <3>2. 1 \in 1 .. Len(Top.obj) /\ Top.obj[1][2] = frames[1].field
      BY <1>1, <1>2, <3>1, OuterStep
    <3>3. Top.obj[1] = p[1]
      BY <1>3, <3>2 DEF InRead
    <3> QED BY <3>2, <3>3
  <2> QED BY <2>1, <2>2
<1>4. CASE \E d \in 1 .. depth : frames[d].owns /\ IsStrictPrefix(frames[d].obj, p)
  <2>1. PICK d \in 1 .. depth : frames[d].owns /\ IsStrictPrefix(frames[d].obj, p)
    BY <1>4
  <2>2. d \in 2 .. depth /\ d - 1 \in 1 .. depth - 1 /\ (d - 1) + 1 = d /\ d \in 1 .. MaxDepth
    BY <1>1, <1>2, <2>1
  <2>3. Link(frames[d - 1], frames[(d - 1) + 1])
    BY <2>2 DEF Calls, Chained
  <2>4. frames[d].kind # "outer"
    BY <2>2, <2>3 DEF Link
  <2>5. frames[d].kind = "message"
    BY <2>1, <2>2, <2>4 DEF Calls, Typed, FrameOK, Frame
  <2>6. /\ frames[d].obj \in Path /\ 1 \in 1 .. Len(frames[d].obj)
        /\ frames[d].obj[1][2] = frames[1].field
    BY <1>1, <2>2, <2>5, OuterStep
  <2>7. frames[d].obj[1] = p[1]
    BY <1>2, <2>1, <2>6, PrefixSteps
  <2> QED BY <2>6, <2>7
<1> QED BY <1>3, <1>4 DEF Spared

\* Merging a second message with pb_decode_noinit frees nothing but what lies
\* in the fields it has, and nothing more when it fails: the rest of what the
\* first message left stays the caller's.
THEOREM MergeSparesTheRest == Spec => MergeKeepsOthers
<1>1. Calls /\ Owned /\ [Next]_vars =>
        [call = "merge" /\ call' = "merge" =>
          \A p \in mem.ptr \ mem'.ptr :
              LET i == frames[1].field
                  union(k) == k \in DOMAIN Msg[root] /\ Msg[root][k].rule = "oneof"
              IN  p[1][2] = i \/ (union(i) /\ union(p[1][2]))]_vars
  <2> SUFFICES ASSUME Calls, Owned, Next, call = "merge", call' = "merge"
               PROVE  Spared
    BY SparedOutside
  <2>1. Busy /\ depth \in 1 .. depth
    BY DecodeAssumption DEF Busy, Calls, Typed
  <2>2. ~Caller
    BY DEF Caller, Decode, DecodeDelimited, DecodeNoinit, Release
  <2>3. ~OpenDelimited
    <3>1. SUFFICES ASSUME Top.kind = "outer"
                   PROVE  FALSE
      BY DEF OpenDelimited, Running
    <3>2. CASE depth = 1
      BY <2>1, <3>1, <3>2 DEF Calls, Bottom, Top
    <3>3. CASE depth # 1
      <4>1. depth - 1 \in 1 .. depth - 1 /\ (depth - 1) + 1 = depth
        BY <2>1, <3>3, DecodeAssumption DEF Calls, Typed
      <4>2. Link(frames[depth - 1], frames[(depth - 1) + 1])
        BY <4>1 DEF Calls, Chained
      <4> QED BY <3>1, <4>1, <4>2 DEF Link, Top
    <3> QED BY <3>2, <3>3
  <2>4. ~Finished
    BY DEF Finished
  <2>5. Walk
    BY <2>2 DEF Next
  <2> QED BY <2>3, <2>4, <2>5, PlainSpared, KnownFieldSpared, BeginStaticSpared,
             BeginPointerSpared, BeginItemSpared, ReadSpared, OpenSubmessageSpared,
             PackedSpared, ReturnSpared DEF Walk
<1> QED BY <1>1, CallsAlways, OwnedAlways, PTL DEF Spec, MergeKeepsOthers
-----------------------------------------------------------------------------
(***************************************************************************)
(* What is cleared holds no block, unless a static union has one.          *)
(***************************************************************************)

\* The messages that fields of those in S hold are in S.
Closing(S) ==
    /\ S \subseteq Messages
    /\ \A m \in S : \A i \in DOMAIN Msg[m] :
          Msg[m][i].type = "message" /\ Msg[m][i].alloc # "callback" => Msg[m][i].sub \in S

\* In what the caller decodes, the submessages of static unions hold no pointer,
\* however deep.
UnionsBare ==
    \E M, B \in SUBSET Messages :
        /\ Closing(M) /\ Roots \subseteq M
        /\ Closing(B) /\ \A m \in B : \A i \in DOMAIN Msg[m] : Msg[m][i].alloc # "pointer"
        /\ \A m \in M : \A i \in DOMAIN Msg[m] :
              Msg[m][i].rule = "oneof" /\ Msg[m][i].alloc = "static" /\ Msg[m][i].type = "message"
                  => Msg[m][i].sub \in B

\* A set of numbers has a least one.
LEMMA LeastNumber ==
    ASSUME NEW T \in SUBSET Nat, T # {}
    PROVE  \E n \in T : \A m \in T : n <= m
<1> DEFINE R == OpToRel(<, Nat)
<1>1. IsWellFoundedOn(R, Nat)
  BY NatLessThanWellFounded
<1>2. ASSUME NEW x \in Nat, NEW y \in Nat, <<y, x>> \notin R
      PROVE  x <= y
  BY <1>2 DEF OpToRel
<1> HIDE DEF R
<1>3. PICK x \in T : \A y \in T : <<y, x>> \notin R
  BY <1>1, WFMin
<1>4. \A y \in T : x <= y
  BY <1>2, <1>3
<1> QED BY <1>4

\* A way that has come to a message of such a set stays in the set.
LEMMA WayStays ==
    ASSUME NEW B, Closing(B), NEW t, NEW p \in Path, Placed(t, p),
           NEW n \in 1 .. Len(p), p[n][1] \in B
    PROVE  \A k \in n .. Len(p) : p[k][1] \in B
<1> DEFINE T == {k \in n .. Len(p) : p[k][1] \notin B}
<1> SUFFICES ASSUME T # {}
             PROVE  FALSE
  OBVIOUS
<1>1. Len(p) \in Nat /\ T \in SUBSET Nat
  BY PathSeq
<1> HIDE DEF T
<1>2. PICK k \in T : \A j \in T : k <= j
  BY <1>1, LeastNumber
<1>3. k \in n .. Len(p) /\ p[k][1] \notin B /\ k # n
  BY <1>2 DEF T
<1>4. /\ k - 1 \in n .. Len(p) /\ k - 1 \in 1 .. Len(p) /\ k - 1 \in 1 .. Len(p) - 1
      /\ (k - 1) + 1 = k /\ ~(k <= k - 1)
  BY <1>1, <1>3
<1>5. p[k - 1][1] \in B
  BY <1>2, <1>4 DEF T
<1>6. Holds(p[k - 1], p[(k - 1) + 1][1])
  BY <1>4 DEF Placed
<1>7. p[k - 1][2] \in DOMAIN Msg[p[k - 1][1]]
  BY <1>4, StepTyped
<1>8. FieldAt(p[k - 1]).sub \in B /\ FieldAt(p[k - 1]).sub = p[k][1]
  BY <1>4, <1>5, <1>6, <1>7 DEF Holds, Closing, FieldAt
<1> QED BY <1>3, <1>8

\* No pointer lies in a submessage of a static union.
LEMMA NothingInUnion ==
    ASSUME UnionsBare, NEW t \in Roots, NEW p \in Inner, Placed(t, p), Holder(p), NEW n \in 1 .. Len(p),
           FieldAt(p[n]).rule = "oneof", FieldAt(p[n]).alloc = "static", FieldAt(p[n]).type = "message"
    PROVE  FALSE
<1>1. /\ p \in Path /\ Len(p) \in Nat \ {0} /\ Last(p) = p[Len(p)] /\ Len(p) \in 1 .. Len(p)
      /\ FieldAt(Last(p)).alloc = "pointer"
  BY FrontLast DEF Inner, Holder
<1>2. n # Len(p)
  BY <1>1
<1>3. n \in 1 .. Len(p) - 1 /\ n + 1 \in 1 .. Len(p) /\ Len(p) \in n + 1 .. Len(p)
  BY <1>1, <1>2
<1>4. PICK M, B \in SUBSET Messages :
         /\ Closing(M) /\ Roots \subseteq M
         /\ Closing(B) /\ \A m \in B : \A i \in DOMAIN Msg[m] : Msg[m][i].alloc # "pointer"
         /\ \A m \in M : \A i \in DOMAIN Msg[m] :
              Msg[m][i].rule = "oneof" /\ Msg[m][i].alloc = "static" /\ Msg[m][i].type = "message"
                  => Msg[m][i].sub \in B
  BY DEF UnionsBare
<1>5. p[n][1] \in M /\ p[n][2] \in DOMAIN Msg[p[n][1]]
  <2> DEFINE one == 1
  <2>1. one \in 1 .. Len(p) /\ n \in one .. Len(p) /\ p[one][1] = t
    BY <1>3 DEF Placed
  <2> HIDE DEF one
  <2>2. p[n][1] \in M
    BY <1>1, <1>4, <2>1, WayStays
  <2> QED BY <1>1, <2>2, StepTyped
<1>6. FieldAt(p[n]).sub \in B
  BY <1>4, <1>5 DEF FieldAt
<1>7. Holds(p[n], p[n + 1][1])
  BY <1>3 DEF Placed
<1>8. p[n + 1][1] \in B
  BY <1>6, <1>7 DEF Holds
<1>9. p[Len(p)][1] \in B
  <2> DEFINE k == n + 1
  <2>1. k \in 1 .. Len(p) /\ p[k][1] \in B /\ Len(p) \in k .. Len(p)
    BY <1>3, <1>8
  <2> HIDE DEF k
  <2> QED BY <1>1, <1>4, <2>1, WayStays
<1>10. p[Len(p)][2] \in DOMAIN Msg[p[Len(p)][1]]
  BY <1>1, StepTyped
<1>11. FieldAt(p[Len(p)]).alloc # "pointer"
  BY <1>4, <1>9, <1>10 DEF FieldAt
<1> QED BY <1>1, <1>11

\* Nothing is forgotten where nothing is.
LEMMA ForgetsNone ==
    ASSUME NEW m, NEW o, \A p \in m.ptr : ~IsPrefix(o, p)
    PROVE  Forgets(m, o) = 0
<1>1. {p \in m.ptr : Below(o, p)} = {}
  BY DEF Below
<1> QED BY <1>1, FS_EmptySet DEF Forgets

\* The step of what lies in an item of the field being read.
LEMMA BelowItem ==
    ASSUME Calls, AtField(Top), NEW m, Sound(m), NEW j \in Nat, NEW p \in m.ptr,
           IsPrefix(Item(Top.obj, Top.msg, Top.field, j), p)
    PROVE  /\ p \in Inner /\ Placed(root, p) /\ Holder(p) /\ Standing(m, p)
           /\ Len(p) \in Nat /\ Len(Key) \in 1 .. Len(p) /\ Len(Key) = Len(Top.obj) + 1
           /\ p[Len(Key)] = <<Top.msg, Top.field, j>> /\ FieldAt(p[Len(Key)]) = Field
           /\ MemberOf(p, Len(Key)) = Key
<1> DEFINE item == Item(Top.obj, Top.msg, Top.field, j)
           n == Len(Top.obj) + 1
<1>1. /\ Top.field \in DOMAIN Msg[Top.msg] /\ Top.msg \in Messages /\ Top.obj \in Path
      /\ Key = Item(Top.obj, Top.msg, Top.field, 0) /\ Len(Key) = n
      /\ Field = Msg[Top.msg][Top.field] /\ Len(Top.obj) \in Nat
  BY AtTop, FieldHere DEF Field
<1>3. MemberOf(item, n) = Key
  BY <1>1, MemberOfLast
<1>a. /\ item \in Inner /\ Len(item) = Len(Top.obj) + 1
      /\ item[Len(Top.obj) + 1] = <<Top.msg, Top.field, j>>
  BY <1>1, Extended
<1> HIDE DEF item
<1>2. item \in Path /\ Len(item) = n /\ item[n] = <<Top.msg, Top.field, j>>
  BY <1>a DEF Inner
<1>4. /\ p \in Inner /\ p \in Path /\ Placed(root, p) /\ Holder(p) /\ Standing(m, p)
  BY PointerPlaces DEF Sound, Rooted
<1>5. Len(item) <= Len(p) /\ \A k \in 1 .. Len(item) : item[k] = p[k]
  BY <1>2, <1>4, PrefixSteps DEF item
<1>6. Len(p) \in Nat /\ n \in 1 .. Len(item) /\ n <= Len(p) /\ n \in 1 .. Len(p)
  BY <1>1, <1>2, <1>4, <1>5, PathSeq
<1>7. MemberOf(p, n) = Key /\ p[n] = <<Top.msg, Top.field, j>>
  <2>1. \A k \in 1 .. n : item[k] = p[k]
    BY <1>2, <1>5
  <2> QED BY <1>2, <1>3, <1>4, <1>6, <2>1, SameMember
<1>8. FieldAt(p[n]) = Field
  BY <1>1, <1>7 DEF FieldAt
<1> QED BY <1>1, <1>4, <1>6, <1>7, <1>8

\* A submessage of a static union is initialised, and forgets nothing.
LEMMA BeginStaticForgets ==
    ASSUME UnionsBare, Calls, Owned, BeginStatic
    PROVE  lost' = lost
<1>1. /\ Field.alloc = "static" /\ ~Array(Field) /\ AtField(Top) /\ Busy /\ ret = "none"
  BY DEF BeginStatic, Running, AtField
<1> DEFINE one == 1
           item == Item(Top.obj, Top.msg, Top.field, one)
<1>2. Field.rule \in {"required", "optional", "oneof"} /\ lost \in Nat
  BY <1>1, AtTop, FieldHere DEF FieldType, Array
<1>3. \/ lost' = lost
      \/ /\ Field.rule = "oneof" /\ Field.type = "message"
         /\ lost' = lost + Forgets(UnionReleased, item)
  BY <1>2 DEF BeginStatic, Item
<1>4. CASE /\ Field.rule = "oneof" /\ Field.type = "message"
           /\ lost' = lost + Forgets(UnionReleased, item)
  <2>1. one \in Nat /\ Sound(UnionReleased)
    BY <1>1, SoundUnion
  <2> HIDE DEF one
  <2>2. ASSUME NEW p \in UnionReleased.ptr, IsPrefix(item, p)
        PROVE  FALSE
    <3>1. /\ p \in Inner /\ Placed(root, p) /\ Holder(p)
          /\ Len(Key) \in 1 .. Len(p) /\ FieldAt(p[Len(Key)]) = Field
      BY <1>1, <2>1, <2>2, BelowItem
    <3>2. root \in Roots
      BY DEF Calls, Typed
    <3> QED BY <1>1, <1>4, <3>1, <3>2, NothingInUnion
  <2>3. Forgets(UnionReleased, item) = 0
    BY <2>2, ForgetsNone
  <2> QED BY <1>2, <1>4, <2>3
<1> QED BY <1>3, <1>4

\* What is allocated anew for a pointer had nothing below it any more.
LEMMA BeginPointerForgets ==
    ASSUME Calls, Owned, BeginPointer
    PROVE  lost' = lost
<1>1. /\ Field.alloc = "pointer" /\ ~Array(Field) /\ AtField(Top) /\ Busy /\ ret = "none"
      /\ Field.rule # "repeated"
  BY DEF BeginPointer, Running, AtField, Array
<1> DEFINE one == 1
           item == Item(Top.obj, Top.msg, Top.field, one)
<1>2. lost' = lost \/ lost' = lost + Forgets(PointerNamed, item)
  BY DEF BeginPointer, PointerNamed, PointerFree, Item, Fail
<1>3. /\ Sound(PointerNamed) /\ PointerNamed.ptr = PointerFree.ptr
      /\ Field.type = "message" /\ Key \in UnionReleased.ptr =>
            \A p \in PointerNamed.ptr : ~(Len(p) >= Len(Key) /\ MemberOf(p, Len(Key)) = Key)
      /\ ~(Field.type = "message" /\ Key \in UnionReleased.ptr) => PointerFree = UnionReleased
  BY <1>1, SoundNamed
<1>4. one \in Nat /\ one > 0 /\ lost \in Nat
  BY AtTop
<1> HIDE DEF one
<1>5. ASSUME NEW p \in PointerNamed.ptr, IsPrefix(item, p)
      PROVE  FALSE
  <2>1. /\ p \in Inner /\ Placed(root, p) /\ Holder(p) /\ Standing(PointerNamed, p)
        /\ Len(p) \in Nat /\ Len(Key) \in 1 .. Len(p) /\ FieldAt(p[Len(Key)]) = Field
        /\ p[Len(Key)] = <<Top.msg, Top.field, one>> /\ MemberOf(p, Len(Key)) = Key
    BY <1>1, <1>3, <1>4, <1>5, BelowItem
  <2>2. CASE Field.type = "message"
    <3>1. Key \in PointerNamed.ptr
      <4>1. Visits(PointerNamed, p, Len(Key))
        BY <2>1 DEF Standing
      <4>2. p[Len(Key)][3] > 0
        BY <1>4, <2>1
      <4> QED BY <1>1, <2>1, <4>1, <4>2 DEF Visits
    <3>2. Len(p) >= Len(Key)
      BY <2>1
    <3>3. ~(Key \in UnionReleased.ptr)
      BY <1>3, <1>5, <2>1, <2>2, <3>2
    <3> QED BY <1>3, <3>1, <3>3
  <2>3. CASE Field.type # "message"
    <3>1. CASE Len(p) = Len(Key)
      <4>1. Last(p) = <<Top.msg, Top.field, one>> /\ FieldAt(Last(p)) = Field
        BY <2>1, <3>1 DEF Last
      <4> QED BY <1>1, <1>4, <2>1, <4>1 DEF Holder
    <3>2. CASE Len(p) # Len(Key)
      <4>1. Len(Key) \in 1 .. Len(p) - 1
        BY <2>1, <3>2
      <4>2. Holds(p[Len(Key)], p[Len(Key) + 1][1])
        BY <2>1, <4>1 DEF Placed
      <4> QED BY <2>1, <2>3, <4>2 DEF Holds
    <3> QED BY <3>1, <3>2
  <2> QED BY <2>2, <2>3
<1>6. Forgets(PointerNamed, item) = 0
  BY <1>5, ForgetsNone
<1> QED BY <1>2, <1>4, <1>6

\* An item that was not counted yet held nothing.
LEMMA BeginItemForgets ==
    ASSUME Calls, Owned, BeginPointerItem
    PROVE  lost' = lost
<1>1. /\ Field.alloc = "pointer" /\ Array(Field) /\ AtField(Top) /\ Busy /\ ret = "none"
  BY DEF BeginPointerItem, OneByOne, Running, AtField
<1>2. Field.rule = "repeated"
  BY <1>1, AtTop, FixedStatic DEF Array, Field, AtField, FrameOK
<1> DEFINE n == Get(mem.count, Key) + 1
           item == Item(Top.obj, Top.msg, Top.field, n)
<1>3. lost' = lost \/ lost' = lost + Forgets(mem, item)
  BY DEF BeginPointerItem, Item, Fail
<1>4. n \in Nat /\ Get(mem.count, Key) < n /\ lost \in Nat
  BY <1>1, AtTop, FieldHere
<1> HIDE DEF n
<1>5. \A p \in mem.ptr : ~IsPrefix(item, p)
  BY <1>1, <1>2, <1>4, NowSound, NothingBeyond
<1>6. Forgets(mem, item) = 0
  BY <1>5, ForgetsNone
<1> QED BY <1>3, <1>4, <1>6

\* An item that pb_decode initialises was made for it.
LEMMA OpenSubmessageForgets ==
    ASSUME Calls, Owned, OpenSubmessage
    PROVE  lost' = lost
<1>1. /\ AtField(Top) /\ Busy /\ ret = "none" /\ lost \in Nat
      /\ Top.kind = "message" /\ Top.phase = "value" /\ Field.type = "message"
  BY AtTop DEF OpenSubmessage, Running, AtField
<1>2. \/ lost' = lost + 0
      \/ Field.rule = "repeated" /\ lost' = lost + Forgets(mem, ItemOf(Top))
  BY DEF OpenSubmessage
<1>3. CASE Field.rule = "repeated" /\ lost' = lost + Forgets(mem, ItemOf(Top))
  <2>1. ReadyAt(Top.obj, Top.msg, Top.field, mem)
    BY <1>1 DEF Owned, Ready
  <2>2. ItemOf(Top) = Item(Top.obj, Top.msg, Top.field, Get(mem.count, Key))
    BY <1>1, <1>3, FieldHere DEF Array
  <2>3. \A p \in mem.ptr : ~IsPrefix(ItemOf(Top), p)
    BY <1>1, <1>3, <2>1, <2>2, FieldHere DEF ReadyAt, Field, Array
  <2>4. Forgets(mem, ItemOf(Top)) = 0
    BY <2>3, ForgetsNone
  <2> QED BY <1>1, <1>3, <2>4
<1> QED BY <1>1, <1>2, <1>3

\* The struct that is initialised for a new message holds nothing.
LEMMA NewForgets ==
    ASSUME Calls, Owned, Caller \/ OpenDelimited
    PROVE  lost' = lost
<1>1. mem.ptr = {} => Cardinality(mem.ptr) = 0
  BY FS_EmptySet
<1>2. lost \in Nat
  BY AtTop
<1>3. CASE OpenDelimited
  <2>1. lost' = lost + Cardinality(mem.ptr) /\ Busy /\ Top.kind = "outer" /\ Top.phase = "value"
    BY <1>3 DEF OpenDelimited, Running
  <2>2. mem.ptr = {}
    BY <2>1 DEF Owned
  <2> QED BY <1>1, <1>2, <2>1, <2>2
<1>4. CASE Caller
  <2>1. \/ lost' = lost
        \/ lost' = lost + 0
        \/ call = "idle" /\ lost' = lost + Cardinality(mem.ptr)
    BY <1>4 DEF Caller, Decode, DecodeDelimited, DecodeNoinit, Release
  <2>2. call = "idle" => mem.ptr = {}
    BY DEF Owned
  <2> QED BY <1>1, <1>2, <2>1, <2>2
<1> QED BY <1>3, <1>4

\* No allocated block is ever forgotten by clearing what points to it, for all
\* messages whose static unions hold no submessage with a pointer: every other
\* place is released before it is initialised anew, or was never used.
THEOREM NothingForgotten ==
    ASSUME UnionsBare
    PROVE  Spec => []NothingLost
<1>1. Init => NothingLost
  BY DEF Init, NothingLost
<1>2. Calls /\ Owned /\ [Next]_vars => lost' = lost
  <2> SUFFICES ASSUME Calls, Owned, [Next]_vars
               PROVE  lost' = lost
    OBVIOUS
  <2>1. CASE UNCHANGED vars
    BY <2>1 DEF vars
  <2>2. CASE Caller \/ OpenDelimited
    BY <2>2, NewForgets
  <2>3. CASE BeginStatic \/ BeginPointer \/ BeginPointerItem \/ OpenSubmessage
    BY <2>3, BeginStaticForgets, BeginPointerForgets, BeginItemForgets, OpenSubmessageForgets
  <2>4. CASE BeginStaticItem
    BY <2>4 DEF BeginStaticItem, Fail
  <2>5. CASE \/ EndOfMessage \/ SkipField \/ OpenPacked \/ OpenCallback \/ Return \/ Finished
             \/ \E w \in Wires : UnknownField(w) \/ \E i \in DOMAIN Msg[Top.msg] : KnownField(i, w)
    BY <2>5 DEF EndOfMessage, SkipField, OpenPacked, OpenCallback, Return, Finished,
                UnknownField, KnownField, Fail
  <2>6. CASE \/ ReadScalar \/ ReadText \/ TextCut \/ Unreadable \/ PackedItem \/ PackedGrow
             \/ PackedUnreadable \/ PackedEnd \/ SkipCallback \/ CallbackScalar \/ CallbackReads
    BY <2>6 DEF ReadScalar, ReadText, TextCut, Unreadable, PackedItem, PackedGrow, Succeed,
                PackedUnreadable, PackedEnd, SkipCallback, CallbackScalar, CallbackReads, Fail
  <2> QED BY <2>1, <2>2, <2>3, <2>4, <2>5, <2>6 DEF Next, Walk
<1>3. NothingLost /\ Calls /\ Owned /\ [Next]_vars => NothingLost'
  BY <1>2 DEF NothingLost
<1> QED BY <1>1, <1>3, CallsAlways, OwnedAlways, PTL DEF Spec
-----------------------------------------------------------------------------
(***************************************************************************)
(* Fixed-count arrays.                                                     *)
(***************************************************************************)

\* The array at p is the one a message that is still open began last.
InArray(p) ==
    /\ Busy
    /\ \E d \in 1 .. depth :
          /\ frames[d].kind = "message" /\ frames[d].fixed # 0 /\ (d = depth => ret = "none")
          /\ p = Member(frames[d].obj, frames[d].msg, frames[d].fixed)

\* Every other fixed-count array is whole or empty.
Settled(m) ==
    \A p \in DOMAIN m.count :
        FieldAt(Last(p)).rule = "fixed" => m.count[p] \in {0, FieldAt(Last(p)).cap} \/ InArray(p)

\* A call at a field that is a fixed-count array began it last.
AtFixed(fr) ==
    fr.kind = "message" /\ fr.phase \in {"field", "value", "inside"}
        /\ Msg[fr.msg][fr.field].rule = "fixed" => fr.fixed = fr.field

Filling ==
    /\ (Busy /\ ret # "fail") \/ call \in {"held", "idle"} => Settled(mem)
    /\ Busy => \A d \in 1 .. depth : AtFixed(frames[d])

\* What m has of fixed-count arrays is what mem has.
Steady(m) ==
    /\ m \in Memory
    /\ \A p \in DOMAIN m.count : FieldAt(Last(p)).rule = "fixed" =>
          p \in DOMAIN mem.count /\ m.count[p] = mem.count[p]

\* The memory a call goes on from.
LEMMA SteadyNow ==
    ASSUME Calls
    PROVE  Steady(mem)
  BY AtTop DEF Steady

\* What is steady is settled.
LEMMA SteadySettled ==
    ASSUME NEW m, Steady(m), Settled(mem)
    PROVE  Settled(m)
  BY DEF Steady, Settled

\* A release of a field leaves no array half full.
LEMMA SteadyRelease ==
    ASSUME NEW m, Steady(m), NEW p
    PROVE  Steady(ReleaseField(m, p)) /\ Steady(ReleaseObject(m, p))
<1>1. ASSUME NEW ps, NEW n
      PROVE  Steady(Released(m, ps, n))
  <2> DEFINE r == Released(m, ps, n)
  <2>1. /\ r \in Memory /\ DOMAIN r.count = DOMAIN m.count
        /\ \A q \in DOMAIN m.count : FieldAt(Last(q)).rule = "fixed" => r.count[q] = m.count[q]
    BY ReleasedMem DEF Steady
  <2> HIDE DEF r
  <2>2. Steady(r)
    BY <2>1 DEF Steady
  <2> QED BY <2>2 DEF r
<1> QED BY <1>1 DEF ReleaseField, ReleaseObject

\* Nor does which_ or has_ when it is set.
LEMMA SteadyWhich ==
    ASSUME NEW m, Steady(m), NEW p \in Inner
    PROVE  Steady(Which(m, p)) /\ Steady([m EXCEPT !.has = @ \cup {p}])
<1>1. m \in Memory
  BY DEF Steady
<1> DEFINE h == [m EXCEPT !.has = @ \cup {p}]
           w == Which(m, p)
<1>2. h \in Memory /\ h.count = m.count /\ w \in Memory /\ w.count = m.count
  BY <1>1, HasMem, WhichMem
<1> HIDE DEF h, w
<1>3. Steady(h) /\ Steady(w)
  BY <1>2 DEF Steady
<1> QED BY <1>3 DEF h, w

\* Nor does what is cleared.
LEMMA SteadyCleared ==
    ASSUME NEW m, Steady(m), NEW o \in Path
    PROVE  Steady(Cleared(m, o))
<1> DEFINE c == Cleared(m, o)
<1>1. c \in Memory /\ \A p \in DOMAIN c.count : p \in DOMAIN m.count /\ c.count[p] = m.count[p]
  BY ClearedMem DEF Steady
<1> HIDE DEF c
<1>2. Steady(c)
  BY <1>1 DEF Steady
<1> QED BY <1>2 DEF c

\* Nor does a block that is allocated.
LEMMA SteadyAllocated ==
    ASSUME NEW m, Steady(m), NEW p \in Inner, NEW n \in Nat
    PROVE  Steady(Allocated(m, p, n))
<1> DEFINE a == Allocated(m, p, n)
<1>1. a \in Memory /\ a.count = m.count
  BY AllocatedMem DEF Steady
<1> HIDE DEF a
<1>2. Steady(a)
  BY <1>1 DEF Steady
<1> QED BY <1>2 DEF a

\* Nor does a message that is entered.
LEMMA SteadyEntered ==
    ASSUME NEW m, Steady(m), NEW o \in Path
    PROVE  Steady(Entered(m, o))
<1> DEFINE e == Entered(m, o)
<1>1. e \in Memory /\ e.count = m.count
  BY EnteredMem DEF Steady
<1> HIDE DEF e
<1>2. Steady(e)
  BY <1>1 DEF Steady
<1> QED BY <1>2 DEF e

\* Nor does a required field that was read.
LEMMA SteadyRead ==
    ASSUME NEW m, Steady(m), NEW o \in DOMAIN m.done, NEW i \in Nat
    PROVE  Steady(ReadAt(m, o, i))
<1> DEFINE r == ReadAt(m, o, i)
<1>1. r \in Memory /\ r.count = m.count
  BY ReadMem DEF Steady
<1> HIDE DEF r
<1>2. Steady(r)
  BY <1>1 DEF Steady
<1> QED BY <1>2 DEF r

\* An array that is counted is the one being filled.
LEMMA CountedSettled ==
    ASSUME NEW m \in Memory, Settled(m), NEW p \in Inner, NEW n \in Nat,
           FieldAt(Last(p)).rule = "fixed" => n = 0 \/ InArray(p)
    PROVE  Settled(Counted(m, p, n))
<1> DEFINE f == Put(m.count, p, n)
<1>1. Counted(m, p, n).count = f /\ m.count \in Counts
  BY CountedMem DEF Memory
<1>2. /\ DOMAIN f = DOMAIN m.count \cup {p} /\ f[p] = n
      /\ \A q \in DOMAIN m.count : q # p => f[q] = m.count[q]
  BY <1>1, PutCounts
<1> HIDE DEF f
<1>3. ASSUME NEW q \in DOMAIN f, FieldAt(Last(q)).rule = "fixed"
      PROVE  f[q] \in {0, FieldAt(Last(q)).cap} \/ InArray(q)
  <2>1. CASE q = p
    BY <1>2, <1>3, <2>1
  <2>2. CASE q # p
    BY <1>2, <1>3, <2>2 DEF Settled
  <2> QED BY <2>1, <2>2
<1> QED BY <1>1, <1>3 DEF Settled

\* The array being filled stays so as long as its call does.
LEMMA StillInArray ==
    ASSUME Calls, Busy, ret = "none", NEW fr, frames' = [frames EXCEPT ![depth] = fr],
           depth' = depth, call' = call, ret' = "none" \/ Top.kind # "message",
           fr.kind = Top.kind, fr.obj = Top.obj, fr.msg = Top.msg, fr.fixed = Top.fixed,
           NEW p, InArray(p)
    PROVE  InArray(p)'
<1>1. PICK d \in 1 .. depth :
         /\ frames[d].kind = "message" /\ frames[d].fixed # 0
         /\ p = Member(frames[d].obj, frames[d].msg, frames[d].fixed)
  BY DEF InArray
<1>2. frames \in [1 .. MaxDepth -> Frame] /\ depth \in 1 .. MaxDepth /\ MaxDepth \in Nat
  BY DecodeAssumption DEF Calls, Typed
<1>3. Busy'
  BY DEF Busy
<1>4. CASE d = depth
  <2>1. frames'[d] = fr /\ Top = frames[d] /\ ret' = "none"
    BY <1>1, <1>2, <1>4 DEF Top
  <2> QED BY <1>1, <1>3, <1>4, <2>1 DEF InArray
<1>5. CASE d # depth
  <2>1. frames'[d] = frames[d]
    BY <1>2, <1>5
  <2> QED BY <1>1, <1>3, <1>5, <2>1 DEF InArray
<1> QED BY <1>4, <1>5

\* A call that reads on.
LEMMA MovedFilling ==
    ASSUME Calls, Filling, Busy, ret = "none", NEW fr, frames' = [frames EXCEPT ![depth] = fr],
           depth' = depth, call' = call, ret' \in {"none", "ok"},
           ret' = "none" \/ Top.kind # "message",
           fr.kind = Top.kind, fr.obj = Top.obj, fr.msg = Top.msg, fr.fixed = Top.fixed,
           AtFixed(fr), Settled(mem')
    PROVE  Filling'
<1>1. frames \in [1 .. MaxDepth -> Frame] /\ depth \in 1 .. MaxDepth /\ MaxDepth \in Nat
  BY DecodeAssumption DEF Calls, Typed
<1>2. Busy' /\ call' # "held"
  BY DEF Busy
<1>3. \A p : InArray(p) => InArray(p)'
  BY StillInArray
<1>4. Settled(mem)'
  BY <1>3 DEF Settled
<1>5. \A d \in 1 .. depth : AtFixed(frames'[d])
  <2> SUFFICES ASSUME NEW d \in 1 .. depth
               PROVE  AtFixed(frames'[d])
    OBVIOUS
  <2>1. frames'[d] = IF d = depth THEN fr ELSE frames[d]
    BY <1>1
  <2> QED BY <2>1 DEF Filling
<1>6. (\A d \in 1 .. depth : AtFixed(frames[d]))'
  BY <1>5 DEF AtFixed
<1> QED BY <1>4, <1>6 DEF Filling

\* A call that stays with its field.
LEMMA StayFilling ==
    ASSUME Calls, Filling, Busy, ret = "none", NEW fr, NEW m, Stay(fr, m), Settled(m),
           fr.kind = Top.kind, fr.obj = Top.obj, fr.msg = Top.msg, fr.fixed = Top.fixed,
           AtFixed(fr)
    PROVE  Filling'
<1>1. /\ frames' = [frames EXCEPT ![depth] = fr] /\ depth' = depth /\ call' = call
      /\ ret' = "none" /\ mem' = m
  BY DEF Stay
<1> QED BY <1>1, MovedFilling

\* The memory a call goes on from.
LEMMA NowSettled ==
    ASSUME Calls, Filling, Busy, ret # "fail"
    PROVE  Settled(mem) /\ Steady(mem) /\ AtFixed(Top)
  BY SteadyNow DEF Filling, Calls, Typed, Top

\* One that goes on to the next tag.
LEMMA TagFilling ==
    ASSUME Calls, Filling, Busy, ret = "none", Top.kind = "message",
           NEW n \in Nat, n <= Top.left, NEW m, Stay(NextTag(Took(Top, n)), m), Steady(m)
    PROVE  Filling'
<1> DEFINE t == Took(Top, n)
           fr == NextTag(t)
<1>1. t \in Frame /\ Like(t, Top) /\ t.fixed = Top.fixed
  BY AtTop, TookFields
<1>2. Like(fr, t) /\ fr.phase = "tag" /\ fr.fixed = t.fixed
  BY <1>1, NextTagFields
<1>3. Stay(fr, m)
  OBVIOUS
<1> HIDE DEF t, fr
<1>4. fr.kind = Top.kind /\ fr.obj = Top.obj /\ fr.msg = Top.msg /\ fr.fixed = Top.fixed
  BY <1>1, <1>2 DEF Like
<1>5. AtFixed(fr)
  BY <1>2 DEF AtFixed
<1>6. Settled(m)
  BY NowSettled, SteadySettled
<1> QED BY <1>3, <1>4, <1>5, <1>6, StayFilling

\* One that goes on to a value.
LEMMA ToValueFilling ==
    ASSUME Calls, Filling, Running("message", "field"), NEW m, Settled(m), ToValue(m)
    PROVE  Filling'
<1> DEFINE fr == [Top EXCEPT !.phase = "value"]
<1>1. /\ fr.kind = Top.kind /\ fr.obj = Top.obj /\ fr.msg = Top.msg /\ fr.fixed = Top.fixed
      /\ fr.field = Top.field /\ Stay(fr, m)
  BY AtTop DEF Frame, ToValue
<1>2. Busy /\ ret = "none" /\ Top.kind = "message" /\ Top.phase = "field" /\ AtFixed(Top)
  BY NowSettled DEF Running
<1> HIDE DEF fr
<1>3. AtFixed(fr)
  BY <1>1, <1>2 DEF AtFixed
<1> QED BY <1>1, <1>2, <1>3, StayFilling

\* A call that fails promises nothing.
LEMMA FailFilling ==
    ASSUME Calls, Filling, Busy, NEW m, Fail(m)
    PROVE  Filling'
<1>1. /\ ret' = "fail" /\ call' \notin {"held", "idle"} /\ frames' = frames /\ depth' = depth
  BY DEF Fail, Busy
<1> QED BY <1>1 DEF Filling, AtFixed, Fail

\* A call that calls another.
LEMMA PushFilling ==
    ASSUME Calls, Filling, Busy, ret = "none", Top.phase \in {"field", "value"} \/ Top.kind = "outer",
           NEW n \in Nat, 1 + n <= Top.left, NEW child, Push(GaveUp(n), child),
           child.kind # "message" \/ child.phase = "tag", Settled(mem')
    PROVE  Filling'
<1> DEFINE fr == GaveUp(n)
<1>1. /\ fr.kind = Top.kind /\ fr.obj = Top.obj /\ fr.msg = Top.msg
      /\ fr.fixed = Top.fixed /\ fr.field = Top.field
  BY GaveUpFields DEF Like
<1>2. /\ depth' = depth + 1 /\ depth < MaxDepth /\ ret' = "none" /\ call' = call
      /\ frames' = [frames EXCEPT ![depth] = fr, ![depth + 1] = child]
  BY DEF Push
<1> HIDE DEF fr
<1>3. /\ frames \in [1 .. MaxDepth -> Frame] /\ depth \in 1 .. MaxDepth /\ MaxDepth \in Nat
      /\ Busy' /\ call' # "held"
  BY <1>2, DecodeAssumption DEF Calls, Typed, Busy
<1>4. \A d \in 1 .. depth + 1 :
         frames'[d] = IF d = depth + 1 THEN child ELSE IF d = depth THEN fr ELSE frames[d]
  BY <1>2, <1>3
<1>5. ASSUME NEW p, InArray(p)
      PROVE  InArray(p)'
  <2>1. PICK d \in 1 .. depth :
           /\ frames[d].kind = "message" /\ frames[d].fixed # 0
           /\ p = Member(frames[d].obj, frames[d].msg, frames[d].fixed)
    BY <1>5 DEF InArray
  <2>2. /\ frames'[d].kind = frames[d].kind /\ frames'[d].fixed = frames[d].fixed
        /\ frames'[d].obj = frames[d].obj /\ frames'[d].msg = frames[d].msg
    <3>1. CASE d = depth
      <4>1. frames'[d] = fr /\ Top = frames[d]
        BY <1>3, <1>4, <3>1 DEF Top
      <4> QED BY <1>1, <4>1
    <3>2. CASE d # depth
      BY <1>3, <1>4, <3>2
    <3> QED BY <3>1, <3>2
  <2>3. d \in 1 .. depth'
    BY <1>2, <1>3
  <2> QED BY <1>2, <1>3, <2>1, <2>2, <2>3 DEF InArray
<1>6. Settled(mem)'
  BY <1>5 DEF Settled
<1>7. AtFixed(fr)
  <2>1. AtFixed(Top)
    BY NowSettled
  <2> QED BY <1>1, <2>1 DEF AtFixed
<1>8. AtFixed(child)
  BY DEF AtFixed
<1>9. \A d \in 1 .. depth' : AtFixed(frames'[d])
  BY <1>2, <1>3, <1>4, <1>7, <1>8 DEF Filling
<1>10. (\A d \in 1 .. depth : AtFixed(frames[d]))'
  BY <1>9 DEF AtFixed
<1> QED BY <1>6, <1>10 DEF Filling
\* An array that a message further down is filling.
InBelow(p) ==
    \E d \in 1 .. depth :
        /\ d < depth /\ frames[d].kind = "message" /\ frames[d].fixed # 0
        /\ p = Member(frames[d].obj, frames[d].msg, frames[d].fixed)

\* It is whatever the innermost call does.
LEMMA BelowStill ==
    ASSUME Calls, Busy, NEW fr, frames' = [frames EXCEPT ![depth] = fr],
           depth' = depth, call' = call, NEW p, InBelow(p)
    PROVE  InArray(p)'
<1>1. PICK d \in 1 .. depth :
         /\ d < depth /\ frames[d].kind = "message" /\ frames[d].fixed # 0
         /\ p = Member(frames[d].obj, frames[d].msg, frames[d].fixed)
  BY DEF InBelow
<1>2. frames \in [1 .. MaxDepth -> Frame] /\ depth \in 1 .. MaxDepth /\ MaxDepth \in Nat
  BY DecodeAssumption DEF Calls, Typed
<1>3. Busy' /\ frames'[d] = frames[d] /\ d # depth
  BY <1>1, <1>2 DEF Busy
<1> QED BY <1>1, <1>3 DEF InArray

\* Short: the array that the innermost message began last is whole.
LEMMA WholeAtTop ==
    ASSUME Calls, Filling, Busy, ret = "none", Top.kind = "message", ~Short(Top),
           NEW p \in DOMAIN mem.count, FieldAt(Last(p)).rule = "fixed"
    PROVE  mem.count[p] \in {0, FieldAt(Last(p)).cap} \/ InBelow(p)
<1>1. mem.count[p] \in {0, FieldAt(Last(p)).cap} \/ InArray(p)
  BY NowSettled DEF Settled
<1>2. CASE InArray(p)
  <2>1. PICK d \in 1 .. depth :
           /\ frames[d].kind = "message" /\ frames[d].fixed # 0
           /\ p = Member(frames[d].obj, frames[d].msg, frames[d].fixed)
    BY <1>2 DEF InArray
  <2>2. depth \in Nat
    BY DecodeAssumption DEF Calls, Typed
  <2>3. CASE d = depth
    <3> DEFINE i == Top.fixed
               o == Top.obj
               m == Top.msg
    <3>1. frames[d] = Top
      BY <2>3 DEF Top
    <3>2. i \in DOMAIN Msg[m] /\ o \in Path /\ m \in Messages /\ i # 0
      BY <2>1, <3>1, AtTop DEF FrameOK
    <3>3. p = Item(o, m, i, 0) /\ p = Member(o, m, i)
      BY <2>1, <3>1 DEF Member, Item
    <3>4. Get(mem.count, Member(o, m, i)) = Msg[m][i].cap
      BY <3>2 DEF Short
    <3> HIDE DEF o, m, i
    <3>5. 0 \in Nat
      OBVIOUS
    <3>6. Last(p) = <<m, i, 0>>
      BY <3>2, <3>3, <3>5, Extended
    <3>7. FieldAt(Last(p)).cap = Msg[m][i].cap
      BY <3>6 DEF FieldAt
    <3> QED BY <3>3, <3>4, <3>7 DEF Get
  <2>4. CASE d # depth
    <3>1. d < depth
      BY <2>2, <2>4
    <3> QED BY <2>1, <3>1 DEF InBelow
  <2> QED BY <2>3, <2>4
<1> QED BY <1>1, <1>2

\* The innermost call, when what it began last is whole.
LEMMA RenewedFilling ==
    ASSUME Calls, Filling, Busy, ret = "none", Top.kind = "message", ~Short(Top),
           NEW fr, frames' = [frames EXCEPT ![depth] = fr], depth' = depth, call' = call,
           AtFixed(fr), NEW m, mem' = m,
           \A p \in DOMAIN m.count : FieldAt(Last(p)).rule = "fixed" =>
               m.count[p] = 0 \/ (p \in DOMAIN mem.count /\ m.count[p] = mem.count[p])
    PROVE  Filling'
<1>1. frames \in [1 .. MaxDepth -> Frame] /\ depth \in 1 .. MaxDepth /\ MaxDepth \in Nat
  BY DecodeAssumption DEF Calls, Typed
<1>2. Busy' /\ call' # "held"
  BY DEF Busy
<1>3. ASSUME NEW p \in DOMAIN m.count, FieldAt(Last(p)).rule = "fixed"
      PROVE  m.count[p] \in {0, FieldAt(Last(p)).cap} \/ InArray(p)'
  <2>1. CASE m.count[p] = 0
    BY <2>1
  <2>2. CASE p \in DOMAIN mem.count /\ m.count[p] = mem.count[p]
    <3>1. mem.count[p] \in {0, FieldAt(Last(p)).cap} \/ InBelow(p)
      BY <1>3, <2>2, WholeAtTop
    <3>2. InBelow(p) => InArray(p)'
      BY BelowStill
    <3> QED BY <2>2, <3>1, <3>2
  <2> QED BY <1>3, <2>1, <2>2
<1>4. Settled(mem)'
  BY <1>3 DEF Settled
<1>5. \A d \in 1 .. depth : AtFixed(frames'[d])
  <2> SUFFICES ASSUME NEW d \in 1 .. depth
               PROVE  AtFixed(frames'[d])
    OBVIOUS
  <2>1. frames'[d] = IF d = depth THEN fr ELSE frames[d]
    BY <1>1
  <2> QED BY <2>1 DEF Filling
<1>6. (\A d \in 1 .. depth : AtFixed(frames[d]))'
  BY <1>5 DEF AtFixed
<1> QED BY <1>4, <1>6 DEF Filling

\* A message ends only when its array is whole.
LEMMA EndOfMessageFilling ==
    ASSUME Calls, Filling, EndOfMessage
    PROVE  Filling'
<1>1. Busy /\ ret = "none" /\ Top.kind = "message" /\ Top.phase = "tag"
  BY DEF EndOfMessage, Running
<1>2. CASE Fail(mem)
  BY <1>1, <1>2, FailFilling
<1>3. CASE ~Fail(mem)
  <2>1. /\ ~Short(Top) /\ UNCHANGED <<depth, call, mem>>
        /\ \E n \in {0, 1} : /\ n = 0 <=> Top.left = 0
                             /\ frames' = [frames EXCEPT ![depth] = Took(Top, n)]
    BY <1>3 DEF EndOfMessage
  <2>2. PICK n \in {0, 1} : /\ n = 0 <=> Top.left = 0
                            /\ frames' = [frames EXCEPT ![depth] = Took(Top, n)]
    BY <2>1
  <2>3. n \in Nat /\ n <= Top.left
    BY <2>2, AtTop
  <2>4. Took(Top, n).phase = Top.phase
    BY <2>3, AtTop, TookFields
  <2>5. AtFixed(Took(Top, n))
    BY <1>1, <2>4 DEF AtFixed
  <2> QED BY <1>1, <2>1, <2>2, <2>5, RenewedFilling
<1> QED BY <1>2, <1>3

\* A fixed-count array begins only when the one before is whole.
LEMMA KnownFieldFilling ==
    ASSUME Calls, Filling, NEW w \in Wires, NEW i \in DOMAIN Msg[Top.msg], KnownField(i, w)
    PROVE  Filling'
<1>1. Busy /\ ret = "none" /\ Top.kind = "message" /\ Top.phase = "tag" /\ Top.left > 0
  BY DEF KnownField, Running
<1> DEFINE f == Msg[Top.msg][i]
           fresh == f.rule = "fixed" /\ Top.fixed # i
           t == Took(Top, 1)
           wire == IF Looks(f) THEN w ELSE t.wire
           fixed == IF fresh THEN i ELSE t.fixed
           seen == IF i \in Checked(Top.msg) THEN t.seen \cup {i} ELSE t.seen
           fr == [t EXCEPT !.phase = "field", !.field = i, !.wire = wire,
                           !.fixed = fixed, !.seen = seen]
           m == IF fresh THEN Counted(mem, Member(Top.obj, Top.msg, i), 0) ELSE mem
<1>2. 1 <= Top.left /\ 1 \in Nat /\ i \in Nat /\ Top.msg \in Messages
  BY <1>1, AtTop, FieldTyped
<1>3. t \in Frame /\ Like(t, Top) /\ t.fixed = Top.fixed
  BY <1>2, AtTop, TookFields
<1>4. IF fresh /\ Short(Top) THEN Fail(mem) ELSE Stay(fr, m)
  BY DEF KnownField
<1> HIDE DEF t, wire, seen
<1>5. /\ fr.kind = t.kind /\ fr.obj = t.obj /\ fr.msg = t.msg /\ fr.fixed = fixed
      /\ fr.field = i
  BY <1>3 DEF Frame
<1> HIDE DEF fr
<1>6. fr.kind = Top.kind /\ fr.obj = Top.obj /\ fr.msg = Top.msg
  BY <1>3, <1>5 DEF Like
<1>7. AtFixed(fr)
  BY <1>3, <1>5, <1>6 DEF AtFixed
<1>8. CASE fresh /\ Short(Top)
  BY <1>1, <1>4, <1>8, FailFilling
<1>9. CASE ~fresh
  <2>1. Stay(fr, mem) /\ fr.fixed = Top.fixed
    BY <1>3, <1>4, <1>5, <1>9
  <2> QED BY <1>1, <1>6, <1>7, <2>1, NowSettled, StayFilling
<1>10. CASE fresh /\ ~Short(Top)
  <2> DEFINE z == 0
             p == Member(Top.obj, Top.msg, i)
             c == Counted(mem, p, z)
             g == Put(mem.count, p, z)
  <2>1. Stay(fr, c)
    BY <1>4, <1>10
  <2>2. p = Item(Top.obj, Top.msg, i, z) /\ z \in Nat /\ z = 0
    BY DEF Member, Item
  <2> HIDE DEF z
  <2>3. p \in Inner /\ mem \in Memory /\ mem.count \in Counts
    BY <1>2, <2>2, AtTop, Extended DEF Memory
  <2> HIDE DEF p
  <2>0. z \in Nat /\ p \in Inner /\ mem \in Memory /\ mem.count \in Counts
    BY <2>2, <2>3
  <2>4. c.count = g
    BY <2>0, CountedMem
  <2>5. /\ DOMAIN g = DOMAIN mem.count \cup {p} /\ g[p] = z
        /\ \A q \in DOMAIN mem.count : q # p => g[q] = mem.count[q]
    BY <2>0, PutCounts
  <2> HIDE DEF c, g
  <2>6. \A q \in DOMAIN c.count : c.count[q] = 0 \/
             (q \in DOMAIN mem.count /\ c.count[q] = mem.count[q])
    BY <2>2, <2>4, <2>5
  <2>7. /\ frames' = [frames EXCEPT ![depth] = fr] /\ depth' = depth /\ call' = call
        /\ mem' = c
    BY <2>1 DEF Stay
  <2> QED BY <1>1, <1>7, <1>10, <2>6, <2>7, RenewedFilling
<1> QED BY <1>8, <1>9, <1>10

\* The tag of a field the message does not have fills nothing.
LEMMA UnknownFieldFilling ==
    ASSUME Calls, Filling, NEW w \in Wires, UnknownField(w)
    PROVE  Filling'
<1> DEFINE t == Took(Top, 1)
           fr == [t EXCEPT !.phase = "skip", !.wire = w]
<1>1. Busy /\ ret = "none" /\ Top.kind = "message" /\ Top.left > 0 /\ Stay(fr, mem)
  BY DEF UnknownField, Running
<1>2. 1 \in Nat /\ 1 <= Top.left
  BY <1>1, AtTop
<1>3. t \in Frame /\ Like(t, Top) /\ t.fixed = Top.fixed
  BY <1>2, AtTop, TookFields
<1> HIDE DEF t
<1>4. /\ fr.kind = t.kind /\ fr.obj = t.obj /\ fr.msg = t.msg /\ fr.fixed = t.fixed
      /\ fr.phase = "skip"
  BY <1>3 DEF Frame
<1> HIDE DEF fr
<1>5. AtFixed(fr)
  BY <1>4 DEF AtFixed
<1> QED BY <1>1, <1>3, <1>4, <1>5, NowSettled, StayFilling DEF Like

\* Nor does the field itself.
LEMMA SkipFieldFilling ==
    ASSUME Calls, Filling, SkipField
    PROVE  Filling'
<1>1. Busy /\ ret = "none" /\ Top.kind = "message"
  BY DEF SkipField, Running
<1>2. PICK n \in SkipLens(Top.wire) : n <= Top.left /\ Stay(NextTag(Took(Top, n)), mem)
  BY DEF SkipField
<1> QED BY <1>1, <1>2, SkipLensNat, SteadyNow, TagFilling

\* Nor does that of a union's other member.
LEMMA SteadyUnion ==
    ASSUME Calls
    PROVE  Steady(UnionReleased)
  BY SteadyNow, SteadyRelease DEF UnionReleased

\* A static field that is no array fills none.
LEMMA BeginStaticFilling ==
    ASSUME Calls, Filling, BeginStatic
    PROVE  Filling'
<1>1. /\ Running("message", "field") /\ ~Array(Field) /\ AtField(Top) /\ Busy /\ ret = "none"
  BY DEF BeginStatic, Running, AtField
<1> DEFINE item == Append(Top.obj, <<Top.msg, Top.field, 1>>)
<1>2. item \in Path /\ Key \in Inner
  BY <1>1, ItemThere, FieldHere
<1>3. Field.rule \in {"required", "optional", "oneof"}
  BY <1>1, FieldHere DEF FieldType, Array
<1>4. \/ ToValue(UnionReleased) \/ ToValue([UnionReleased EXCEPT !.has = @ \cup {Key}])
      \/ ToValue(Cleared(Which(UnionReleased, Key), item)) \/ ToValue(Which(UnionReleased, Key))
  BY <1>3 DEF BeginStatic
<1>5. /\ Steady(UnionReleased) /\ Steady([UnionReleased EXCEPT !.has = @ \cup {Key}])
      /\ Steady(Which(UnionReleased, Key))
  BY <1>2, SteadyUnion, SteadyWhich
<1> HIDE DEF item
<1>6. Steady(Cleared(Which(UnionReleased, Key), item))
  BY <1>2, <1>5, SteadyCleared
<1>7. \A m : Steady(m) => Settled(m)
  BY <1>1, NowSettled, SteadySettled
<1> QED BY <1>1, <1>4, <1>5, <1>6, <1>7, ToValueFilling

\* Nor does a pointer field that is none.
LEMMA BeginPointerFilling ==
    ASSUME Calls, Filling, BeginPointer
    PROVE  Filling'
<1>1. /\ Running("message", "field") /\ ~Array(Field) /\ AtField(Top) /\ Busy /\ ret = "none"
  BY DEF BeginPointer, Running, AtField
<1> DEFINE item == Append(Top.obj, <<Top.msg, Top.field, 1>>)
<1>2. item \in Path /\ Key \in Inner
  BY <1>1, ItemThere, FieldHere
<1>3. \/ ToValue(PointerNamed)
      \/ ToValue(Cleared(Allocated(PointerNamed, Key, 1), item))
      \/ Fail(PointerNamed)
  BY DEF BeginPointer, PointerNamed, PointerFree
<1> HIDE DEF item
<1>4. Steady(PointerFree)
  BY SteadyUnion, SteadyRelease DEF PointerFree
<1>5. Steady(PointerNamed)
  BY <1>2, <1>4, SteadyWhich DEF PointerNamed
<1>6. Steady(Allocated(PointerNamed, Key, 1))
  <2>1. 1 \in Nat
    OBVIOUS
  <2> QED BY <1>2, <1>5, <2>1, SteadyAllocated
<1>7. Steady(Cleared(Allocated(PointerNamed, Key, 1), item))
  BY <1>2, <1>6, SteadyCleared
<1>8. \A m : Steady(m) => Settled(m)
  BY <1>1, NowSettled, SteadySettled
<1> QED BY <1>1, <1>3, <1>5, <1>7, <1>8, ToValueFilling, FailFilling

\* The field at Top is the array that its message began last.
LEMMA FixedHere ==
    ASSUME Calls, Filling, Busy, ret = "none", Top.kind = "message",
           Top.phase \in {"field", "value", "inside"}, Field.rule = "fixed"
    PROVE  InArray(Key)
<1>1. Top.fixed = Top.field
  BY NowSettled DEF AtFixed, Field
<1>2. Top.field \in DOMAIN Msg[Top.msg] /\ Top.msg \in Messages
  BY AtTop, FieldHere DEF AtField
<1>3. Top.field # 0
  BY <1>2, FieldTyped
<1>4. depth \in 1 .. depth /\ frames[depth] = Top
  BY DecodeAssumption DEF Calls, Typed, Top
<1> QED BY <1>1, <1>3, <1>4 DEF InArray, Key

\* An item of a static array is counted in the array being filled.
LEMMA BeginStaticItemFilling ==
    ASSUME Calls, Filling, BeginStaticItem
    PROVE  Filling'
<1>1. /\ Running("message", "field") /\ AtField(Top) /\ Busy /\ ret = "none"
      /\ Top.kind = "message" /\ Top.phase = "field"
  BY DEF BeginStaticItem, OneByOne, Running, AtField
<1> DEFINE n == Get(mem.count, Key) + 1
           more == Counted(mem, Key, n)
<1>2. Fail(more) \/ ToValue(more)
  BY DEF BeginStaticItem
<1>3. n \in Nat /\ Key \in Inner /\ FieldAt(Last(Key)) = Field /\ mem \in Memory
  BY <1>1, AtTop, FieldHere
<1> HIDE DEF n
<1>4. FieldAt(Last(Key)).rule = "fixed" => InArray(Key)
  BY <1>1, <1>3, FixedHere
<1>5. Settled(more)
  BY <1>1, <1>3, <1>4, NowSettled, CountedSettled
<1> HIDE DEF more
<1> QED BY <1>1, <1>2, <1>5, FailFilling, ToValueFilling

\* So is an item of an array of pointers.
LEMMA BeginPointerItemFilling ==
    ASSUME Calls, Filling, BeginPointerItem
    PROVE  Filling'
<1>1. /\ Running("message", "field") /\ Field.alloc = "pointer" /\ AtField(Top)
      /\ Busy /\ ret = "none" /\ Top.kind = "message" /\ Top.phase = "field"
  BY DEF BeginPointerItem, OneByOne, Running, AtField
<1> DEFINE n == Get(mem.count, Key) + 1
           more == Counted(mem, Key, n)
           item == Append(Top.obj, <<Top.msg, Top.field, n>>)
<1>2. n \in Nat /\ Key \in Inner /\ FieldAt(Last(Key)) = Field /\ mem \in Memory
  BY <1>1, AtTop, FieldHere
<1>3. Fail(mem) \/ Fail(more) \/ ToValue(Cleared(Allocated(more, Key, n), item))
  BY DEF BeginPointerItem
<1> HIDE DEF n
<1>4. item \in Path
  BY <1>1, <1>2, ItemThere
<1>5. Field.rule # "fixed"
  <2>1. Top.field \in DOMAIN Msg[Top.msg] /\ Top.msg \in Messages
    BY <1>1, AtTop, FieldHere
  <2> QED BY <1>1, <2>1, FixedStatic DEF Field
<1>6. Settled(more) /\ more \in Memory
  BY <1>1, <1>2, <1>5, NowSettled, CountedSettled, CountedMem
<1> HIDE DEF more, item
<1> DEFINE a == Allocated(more, Key, n)
           c == Cleared(a, item)
<1>7. a \in Memory /\ a.count = more.count
  BY <1>2, <1>6, AllocatedMem
<1> HIDE DEF a
<1>8. \A p \in DOMAIN c.count : p \in DOMAIN a.count /\ c.count[p] = a.count[p]
  BY <1>4, <1>7, ClearedMem
<1>9. ToValue(c) \/ Fail(mem) \/ Fail(more)
  BY <1>3 DEF a
<1> HIDE DEF c
<1>10. Settled(c)
  BY <1>6, <1>7, <1>8 DEF Settled
<1> QED BY <1>1, <1>9, <1>10, FailFilling, ToValueFilling
\* A value that was read goes on to the next tag.
LEMMA ReadDoneFilling ==
    ASSUME Calls, Filling, Running("message", "value"), NEW n \in Nat, n <= Top.left,
           NEW m, Kept(m), Steady(m), ReadDone(Took(Top, n), m)
    PROVE  Filling'
<1>1. Busy /\ ret = "none" /\ Top.kind = "message" /\ AtField(Top)
  BY DEF Running, AtField
<1> DEFINE t == Took(Top, n)
           d == ReadAt(m, t.obj, t.field)
<1>2. t.obj = Top.obj /\ t.field = Top.field
  BY AtTop, TookFields DEF Like
<1>3. Top.obj \in DOMAIN m.done /\ Top.field \in Nat
  <2>1. Top.obj \in DOMAIN mem.done
    BY <1>1 DEF Calls, Typed, EnteredAll, Top
  <2> QED BY <2>1, AtTop DEF Kept, Frame
<1>4. Stay(NextTag(t), d) \/ Stay(NextTag(t), m)
  BY DEF ReadDone, ReadAt
<1>5. d = ReadAt(m, Top.obj, Top.field)
  BY <1>2
<1> HIDE DEF d
<1>6. Steady(d)
  BY <1>3, <1>5, SteadyRead
<1> QED BY <1>1, <1>4, <1>6, TagFilling

\* So does a scalar.
LEMMA ReadScalarFilling ==
    ASSUME Calls, Filling, ReadScalar
    PROVE  Filling'
<1>1. Running("message", "value") /\ AtField(Top)
  BY DEF ReadScalar, Running, AtField
<1>2. PICK n \in ScalarLens(Field) : n <= Top.left /\ ReadDone(Took(Top, n), mem)
  BY DEF ReadScalar
<1>3. n \in Nat
  BY <1>1, LensNat
<1> QED BY <1>1, <1>2, <1>3, AtTop, SteadyNow, ReadDoneFilling

\* So does a text.
LEMMA ReadTextFilling ==
    ASSUME Calls, Filling, ReadText
    PROVE  Filling'
<1>1. Running("message", "value") /\ AtField(Top)
  BY DEF ReadText, Running, AtField
<1>2. PICK n \in Lengths : 1 + n <= Top.left /\ ReadDone(Took(Top, 1 + n), WithText)
  BY DEF ReadText
<1>3. n \in Nat /\ 1 + n \in Nat
  BY <1>1, LensNat
<1>4. Kept(WithText) /\ Steady(WithText)
  <2>1. Kept(WithText) /\ TextSlot \in Inner /\ 1 \in Nat
    BY <1>1, KeptText
  <2> QED BY <2>1, SteadyNow, SteadyAllocated DEF WithText
<1> QED BY <1>1, <1>2, <1>3, <1>4, ReadDoneFilling

\* What fails promises nothing of its arrays.
LEMMA FailsFilling ==
    ASSUME Calls, Filling, TextCut \/ Unreadable \/ PackedUnreadable
    PROVE  Filling'
<1>1. Busy /\ (Fail(mem) \/ Fail(WithText))
  BY DEF TextCut, Unreadable, Reading, PackedUnreadable, Running
<1> QED BY <1>1, FailFilling

\* A submessage begins with the arrays the item had, or with none.
LEMMA OpenSubmessageFilling ==
    ASSUME Calls, Filling, OpenSubmessage
    PROVE  Filling'
<1>1. /\ Running("message", "value") /\ AtField(Top) /\ Busy /\ ret = "none"
      /\ Top.kind = "message" /\ Top.phase = "value"
  BY DEF OpenSubmessage, Running, AtField
<1> DEFINE item == ItemOf(Top)
           owns == Field.rule = "repeated"
           m == Entered(IF owns THEN Cleared(mem, item) ELSE mem, item)
           child(n) == Substream("message", Field.sub, item, owns, n)
<1>2. PICK n \in Lengths : 1 + n <= Top.left /\ Push(GaveUp(n), child(n)) /\ mem' = m
  BY DEF OpenSubmessage
<1>3. n \in Nat
  BY <1>1, LensNat
<1>4. child(n).kind = "message" /\ child(n).phase = "tag"
  BY DEF Substream, Stream
<1>5. item \in Path
  <2> DEFINE j == IF Array(Field) THEN Get(mem.count, Key) ELSE 1
  <2>1. j \in Nat /\ item = Item(Top.obj, Top.msg, Top.field, j)
    BY <1>1, FieldHere
  <2> HIDE DEF j
  <2> QED BY <1>1, <2>1, ItemThere
<1> HIDE DEF item, owns, child
<1>6. Steady(m)
  BY <1>5, SteadyNow, SteadyCleared, SteadyEntered
<1> HIDE DEF m
<1>7. Settled(mem')
  BY <1>1, <1>2, <1>6, NowSettled, SteadySettled
<1> QED BY <1>1, <1>2, <1>3, <1>4, <1>7, PushFilling

\* A packed array is filled for the message it is in.
LEMMA OpenPackedFilling ==
    ASSUME Calls, Filling, OpenPacked
    PROVE  Filling'
<1>1. /\ Running("message", "field") /\ AtField(Top) /\ Busy /\ ret = "none" /\ mem' = mem
      /\ Top.phase = "field"
  BY DEF OpenPacked, Running, AtField
<1> DEFINE owns == FALSE
           s(n) == Substream("packed", Top.msg, Top.obj, owns, n)
           room == Get(mem.count, Key)
           child(n) == [s(n) EXCEPT !.field = Top.field, !.room = room]
<1>2. PICK n \in Lengths : 1 + n <= Top.left /\ Push(GaveUp(n), child(n))
  BY DEF OpenPacked
<1>3. child(n).kind = "packed"
  BY DEF Substream, Stream
<1>4. n \in Nat
  BY <1>1, LensNat
<1> HIDE DEF child
<1> QED BY <1>1, <1>2, <1>3, <1>4, NowSettled, PushFilling

\* A message of pb_decode_delimited begins with no arrays.
LEMMA OpenDelimitedFilling ==
    ASSUME Calls, Filling, OpenDelimited
    PROVE  Filling'
<1> DEFINE child(n) == Substream("message", Top.msg, <<>>, TRUE, n)
<1>1. PICK n \in Lengths : 1 + n <= Top.left /\ Push(GaveUp(n), child(n))
  BY DEF OpenDelimited
<1>2. child(n).kind = "message" /\ child(n).phase = "tag"
  BY DEF Substream, Stream
<1>3. n \in Nat /\ Busy /\ ret = "none" /\ Top.kind = "outer" /\ mem' = Entered(Nothing, <<>>)
  BY DecodeAssumption DEF OpenDelimited, Running
<1>4. DOMAIN mem'.count = {}
  BY <1>3, NothingMem, NewMem, EnteredMem
<1>5. Settled(mem')
  BY <1>4 DEF Settled
<1> HIDE DEF child
<1> QED BY <1>1, <1>2, <1>3, <1>5, PushFilling

\* The stream of a callback fills none.
LEMMA OpenCallbackFilling ==
    ASSUME Calls, Filling, OpenCallback
    PROVE  Filling'
<1>1. /\ Running("message", "field") /\ AtField(Top) /\ Busy /\ ret = "none" /\ mem' = mem
      /\ Top.phase = "field"
  BY DEF OpenCallback, AtCallback, Running, AtField
<1> DEFINE child(n) == Substream("callback", Top.msg, Top.obj, FALSE, n)
<1>2. PICK n \in Lengths : 1 + n <= Top.left /\ Push(GaveUp(n), child(n))
  BY DEF OpenCallback
<1>3. child(n).kind = "callback"
  BY DEF Substream, Stream
<1>4. n \in Nat
  BY <1>1, LensNat
<1> HIDE DEF child
<1> QED BY <1>1, <1>2, <1>3, <1>4, NowSettled, PushFilling

\* A packed array is the one of the message below.
LEMMA PackedFixed ==
    ASSUME Calls, Filling, Busy, ret = "none", Top.kind = "packed", Field.rule = "fixed"
    PROVE  InArray(Key)
<1>1. depth > 1
  BY DecodeAssumption DEF Calls, Bottom, Typed, Top
<1>2. /\ Parent = frames[depth - 1] /\ FrameOK(Parent) /\ Parent.phase = "inside"
      /\ Link(Parent, Top) /\ Parent.msg \in Messages
  BY <1>1, ClosedFields
<1>3. /\ Parent.kind = "message" /\ Parent.obj = Top.obj /\ Parent.msg = Top.msg
      /\ Parent.field = Top.field
  BY <1>2 DEF Link
<1>4. depth - 1 \in 1 .. depth /\ depth - 1 # depth
  BY <1>1, DecodeAssumption DEF Calls, Typed
<1>5. Parent.fixed = Parent.field
  BY <1>2, <1>3, <1>4 DEF Filling, AtFixed, Field
<1>6. Parent.field # 0
  <2>1. Parent.field \in DOMAIN Msg[Parent.msg]
    BY <1>2, <1>3 DEF FrameOK, AtField
  <2> QED BY <1>2, <2>1, FieldTyped
<1> QED BY <1>2, <1>3, <1>4, <1>5, <1>6 DEF InArray, Key

\* An item of a packed array is counted in the array its message fills.
LEMMA PackedItemFilling ==
    ASSUME Calls, Filling, PackedItem
    PROVE  Filling'
<1>1. /\ Busy /\ ret = "none" /\ Top.kind = "packed" /\ AtField(Top)
  BY DEF PackedItem, Running, AtField
<1> DEFINE n == Get(mem.count, Key) + 1
           m == Counted(mem, Key, n)
<1>2. PICK k \in ScalarLens(Field) : k <= Top.left /\ (Fail(mem) \/ Stay(Took(Top, k), m))
  BY DEF PackedItem
<1>3. n \in Nat /\ Key \in Inner /\ FieldAt(Last(Key)) = Field /\ mem \in Memory /\ k \in Nat
  BY <1>1, AtTop, FieldHere, LensNat
<1> HIDE DEF n
<1>4. FieldAt(Last(Key)).rule = "fixed" => InArray(Key)
  BY <1>1, <1>3, PackedFixed
<1>5. Settled(m)
  BY <1>1, <1>3, <1>4, NowSettled, CountedSettled
<1> HIDE DEF m
<1>6. Like(Took(Top, k), Top) /\ Took(Top, k).fixed = Top.fixed
  BY <1>2, <1>3, AtTop, TookFields
<1>7. AtFixed(Took(Top, k))
  BY <1>1, <1>6 DEF AtFixed, Like
<1> QED BY <1>1, <1>2, <1>5, <1>6, <1>7, FailFilling, StayFilling DEF Like

\* A packed array of pointers grows, and counts nothing.
LEMMA PackedGrowFilling ==
    ASSUME Calls, Filling, PackedGrow
    PROVE  Filling'
<1>1. /\ Busy /\ ret = "none" /\ Top.kind = "packed" /\ AtField(Top) /\ Top.left > 0
  BY DEF PackedGrow, Running, AtField
<1> DEFINE n == Top.room + ((Top.left - 1) \div Field.width) + 1
           fr == [Top EXCEPT !.room = n]
           m == Allocated(mem, Key, n)
<1>2. Fail(mem) \/ Stay(fr, m)
  BY DEF PackedGrow
<1>3. n \in Nat /\ Key \in Inner
  BY <1>1, GrownNat, FieldHere
<1> HIDE DEF n
<1>4. Steady(m)
  BY <1>3, SteadyNow, SteadyAllocated
<1>5. /\ fr.kind = Top.kind /\ fr.obj = Top.obj /\ fr.msg = Top.msg /\ fr.fixed = Top.fixed
  BY AtTop DEF Frame
<1> HIDE DEF fr, m
<1>6. AtFixed(fr)
  BY <1>1, <1>5 DEF AtFixed
<1>7. Settled(m)
  BY <1>1, <1>4, NowSettled, SteadySettled
<1> QED BY <1>1, <1>2, <1>5, <1>6, <1>7, FailFilling, StayFilling

\* A packed array ends, and its message still fills it.
LEMMA PackedEndFilling ==
    ASSUME Calls, Filling, PackedEnd
    PROVE  Filling'
<1>1. Busy /\ ret = "none" /\ Top.kind = "packed" /\ (Fail(mem) \/ Succeed)
  BY DEF PackedEnd, Running
<1>2. CASE Succeed
  <2>1. frames' = [frames EXCEPT ![depth] = Top]
    BY <1>2 DEF Succeed, Top, Calls, Typed
  <2> QED BY <1>1, <1>2, <2>1, NowSettled, MovedFilling DEF Succeed
<1> QED BY <1>1, <1>2, FailFilling

\* A callback field that is skipped fills none.
LEMMA SkipCallbackFilling ==
    ASSUME Calls, Filling, SkipCallback
    PROVE  Filling'
<1> DEFINE fr == [Top EXCEPT !.phase = "skip"]
<1>1. Busy /\ ret = "none" /\ Stay(fr, mem)
  BY DEF SkipCallback, AtCallback, Running
<1>2. /\ fr.kind = Top.kind /\ fr.obj = Top.obj /\ fr.msg = Top.msg /\ fr.fixed = Top.fixed
      /\ fr.phase = "skip"
  BY AtTop DEF Frame
<1> HIDE DEF fr
<1>3. AtFixed(fr)
  BY <1>2 DEF AtFixed
<1> QED BY <1>1, <1>2, <1>3, NowSettled, StayFilling

\* Nor does a scalar that goes to the callback.
LEMMA CallbackScalarFilling ==
    ASSUME Calls, Filling, CallbackScalar
    PROVE  Filling'
<1>1. Busy /\ ret = "none" /\ Top.kind = "message"
  BY DEF CallbackScalar, AtCallback, Running
<1>2. PICK n \in SkipLens(Top.wire) :
         n <= Top.left /\ (Stay(NextTag(Took(Top, n)), mem) \/ Fail(mem))
  BY DEF CallbackScalar
<1> QED BY <1>1, <1>2, SkipLensNat, SteadyNow, TagFilling, FailFilling

\* Nor does what the callback reads.
LEMMA CallbackReadsFilling ==
    ASSUME Calls, Filling, CallbackReads
    PROVE  Filling'
<1>1. Busy /\ ret = "none" /\ Top.kind = "callback"
  BY DEF CallbackReads, Running
<1>2. \/ Fail(mem)
      \/ \E n \in 0 .. Top.left :
            /\ frames' = [frames EXCEPT ![depth] = Took(Top, n)] /\ ret' \in {"none", "ok"}
            /\ depth' = depth /\ call' = call /\ mem' = mem
  <2>1. Top.left \in Nat
    BY AtTop
  <2>2. ASSUME NEW n \in 1 .. Top.left, Stay(Took(Top, n), mem)
        PROVE  \E k \in 0 .. Top.left :
            /\ frames' = [frames EXCEPT ![depth] = Took(Top, k)] /\ ret' \in {"none", "ok"}
            /\ depth' = depth /\ call' = call /\ mem' = mem
    <3>1. /\ frames' = [frames EXCEPT ![depth] = Took(Top, n)] /\ ret' \in {"none", "ok"}
          /\ depth' = depth /\ call' = call /\ mem' = mem
      BY <1>1, <2>2 DEF Stay
    <3>2. n \in 0 .. Top.left
      BY <2>1
    <3> QED BY <3>1, <3>2
  <2>3. ASSUME frames' = [frames EXCEPT ![depth] = Took(Top, Top.left)], ret' = "ok",
               UNCHANGED <<depth, call, root, mem>>
        PROVE  \E k \in 0 .. Top.left :
            /\ frames' = [frames EXCEPT ![depth] = Took(Top, k)] /\ ret' \in {"none", "ok"}
            /\ depth' = depth /\ call' = call /\ mem' = mem
    <3>1. Top.left \in 0 .. Top.left
      BY <2>1
    <3> QED BY <2>3, <3>1
  <2> QED BY <2>2, <2>3 DEF CallbackReads
<1>3. ASSUME NEW n \in 0 .. Top.left,
             frames' = [frames EXCEPT ![depth] = Took(Top, n)], ret' \in {"none", "ok"},
             depth' = depth, call' = call, mem' = mem
      PROVE  Filling'
  <2>1. n \in Nat /\ n <= Top.left
    BY <1>3, AtTop
  <2>2. Like(Took(Top, n), Top) /\ Took(Top, n).fixed = Top.fixed
    BY <2>1, AtTop, TookFields
  <2>3. AtFixed(Took(Top, n))
    BY <1>1, <2>2 DEF AtFixed, Like
  <2> QED BY <1>1, <1>3, <2>2, <2>3, NowSettled, MovedFilling DEF Like
<1> QED BY <1>1, <1>2, <1>3, FailFilling
\* What a call that returned began is whole, and what its caller fills goes on.
LEMMA ReturnFilling ==
    ASSUME Calls, Filling, Return
    PROVE  Filling'
<1>1. Busy /\ ret # "none" /\ depth > 1 /\ depth' = depth - 1 /\ call' = call
  BY DEF Return
<1>2. /\ Parent = frames[depth - 1] /\ Parent.kind \in {"message", "outer"} /\ Parent \in Frame
      /\ Closed \in Frame /\ Like(Closed, Parent) /\ Closed.field = Parent.field
      /\ Closed.fixed = Parent.fixed /\ Closed.phase = Parent.phase
  BY <1>1, ClosedFields
<1>3. /\ frames \in [1 .. MaxDepth -> Frame] /\ depth \in 1 .. MaxDepth /\ MaxDepth \in Nat
      /\ depth - 1 \in 1 .. MaxDepth /\ Busy' /\ call' \notin {"held", "idle"}
  BY <1>1, DecodeAssumption DEF Calls, Typed, Busy
<1>4. AtFixed(Closed) /\ AtFixed(NextTag(Closed))
  <2>1. AtFixed(Parent)
    BY <1>1, <1>2, <1>3 DEF Filling
  <2>2. NextTag(Closed).phase = "tag"
    BY <1>2, NextTagFields
  <2> QED BY <1>2, <2>1, <2>2 DEF AtFixed, Like
<1>5. ASSUME NEW fr, AtFixed(fr), frames' = [frames EXCEPT ![depth - 1] = fr]
      PROVE  (\A d \in 1 .. depth : AtFixed(frames[d]))'
  <2>1. \A d \in 1 .. depth - 1 : AtFixed(frames'[d])
    <3> SUFFICES ASSUME NEW d \in 1 .. depth - 1
                 PROVE  AtFixed(frames'[d])
      OBVIOUS
    <3>1. frames'[d] = (IF d = depth - 1 THEN fr ELSE frames[d]) /\ d \in 1 .. depth
      BY <1>3, <1>5
    <3> QED BY <1>1, <1>5, <3>1 DEF Filling
  <2> QED BY <1>1, <2>1 DEF AtFixed
<1>6. ASSUME NEW fr, frames' = [frames EXCEPT ![depth - 1] = fr], fr.kind = Parent.kind,
             fr.obj = Parent.obj, fr.msg = Parent.msg, fr.fixed = Parent.fixed,
             Parent.kind = "message" => ret' = "none", NEW p, InArray(p)
      PROVE  InArray(p)'
  <2>1. PICK d \in 1 .. depth :
           /\ frames[d].kind = "message" /\ frames[d].fixed # 0 /\ (d = depth => ret = "none")
           /\ p = Member(frames[d].obj, frames[d].msg, frames[d].fixed)
    BY <1>6 DEF InArray
  <2>2. d \in 1 .. depth - 1 /\ d \in 1 .. depth'
    BY <1>1, <1>3, <2>1
  <2>3. CASE d = depth - 1
    <3>1. frames'[d] = fr /\ frames[d] = Parent
      BY <1>2, <1>3, <1>6, <2>3
    <3> QED BY <1>3, <1>6, <2>1, <2>2, <3>1 DEF InArray
  <2>4. CASE d # depth - 1
    <3>1. frames'[d] = frames[d] /\ d # depth'
      BY <1>1, <1>3, <1>6, <2>2, <2>4
    <3> QED BY <1>3, <2>1, <2>2, <3>1 DEF InArray
  <2> QED BY <2>3, <2>4
<1>7. CASE Parent.kind = "message" /\ ret = "ok"
  <2> DEFINE fr == NextTag(Closed)
             r == ReadAt(mem, Parent.obj, Parent.field)
  <2>1. /\ ret' = "none" /\ frames' = [frames EXCEPT ![depth - 1] = fr]
        /\ mem' = mem \/ mem' = r
    BY <1>7 DEF Return, ReadAt
  <2>2. Parent.obj \in DOMAIN mem.done /\ Parent.field \in Nat
    <3>1. depth - 1 \in 1 .. depth
      BY <1>1 DEF Calls, Typed
    <3> QED BY <1>1, <1>7, <3>1, ClosedFields DEF Calls, EnteredAll, Frame
  <2>3. Steady(mem) /\ Steady(r) /\ Settled(mem)
    BY <1>1, <1>7, <2>2, NowSettled, SteadyRead
  <2> HIDE DEF r
  <2>4. Settled(mem) /\ Settled(r)
    BY <2>3, SteadySettled
  <2>5. /\ fr.kind = Parent.kind /\ fr.obj = Parent.obj /\ fr.msg = Parent.msg
        /\ fr.fixed = Parent.fixed
    BY <1>2, NextTagFields DEF Like
  <2> HIDE DEF fr
  <2>6. \A p : InArray(p) => InArray(p)'
    BY <1>6, <2>1, <2>5
  <2>7. Settled(mem)'
    <3>1. Settled(mem')
      BY <2>1, <2>4
    <3> QED BY <2>6, <3>1 DEF Settled
  <2>8. (\A d \in 1 .. depth : AtFixed(frames[d]))'
    BY <1>4, <1>5, <2>1 DEF fr
  <2> QED BY <2>7, <2>8 DEF Filling
<1>8. CASE ~(Parent.kind = "message" /\ ret = "ok")
  <2>1. /\ ret' = ret /\ frames' = [frames EXCEPT ![depth - 1] = Closed]
        /\ mem' = IF ret = "fail" /\ Parent.owns THEN ReleaseObject(mem, Parent.obj) ELSE mem
    BY <1>8 DEF Return
  <2>2. (\A d \in 1 .. depth : AtFixed(frames[d]))'
    BY <1>4, <1>5, <2>1
  <2>3. CASE ret = "fail"
    BY <1>3, <2>1, <2>2, <2>3 DEF Filling
  <2>4. CASE ret # "fail"
    <3>1. Parent.kind # "message" /\ mem' = mem
      BY <1>1, <1>8, <2>1, <2>4 DEF Calls, Typed
    <3>2. \A p : InArray(p) => InArray(p)'
      BY <1>2, <1>6, <2>1, <3>1 DEF Like
    <3>3. Settled(mem)
      BY <1>1, <2>4, NowSettled
    <3>4. Settled(mem)'
      BY <3>1, <3>2, <3>3 DEF Settled
    <3> QED BY <2>2, <3>4 DEF Filling
  <2> QED BY <2>3, <2>4
<1> QED BY <1>7, <1>8

\* Nobody fills an array when no call is open.
LEMMA IdleSettled ==
    ASSUME Filling, call \in {"idle", "held"}, NEW p \in DOMAIN mem.count,
           FieldAt(Last(p)).rule = "fixed"
    PROVE  mem.count[p] \in {0, FieldAt(Last(p)).cap}
  BY DEF Filling, Settled, InArray, Busy

\* The caller begins with no arrays, or with the whole ones he holds.
LEMMA CallerFilling ==
    ASSUME Calls, Filling, Caller
    PROVE  Filling'
<1>1. ASSUME NEW m \in Roots, NEW n \in StreamSizes[m],
             Decode(m, n) \/ DecodeDelimited(m, n) \/ DecodeNoinit(m, n)
      PROVE  Filling'
  <2> DEFINE fresh(fr) == frames' = [d \in 1 .. MaxDepth |-> fr]
  <2>1. /\ depth' = 1
        /\ \/ fresh(Stream("message", m, <<>>, TRUE, 0, n))
           \/ fresh(Stream("outer", m, <<>>, FALSE, 0, n))
           \/ fresh(Stream("message", m, <<>>, FALSE, 0, n))
    BY <1>1 DEF Decode, DecodeDelimited, DecodeNoinit, Start
  <2>2. /\ AtFixed(Stream("message", m, <<>>, TRUE, 0, n))
        /\ AtFixed(Stream("outer", m, <<>>, FALSE, 0, n))
        /\ AtFixed(Stream("message", m, <<>>, FALSE, 0, n))
    BY DEF Stream, AtFixed
  <2>3. 1 \in 1 .. MaxDepth /\ 1 .. 1 = {1}
    BY DecodeAssumption
  <2>4. ASSUME NEW fr, AtFixed(fr), fresh(fr)
        PROVE  (\A d \in 1 .. depth : AtFixed(frames[d]))'
    BY <2>1, <2>3, <2>4 DEF AtFixed
  <2> HIDE DEF fresh
  <2>5. (\A d \in 1 .. depth : AtFixed(frames[d]))'
    BY <2>1, <2>2, <2>4
  <2>6. mem' = Entered(Nothing, <<>>) \/ (mem' = mem /\ call \in {"idle", "held"})
    BY <1>1 DEF Decode, DecodeDelimited, DecodeNoinit
  <2>7. CASE mem' = Entered(Nothing, <<>>)
    <3>1. DOMAIN mem'.count = {}
      BY <2>7, NothingMem, NewMem, EnteredMem
    <3>2. Settled(mem)'
      BY <3>1 DEF Settled
    <3> QED BY <2>5, <3>2 DEF Filling
  <2>8. CASE mem' = mem /\ call \in {"idle", "held"}
    <3>1. Settled(mem)'
      BY <2>8, IdleSettled DEF Settled
    <3> QED BY <2>5, <3>1 DEF Filling
  <2> QED BY <2>6, <2>7, <2>8
<1>2. CASE Release
  <2>1. call' = "idle" /\ mem' = Unread(ReleaseObject(mem, <<>>))
    BY <1>2 DEF Release
  <2>2. DOMAIN mem'.count = {}
    <3>1. ReleaseObject(mem, <<>>) \in Memory
      BY AtTop, ReleasedMem DEF ReleaseObject
    <3> QED BY <2>1, <3>1, UnreadMem
  <2> QED BY <2>1, <2>2 DEF Filling, Settled, Busy
<1> QED BY <1>1, <1>2 DEF Caller

\* No array is being filled when he has his answer.
LEMMA FinishedFilling ==
    ASSUME Calls, Filling, Finished
    PROVE  Filling'
<1>1. /\ Busy /\ ret # "none" /\ depth = 1
      /\ call' \in {"idle", "held", "broken"} /\ (call' = "held" => ret = "ok")
      /\ mem' = IF call' = "idle" THEN Unread(mem) ELSE mem
  BY DEF Finished
<1>2. ~Busy'
  BY <1>1 DEF Busy
<1>3. CASE call' = "idle"
  <2>1. DOMAIN mem'.count = {}
    BY <1>1, <1>3, AtTop, UnreadMem
  <2> QED BY <1>2, <2>1 DEF Filling, Settled
<1>4. CASE call' = "held"
  <2>1. Settled(mem) /\ mem' = mem
    BY <1>1, <1>4, NowSettled
  <2>2. \A p : ~InArray(p)
    BY <1>1 DEF InArray
  <2> QED BY <1>2, <2>1, <2>2 DEF Filling, Settled
<1>5. CASE call' = "broken"
  BY <1>2, <1>5 DEF Filling
<1> QED BY <1>1, <1>3, <1>4, <1>5

\* Every step leaves at most the arrays being filled half full.
LEMMA FillingNext ==
    ASSUME Calls, Filling, [Next]_vars
    PROVE  Filling'
<1>1. CASE UNCHANGED vars
  BY <1>1 DEF vars, Filling, Busy, Settled, InArray, AtFixed
<1>2. CASE Caller
  BY <1>2, CallerFilling
<1>3. CASE EndOfMessage \/ SkipField
  BY <1>3, EndOfMessageFilling, SkipFieldFilling
<1>4. CASE \E w \in Wires : UnknownField(w) \/ \E i \in DOMAIN Msg[Top.msg] : KnownField(i, w)
  BY <1>4, UnknownFieldFilling, KnownFieldFilling
<1>5. CASE BeginStatic \/ BeginPointer \/ BeginStaticItem \/ BeginPointerItem
  BY <1>5, BeginStaticFilling, BeginPointerFilling, BeginStaticItemFilling, BeginPointerItemFilling
<1>6. CASE ReadScalar \/ ReadText \/ TextCut \/ Unreadable \/ PackedUnreadable
  BY <1>6, ReadScalarFilling, ReadTextFilling, FailsFilling
<1>7. CASE OpenSubmessage \/ OpenPacked \/ OpenDelimited \/ OpenCallback
  BY <1>7, OpenSubmessageFilling, OpenPackedFilling, OpenDelimitedFilling, OpenCallbackFilling
<1>8. CASE PackedItem \/ PackedGrow \/ PackedEnd
  BY <1>8, PackedItemFilling, PackedGrowFilling, PackedEndFilling
<1>9. CASE SkipCallback \/ CallbackScalar \/ CallbackReads
  BY <1>9, SkipCallbackFilling, CallbackScalarFilling, CallbackReadsFilling
<1>10. CASE Return \/ Finished
  BY <1>10, ReturnFilling, FinishedFilling
<1> QED BY <1>1, <1>2, <1>3, <1>4, <1>5, <1>6, <1>7, <1>8, <1>9, <1>10 DEF Next, Walk

\* Only an array being filled is ever half full.
LEMMA FillingAlways == Spec => []Filling
<1>1. Init => Filling
  <2> SUFFICES ASSUME Init
               PROVE  Filling
    OBVIOUS
  <2>1. DOMAIN mem.count = {} /\ ~Busy
    BY NothingMem DEF Init, Busy
  <2> QED BY <2>1 DEF Filling, Settled
<1>2. Calls /\ Filling /\ [Next]_vars => Filling'
  BY FillingNext
<1> QED BY <1>1, <1>2, CallsAlways, PTL DEF Spec

\* Each fixed-count array the caller holds is whole or not there at all.
THEOREM ArraysWhole == Spec => []FixedArraysWhole
<1>1. Filling => FixedArraysWhole
  BY IdleSettled DEF FixedArraysWhole
<1> QED BY <1>1, FillingAlways, PTL
-----------------------------------------------------------------------------
(***************************************************************************)
(* Required fields.                                                        *)
(***************************************************************************)

\* The message that the object at o is.
TypeAt(o) == IF o = <<>> THEN root ELSE FieldAt(Last(o)).sub

\* All its required fields were read.
Complete(m, o) ==
    {i \in Checked(TypeAt(o)) : Msg[TypeAt(o)][i].alloc # "callback"} \subseteq m.done[o]

\* A call for it is open.
InProgress(o) ==
    Busy /\ \E d \in 1 .. depth :
        frames[d].kind = "message" /\ frames[d].obj = o /\ (d = depth => ret = "none")

\* Every static part on the way to o is marked as present, or counted.
Homed(m, o) ==
    \A n \in 1 .. Len(o) :
        FieldAt(o[n]).alloc = "static" =>
            /\ FieldAt(o[n]).rule = "optional" => MemberOf(o, n) \in m.has
            /\ FieldAt(o[n]).rule = "repeated" => o[n][3] <= Get(m.count, MemberOf(o, n))

\* An array with room has a pointer to it.
Blocked(m) == \A p \in DOMAIN m.room : m.room[p] > 0 => p \in m.ptr

\* What was read is of a message that has, or had, its place here.
Housed(m) ==
    /\ m \in Memory /\ Blocked(m)
    /\ \A o \in DOMAIN m.done : Reaches(root, o, TypeAt(o)) /\ Homed(m, o)

\* The fields that fr saw were read, but for the one it is at.
SeenRead(fr, m) ==
    fr.kind = "message" =>
        \A i \in fr.seen : i \in Checked(fr.msg) /\ Msg[fr.msg][i].alloc # "callback" =>
            i \in m.done[fr.obj] \/ (fr.field = i /\ fr.phase \in {"field", "value", "inside"})

\* A static optional submessage is marked before it is read.
Marked(fr, m) ==
    fr.kind = "message" /\ fr.phase = "value"
        /\ Msg[fr.msg][fr.field].rule = "optional" /\ Msg[fr.msg][fr.field].alloc = "static" =>
    Member(fr.obj, fr.msg, fr.field) \in m.has

\* A callback is called for a callback field.
CalledBack(p, c) == c.kind = "callback" => Msg[p.msg][p.field].alloc = "callback"

\* Whatever stands is complete, or about to be.
Settling ==
    /\ (Busy /\ ret # "fail") \/ call = "held" =>
          /\ Housed(mem)
          /\ \A o \in DOMAIN mem.done : Standing(mem, o) => InProgress(o) \/ Complete(mem, o)
    /\ Busy /\ ret # "fail" =>
          \A d \in 1 .. depth : (d = depth => ret = "none") => SeenRead(frames[d], mem)
    /\ Busy /\ ret = "none" => Marked(Top, mem)
    /\ Busy => \A d \in 1 .. depth - 1 : CalledBack(frames[d], frames[d + 1])
    /\ call = "idle" => DOMAIN mem.done = {} /\ DOMAIN mem.room = {}

\* What m has read of an object that stands, mem has of one that stands.
Lean(m) ==
    /\ Housed(m)
    /\ \A o \in DOMAIN m.done :
          /\ o \in DOMAIN mem.done /\ mem.done[o] \subseteq m.done[o]
          /\ Standing(m, o) => Standing(mem, o)

\* As long as it is not in c.
LeanBut(m, c) ==
    /\ Housed(m)
    /\ \A o \in DOMAIN m.done :
          /\ o \in DOMAIN mem.done /\ mem.done[o] \subseteq m.done[o]
          /\ Standing(m, o) => Standing(mem, o) \/ IsPrefix(c, o)

\* The memory a call goes on from.
LEMMA LeanNow ==
    ASSUME Calls, Settling, Busy, ret # "fail"
    PROVE  Lean(mem)
  BY DEF Settling, Lean

\* What asks nothing new asks nothing new outside c.
LEMMA LeanLeanBut ==
    ASSUME NEW m, Lean(m), NEW c
    PROVE  LeanBut(m, c)
  BY DEF Lean, LeanBut

\* The objects that were read, and the messages on the way to them.
LEMMA HousedPath ==
    ASSUME NEW m, Housed(m), NEW o \in DOMAIN m.done
    PROVE  /\ o \in Path /\ m \in Memory /\ Len(o) \in Nat /\ Homed(m, o)
           /\ \A n \in 1 .. Len(o) :
                 /\ FieldAt(o[n]).type = "message" /\ o[n][3] \in Nat /\ o[n][3] > 0
                 /\ FieldAt(Last(MemberOf(o, n))) = FieldAt(o[n]) /\ MemberOf(o, n) \in Inner
<1>1. m \in Memory /\ o \in Path /\ Reaches(root, o, TypeAt(o)) /\ Homed(m, o)
  BY ReadsParts DEF Housed, Memory
<1>2. Len(o) \in Nat
  BY <1>1, PathSeq
<1>3. ASSUME NEW n \in 1 .. Len(o)
      PROVE  FieldAt(o[n]).type = "message" /\ o[n][3] > 0
  <2>1. Len(o) > 0 /\ Placed(root, o) /\ Holds(o[Len(o)], TypeAt(o))
    BY <1>1, <1>2, <1>3 DEF Reaches
  <2>2. CASE n = Len(o)
    BY <2>1, <2>2 DEF Holds
  <2>3. CASE n # Len(o)
    <3>1. n \in 1 .. Len(o) - 1
      BY <1>2, <2>3
    <3> QED BY <2>1, <3>1 DEF Placed, Holds
  <2> QED BY <2>2, <2>3
<1>4. ASSUME NEW n \in 1 .. Len(o)
      PROVE  /\ o[n][3] \in Nat /\ FieldAt(Last(MemberOf(o, n))) = FieldAt(o[n])
             /\ MemberOf(o, n) \in Inner
  BY <1>1, StepTyped, FieldOfMember
<1> QED BY <1>1, <1>2, <1>3, <1>4

\* Less of everything, and less stands.
LEMMA LeanLess ==
    ASSUME NEW m, NEW c, LeanBut(m, c), NEW r \in Memory, Housed(r), DOMAIN r.done \subseteq DOMAIN m.done,
           \A o \in DOMAIN r.done : m.done[o] \subseteq r.done[o],
           r.has \subseteq m.has, r.ptr \subseteq m.ptr,
           \A q \in Inner : Get(r.count, q) <= Get(m.count, q)
    PROVE  LeanBut(r, c)
<1> SUFFICES ASSUME NEW o \in DOMAIN r.done
             PROVE  /\ o \in DOMAIN mem.done /\ mem.done[o] \subseteq r.done[o]
                    /\ Standing(r, o) => Standing(mem, o) \/ IsPrefix(c, o)
  BY DEF LeanBut
<1>1. /\ o \in DOMAIN m.done /\ mem.done[o] \subseteq m.done[o] /\ m.done[o] \subseteq r.done[o]
      /\ o \in DOMAIN mem.done /\ m \in Memory
      /\ Standing(m, o) => Standing(mem, o) \/ IsPrefix(c, o)
  BY DEF LeanBut, Housed
<1>2. o \in Path
  BY HousedPath
<1>3. Standing(r, o) => Standing(m, o)
  BY <1>1, <1>2, StandingMore
<1> QED BY <1>1, <1>3

\* Nothing is in nothing.
LEMMA LeanNone ==
    ASSUME NEW m, Housed(m), NEW c, LeanBut(m, c), \A o \in DOMAIN m.done : ~IsPrefix(c, o)
    PROVE  Lean(m)
  BY DEF Lean, LeanBut

\* Less of everything asks less.
LEMMA LeanLessAll ==
    ASSUME NEW m, Lean(m), NEW r \in Memory, Housed(r), DOMAIN r.done \subseteq DOMAIN m.done,
           \A o \in DOMAIN r.done : m.done[o] \subseteq r.done[o],
           r.has \subseteq m.has, r.ptr \subseteq m.ptr,
           \A q \in Inner : Get(r.count, q) <= Get(m.count, q)
    PROVE  Lean(r)
<1> SUFFICES ASSUME NEW o \in DOMAIN r.done
             PROVE  /\ o \in DOMAIN mem.done /\ mem.done[o] \subseteq r.done[o]
                    /\ Standing(r, o) => Standing(mem, o)
  BY DEF Lean
<1>1. /\ o \in DOMAIN m.done /\ mem.done[o] \subseteq m.done[o] /\ m.done[o] \subseteq r.done[o]
      /\ o \in DOMAIN mem.done /\ m \in Memory
      /\ Standing(m, o) => Standing(mem, o)
  BY DEF Lean, Housed
<1>2. o \in Path
  BY HousedPath
<1>3. Standing(r, o) => Standing(m, o)
  BY <1>1, <1>2, StandingMore
<1> QED BY <1>1, <1>3

\* What a release leaves.
LEMMA HousedReleased ==
    ASSUME NEW m, Housed(m), NEW ps, NEW n
    PROVE  Housed(Released(m, ps, n))
<1> DEFINE r == Released(m, ps, n)
<1>1. m \in Memory
  BY DEF Housed
<1>2. /\ r \in Memory /\ r.has = m.has /\ r.done = m.done
      /\ \A p : p \in r.ptr <=> p \in m.ptr /\ ~(p \in ps /\ \A k \in n .. Len(p) : Visits(m, p, k))
      /\ DOMAIN r.count = DOMAIN m.count /\ DOMAIN r.room = DOMAIN m.room
      /\ \A p \in DOMAIN m.count : FieldAt(Last(p)).alloc # "pointer" => r.count[p] = m.count[p]
      /\ \A p \in DOMAIN m.room : r.room[p] =
            IF p \in ps /\ \A k \in n .. Len(p) : Visits(m, p, k) THEN 0 ELSE m.room[p]
  BY <1>1, ReleasedMem
<1> HIDE DEF r
<1>3. Blocked(r)
  BY <1>2 DEF Housed, Blocked
<1>4. ASSUME NEW o \in DOMAIN m.done
      PROVE  Homed(r, o)
  <2> SUFFICES ASSUME NEW k \in 1 .. Len(o), FieldAt(o[k]).alloc = "static"
               PROVE  /\ FieldAt(o[k]).rule = "optional" => MemberOf(o, k) \in r.has
                      /\ FieldAt(o[k]).rule = "repeated" => o[k][3] <= Get(r.count, MemberOf(o, k))
    BY DEF Homed
  <2>1. FieldAt(Last(MemberOf(o, k))) = FieldAt(o[k]) /\ Homed(m, o)
    BY HousedPath
  <2>2. Get(r.count, MemberOf(o, k)) = Get(m.count, MemberOf(o, k))
    BY <1>2, <2>1 DEF Get
  <2> QED BY <1>2, <2>1, <2>2 DEF Homed
<1>5. Housed(r)
  BY <1>2, <1>3, <1>4 DEF Housed
<1> QED BY <1>5 DEF r

\* A release of anything asks nothing new.
LEMMA LeanReleased ==
    ASSUME NEW m, Lean(m), NEW ps, NEW n
    PROVE  Lean(Released(m, ps, n))
<1> DEFINE r == Released(m, ps, n)
<1>1. Housed(m) /\ m \in Memory
  BY DEF Housed, Lean
<1>2. /\ r \in Memory /\ r.has = m.has /\ r.done = m.done /\ r.ptr \subseteq m.ptr
      /\ DOMAIN r.count = DOMAIN m.count
      /\ \A p \in DOMAIN m.count : r.count[p] = 0 \/ r.count[p] = m.count[p]
  BY <1>1, ReleasedMem
<1>3. Housed(r)
  BY <1>1, HousedReleased
<1>4. \A q : Get(m.count, q) \in Nat
  BY <1>1, CountsParts DEF Memory
<1> HIDE DEF r
<1>5. \A q \in Inner : Get(r.count, q) <= Get(m.count, q)
  BY <1>2, <1>4 DEF Get
<1>6. Lean(r)
  BY <1>2, <1>3, <1>5, LeanLessAll
<1> QED BY <1>6 DEF r

\* Nor does that of a field.
LEMMA LeanRelease ==
    ASSUME NEW m, Lean(m), NEW p
    PROVE  Lean(ReleaseField(m, p))
  BY LeanReleased DEF ReleaseField

\* Nor does that of a union's other member.
LEMMA LeanUnion ==
    ASSUME Lean(mem)
    PROVE  Lean(UnionReleased)
  BY LeanRelease DEF UnionReleased

\* What is cleared is not read any more.
LEMMA LeanCleared ==
    ASSUME NEW c \in Inner, Last(c)[3] > 0, NEW m, LeanBut(m, c)
    PROVE  Lean(Cleared(m, c))
<1> DEFINE r == Cleared(m, c)
<1>1. Housed(m) /\ m \in Memory /\ c \in Path
  BY DEF Housed, LeanBut, Inner
<1>2. /\ r \in Memory
      /\ \A p : p \in r.ptr <=> p \in m.ptr /\ ~IsPrefix(c, p)
      /\ \A p : p \in r.has <=> p \in m.has /\ ~IsPrefix(c, p)
      /\ \A p : p \in DOMAIN r.count <=> p \in DOMAIN m.count /\ ~IsPrefix(c, p)
      /\ \A p : p \in DOMAIN r.room <=> p \in DOMAIN m.room /\ ~IsPrefix(c, p)
      /\ \A p : p \in DOMAIN r.done <=> p \in DOMAIN m.done /\ ~IsPrefix(c, p)
      /\ \A p \in DOMAIN r.count : r.count[p] = m.count[p]
      /\ \A p \in DOMAIN r.room : r.room[p] = m.room[p]
      /\ \A p \in DOMAIN r.done : r.done[p] = m.done[p]
  BY <1>1, ClearedMem
<1> HIDE DEF r
<1>3. Blocked(r)
  BY <1>1, <1>2 DEF Housed, Blocked
<1>4. ASSUME NEW o \in DOMAIN r.done
      PROVE  Homed(r, o)
  <2> SUFFICES ASSUME NEW k \in 1 .. Len(o), FieldAt(o[k]).alloc = "static"
               PROVE  /\ FieldAt(o[k]).rule = "optional" => MemberOf(o, k) \in r.has
                      /\ FieldAt(o[k]).rule = "repeated" => o[k][3] <= Get(r.count, MemberOf(o, k))
    BY DEF Homed
  <2>1. o \in DOMAIN m.done /\ ~IsPrefix(c, o)
    BY <1>2
  <2>2. Homed(m, o) /\ o \in Path
    BY <1>1, <2>1, HousedPath
  <2>3. ~IsPrefix(c, MemberOf(o, k))
    BY <2>1, <2>2, ItemBelow
  <2>4. Get(r.count, MemberOf(o, k)) = Get(m.count, MemberOf(o, k))
    BY <1>2, <2>3 DEF Get
  <2> QED BY <1>2, <2>2, <2>3, <2>4 DEF Homed
<1>5. Housed(r)
  BY <1>1, <1>2, <1>3, <1>4 DEF Housed
<1>6. \A q : Get(m.count, q) \in Nat
  BY <1>1, CountsParts DEF Memory
<1>7. \A q \in Inner : Get(r.count, q) <= Get(m.count, q)
  BY <1>2, <1>6 DEF Get
<1>8. LeanBut(r, c)
  <2>1. r.has \subseteq m.has /\ r.ptr \subseteq m.ptr /\ DOMAIN r.done \subseteq DOMAIN m.done
    BY <1>2
  <2>2. \A o \in DOMAIN r.done : m.done[o] \subseteq r.done[o]
    BY <1>2
  <2> QED BY <1>2, <1>5, <1>7, <2>1, <2>2, LeanLess
<1>9. Lean(r)
  BY <1>2, <1>5, <1>8, LeanNone
<1> QED BY <1>9 DEF r
\* A place of no message is on the way to none.
LEMMA PlainAside ==
    ASSUME NEW m, Housed(m), NEW p \in Inner, FieldAt(Last(p)).type # "message",
           NEW o \in DOMAIN m.done, NEW n \in 1 .. Len(o)
    PROVE  MemberOf(o, n) # p
  BY HousedPath

\* A memory that differs in p alone, which no object that was read is in.
LEMMA LeanAside ==
    ASSUME NEW m, Lean(m), NEW p, NEW r \in Memory, r.done = m.done, Blocked(r),
           \A o \in DOMAIN m.done : \A n \in 1 .. Len(o) : MemberOf(o, n) # p,
           \A q \in Inner : q # p => /\ q \in r.has => q \in m.has
                                     /\ q \in r.ptr => q \in m.ptr
                                     /\ Get(r.count, q) = Get(m.count, q),
           \A q \in m.has : FieldAt(Last(q)).rule = "optional" => q \in r.has
    PROVE  Lean(r)
<1>1. m \in Memory /\ Housed(m) /\ \A q : Get(m.count, q) \in Nat
  <2>1. m \in Memory /\ Housed(m)
    BY DEF Lean, Housed
  <2> QED BY <2>1, CountsParts DEF Memory
<1>2. ASSUME NEW o \in DOMAIN m.done
      PROVE  Homed(r, o) /\ (Standing(r, o) => Standing(m, o))
  <2>1. /\ o \in Path /\ Homed(m, o)
        /\ \A n \in 1 .. Len(o) : /\ FieldAt(Last(MemberOf(o, n))) = FieldAt(o[n])
                                  /\ MemberOf(o, n) \in Inner /\ MemberOf(o, n) # p
    BY <1>1, HousedPath
  <2>2. Homed(r, o)
    BY <2>1 DEF Homed
  <2>3. ASSUME Standing(r, o), NEW n \in 1 .. Len(o)
        PROVE  Visits(m, o, n)
    <3> DEFINE q == MemberOf(o, n)
    <3>1. Visits(r, o, n) /\ q \in Inner /\ q # p
      BY <2>1, <2>3 DEF Standing
    <3>2. /\ q \in r.has => q \in m.has
          /\ q \in r.ptr => q \in m.ptr
          /\ Get(r.count, q) <= Get(m.count, q)
      BY <1>1, <3>1
    <3> QED BY <1>1, <2>1, <3>1, <3>2, VisitsKept
  <2> QED BY <2>2, <2>3 DEF Standing
<1> QED BY <1>1, <1>2 DEF Lean, Housed

\* What is allocated has its pointer.
LEMMA AllocatedBlocked ==
    ASSUME NEW m \in Memory, Blocked(m), NEW p \in Inner, NEW n \in Nat
    PROVE  Blocked(Allocated(m, p, n))
<1> DEFINE r == Allocated(m, p, n)
           f == Put(m.room, p, n)
<1>1. r.ptr = m.ptr \cup {p} /\ r.room = f
  BY AllocatedMem
<1>2. m.room \in Counts
  BY DEF Memory
<1>3. DOMAIN f = DOMAIN m.room \cup {p} /\ \A q \in DOMAIN m.room : q # p => f[q] = m.room[q]
  BY <1>2, PutCounts
<1> HIDE DEF r, f
<1>4. Blocked(r)
  BY <1>1, <1>3 DEF Blocked
<1> QED BY <1>4 DEF r

\* What is done to a place of no message is nothing to any.
LEMMA LeanPlain ==
    ASSUME NEW m, Lean(m), NEW p \in Inner, FieldAt(Last(p)).type # "message", NEW n \in Nat
    PROVE  /\ Lean(Allocated(m, p, n)) /\ Lean(Counted(m, p, n)) /\ Lean(Which(m, p))
<1>1. m \in Memory /\ Housed(m) /\ Blocked(m)
  BY DEF Lean, Housed
<1>2. \A o \in DOMAIN m.done : \A k \in 1 .. Len(o) : MemberOf(o, k) # p
  BY <1>1, PlainAside
<1>3. Lean(Allocated(m, p, n))
  <2> DEFINE r == Allocated(m, p, n)
  <2>1. /\ r \in Memory /\ r.done = m.done /\ r.has = m.has /\ r.count = m.count
        /\ r.ptr = m.ptr \cup {p} /\ Blocked(r)
    BY <1>1, AllocatedMem, AllocatedBlocked
  <2> HIDE DEF r
  <2>2. Lean(r)
    BY <1>2, <2>1, LeanAside
  <2> QED BY <2>2 DEF r
<1>4. Lean(Counted(m, p, n))
  <2> DEFINE r == Counted(m, p, n)
             f == Put(m.count, p, n)
  <2>1. /\ r \in Memory /\ r.done = m.done /\ r.has = m.has /\ r.count = f
        /\ r.ptr = m.ptr /\ r.room = m.room
    BY <1>1, CountedMem
  <2>2. \A q : q # p => Get(f, q) = Get(m.count, q)
    BY DEF Get, Put
  <2> HIDE DEF r, f
  <2>3. Blocked(r)
    BY <1>1, <2>1 DEF Blocked
  <2>4. Lean(r)
    BY <1>2, <2>1, <2>2, <2>3, LeanAside
  <2> QED BY <2>4 DEF r
<1>5. Lean(Which(m, p))
  <2> DEFINE r == Which(m, p)
  <2>1. /\ r \in Memory /\ r.done = m.done /\ r.count = m.count
        /\ r.ptr = m.ptr /\ r.room = m.room
        /\ \A s : s \in r.has <=>
              s = p \/ (s \in m.has /\ ~(Front(s) = Front(p) /\ FieldAt(Last(s)).rule = "oneof"))
    BY <1>1, WhichMem
  <2> HIDE DEF r
  <2>2. Blocked(r)
    BY <1>1, <2>1 DEF Blocked
  <2>3. \A q \in m.has : FieldAt(Last(q)).rule = "optional" => q \in r.has
    BY <2>1
  <2>4. Lean(r)
    BY <1>2, <2>1, <2>2, <2>3, LeanAside
  <2> QED BY <2>4 DEF r
<1> QED BY <1>3, <1>4, <1>5

\* has_ decides of unions alone what a release visits.
LEMMA LeanHas ==
    ASSUME NEW m, Lean(m), NEW p \in Inner, FieldAt(Last(p)).rule # "oneof"
    PROVE  Lean([m EXCEPT !.has = @ \cup {p}])
<1> DEFINE r == [m EXCEPT !.has = @ \cup {p}]
<1>1. m \in Memory /\ Housed(m) /\ Blocked(m) /\ \A q : Get(m.count, q) \in Nat
  <2>1. m \in Memory /\ Housed(m) /\ Blocked(m)
    BY DEF Lean, Housed
  <2> QED BY <2>1, CountsParts DEF Memory
<1>2. /\ r \in Memory /\ r.done = m.done /\ r.count = m.count /\ r.ptr = m.ptr /\ r.room = m.room
      /\ r.has = m.has \cup {p}
  BY <1>1, HasMem
<1> HIDE DEF r
<1>3. ASSUME NEW o \in DOMAIN m.done
      PROVE  Homed(r, o) /\ (Standing(r, o) => Standing(m, o))
  <2>1. /\ o \in Path /\ Homed(m, o)
        /\ \A n \in 1 .. Len(o) : FieldAt(Last(MemberOf(o, n))) = FieldAt(o[n])
    BY <1>1, HousedPath
  <2>2. Homed(r, o)
    BY <1>2, <2>1 DEF Homed
  <2>3. ASSUME Standing(r, o), NEW n \in 1 .. Len(o)
        PROVE  Visits(m, o, n)
    <3>1. Visits(r, o, n)
      BY <2>3 DEF Standing
    <3>2. FieldAt(o[n]).rule = "oneof" => MemberOf(o, n) # p
      BY <2>1
    <3>3. Get(r.count, MemberOf(o, n)) <= Get(m.count, MemberOf(o, n))
      BY <1>1, <1>2
    <3> QED BY <1>1, <1>2, <2>1, <3>1, <3>2, <3>3, VisitsKept
  <2> QED BY <2>2, <2>3 DEF Standing
<1>4. Blocked(r)
  BY <1>1, <1>2 DEF Blocked
<1>5. Lean(r)
  BY <1>1, <1>2, <1>3, <1>4 DEF Lean, Housed
<1> QED BY <1>5 DEF r

\* The way to an object through the field at Top.
LEMMA ThroughKey ==
    ASSUME Calls, AtField(Top), NEW o \in Path, NEW n \in 1 .. Len(o), MemberOf(o, n) = Key
    PROVE  /\ n = Len(Top.obj) + 1 /\ FieldAt(o[n]) = Field /\ o[n][3] \in Nat
           /\ IsPrefix(Item(Top.obj, Top.msg, Top.field, o[n][3]), o)
<1> DEFINE j == o[n][3]
           item == Item(Top.obj, Top.msg, Top.field, j)
<1>1. /\ Top.field \in DOMAIN Msg[Top.msg] /\ Top.msg \in Messages /\ Top.obj \in Path
      /\ Key = Item(Top.obj, Top.msg, Top.field, 0) /\ Len(Key) = Len(Top.obj) + 1
      /\ Last(Key) = <<Top.msg, Top.field, 0>> /\ FieldAt(Last(Key)) = Field /\ Len(Top.obj) \in Nat
      /\ Key \in Path
  BY AtTop, FieldHere DEF Inner
<1>2. /\ Len(MemberOf(o, n)) = n /\ \A k \in 1 .. n - 1 : MemberOf(o, n)[k] = o[k]
      /\ MemberOf(o, n)[n] = <<o[n][1], o[n][2], 0>>
      /\ FieldAt(Last(MemberOf(o, n))) = FieldAt(o[n])
  BY MemberOfPath, FieldOfMember
<1>3. o[n] = <<o[n][1], o[n][2], o[n][3]>> /\ j \in Nat /\ Len(o) \in Nat
  <2>1. o[n] \in Messages \X Nat \X Nat /\ Len(o) \in Nat
    BY PathSeq DEF Path
  <2> QED BY <2>1
<1>4. n = Len(Top.obj) + 1 /\ FieldAt(o[n]) = Field
  BY <1>1, <1>2
<1>5. \A k \in 1 .. Len(Top.obj) : Key[k] = Top.obj[k]
  <2>1. 0 \in Nat
    OBVIOUS
  <2> QED BY <1>1, <2>1, Extended
<1>6. Key[n] = <<Top.msg, Top.field, 0>>
  BY <1>1, <1>4, FrontLast DEF Inner
<1>7. o[n] = <<Top.msg, Top.field, j>>
  BY <1>2, <1>3, <1>6
<1> HIDE DEF j
<1>8. /\ Len(item) = Len(Top.obj) + 1 /\ item \in Path
      /\ \A k \in 1 .. Len(Top.obj) : item[k] = Top.obj[k]
      /\ item[Len(Top.obj) + 1] = <<Top.msg, Top.field, j>>
  BY <1>1, <1>3, Extended DEF Inner
<1> HIDE DEF item
<1>9. Len(item) <= Len(o) /\ \A k \in 1 .. Len(item) : item[k] = o[k]
  <2>1. Len(item) <= Len(o)
    BY <1>1, <1>3, <1>4, <1>8
  <2> SUFFICES ASSUME NEW k \in 1 .. Len(item)
               PROVE  item[k] = o[k]
    BY <2>1
  <2>2. CASE k = n
    BY <1>4, <1>7, <1>8, <2>2
  <2>3. CASE k # n
    <3>1. k \in 1 .. Len(Top.obj) /\ k \in 1 .. n - 1
      BY <1>1, <1>4, <1>8, <2>3
    <3> QED BY <1>2, <1>5, <1>8, <3>1
  <2> QED BY <2>2, <2>3
<1>10. IsPrefix(item, o)
  BY <1>8, <1>9, PrefixSteps
<1> QED BY <1>3, <1>4, <1>10 DEF item, j

\* A memory that differs in the field at Top: what stands through it is in the item.
LEMMA LeanAtKey ==
    ASSUME Calls, AtField(Top), NEW c, NEW m, LeanBut(m, c), NEW r \in Memory, r.done = m.done,
           Housed(r),
           \A q \in Inner : q # Key => /\ FieldAt(Last(q)).rule = "oneof" /\ q \in r.has => q \in m.has
                                       /\ q \in r.ptr => q \in m.ptr
                                       /\ Get(r.count, q) = Get(m.count, q),
           \A o \in DOMAIN m.done : \A n \in 1 .. Len(o) :
               MemberOf(o, n) = Key /\ Visits(r, o, n) => IsPrefix(c, o) \/ Visits(m, o, n)
    PROVE  LeanBut(r, c)
<1>1. m \in Memory /\ Housed(m) /\ \A q : Get(m.count, q) \in Nat
  <2>1. m \in Memory /\ Housed(m)
    BY DEF LeanBut, Housed
  <2> QED BY <2>1, CountsParts DEF Memory
<1>2. ASSUME NEW o \in DOMAIN m.done, Standing(r, o), ~IsPrefix(c, o)
      PROVE  Standing(m, o)
  <2>1. /\ o \in Path
        /\ \A n \in 1 .. Len(o) : FieldAt(Last(MemberOf(o, n))) = FieldAt(o[n]) /\ MemberOf(o, n) \in Inner
    BY <1>1, HousedPath
  <2>2. ASSUME NEW n \in 1 .. Len(o)
        PROVE  Visits(m, o, n)
    <3> DEFINE q == MemberOf(o, n)
    <3>1. Visits(r, o, n) /\ q \in Inner /\ FieldAt(Last(q)) = FieldAt(o[n])
      BY <1>2, <2>1 DEF Standing
    <3>2. CASE q = Key
      BY <1>2, <3>1, <3>2
    <3>3. CASE q # Key
      <4>1. /\ FieldAt(o[n]).rule = "oneof" /\ q \in r.has => q \in m.has
            /\ q \in r.ptr => q \in m.ptr
            /\ Get(r.count, q) <= Get(m.count, q)
        BY <1>1, <3>1, <3>3
      <4> QED BY <1>1, <2>1, <3>1, <4>1, VisitsKept
    <3> QED BY <3>2, <3>3
  <2> QED BY <2>2 DEF Standing
<1> QED BY <1>2 DEF LeanBut

\* What stands through a field that is no array is in its only item.
LEMMA OnlyItem ==
    ASSUME Calls, AtField(Top), ~Array(Field), NEW r, NEW m, Housed(m), NEW o \in DOMAIN m.done,
           NEW n \in 1 .. Len(o), MemberOf(o, n) = Key, Visits(r, o, n)
    PROVE  IsPrefix(Item(Top.obj, Top.msg, Top.field, 1), o)
<1>1. o \in Path /\ o[n][3] \in Nat /\ o[n][3] > 0
  BY HousedPath
<1>2. FieldAt(o[n]) = Field /\ IsPrefix(Item(Top.obj, Top.msg, Top.field, o[n][3]), o)
  BY <1>1, ThroughKey
<1>3. Items(r, Field, Key) = 1
  BY DEF Items, Array
<1>4. o[n][3] <= 1
  BY <1>1, <1>2, <1>3 DEF Visits
<1>5. o[n][3] = 1
  BY <1>1, <1>4
<1> QED BY <1>2, <1>5
\* The memory of Lean, and what is counted in it.
LEMMA HousedMem ==
    ASSUME NEW m, Housed(m)
    PROVE  m \in Memory /\ Blocked(m) /\ \A q : Get(m.count, q) \in Nat
<1>1. m \in Memory /\ Blocked(m)
  BY DEF Housed
<1> QED BY <1>1, CountsParts DEF Memory

\* A way stays when what marks it does.
LEMMA HousedMore ==
    ASSUME NEW m, Housed(m), NEW r \in Memory, Blocked(r), r.done = m.done,
           \A q \in m.has : FieldAt(Last(q)).rule = "optional" => q \in r.has,
           \A q \in Inner : Get(m.count, q) <= Get(r.count, q)
    PROVE  Housed(r)
<1>1. \A q : Get(m.count, q) \in Nat /\ Get(r.count, q) \in Nat
  BY HousedMem, CountsParts DEF Memory
<1>2. ASSUME NEW o \in DOMAIN m.done
      PROVE  Homed(r, o)
  <2> SUFFICES ASSUME NEW k \in 1 .. Len(o), FieldAt(o[k]).alloc = "static"
               PROVE  /\ FieldAt(o[k]).rule = "optional" => MemberOf(o, k) \in r.has
                      /\ FieldAt(o[k]).rule = "repeated" => o[k][3] <= Get(r.count, MemberOf(o, k))
    BY DEF Homed
  <2>1. /\ FieldAt(Last(MemberOf(o, k))) = FieldAt(o[k]) /\ Homed(m, o) /\ o[k][3] \in Nat
        /\ MemberOf(o, k) \in Inner
    BY HousedPath
  <2>2. Get(m.count, MemberOf(o, k)) <= Get(r.count, MemberOf(o, k))
    BY <2>1
  <2>3. FieldAt(o[k]).rule = "repeated" => o[k][3] <= Get(m.count, MemberOf(o, k))
    BY <2>1 DEF Homed
  <2>4. FieldAt(o[k]).rule = "optional" => MemberOf(o, k) \in r.has
    BY <2>1 DEF Homed
  <2> QED BY <1>1, <2>1, <2>2, <2>3, <2>4
<1> QED BY <1>2 DEF Housed

\* The count of one array.
LEMMA CountedHere ==
    ASSUME NEW m \in Memory, NEW p \in Inner, NEW n \in Nat
    PROVE  /\ Get(Put(m.count, p, n), p) = n
           /\ \A q : q # p => Get(Put(m.count, p, n), q) = Get(m.count, q)
  BY DEF Get, Put

\* which_ names the field at Top: what comes to stand is in its item.
LEMMA LeanWhich ==
    ASSUME Calls, AtField(Top), ~Array(Field), NEW m, Lean(m)
    PROVE  LeanBut(Which(m, Key), Item(Top.obj, Top.msg, Top.field, 1))
<1> DEFINE r == Which(m, Key)
           c == Item(Top.obj, Top.msg, Top.field, 1)
<1>1. Housed(m) /\ m \in Memory /\ Blocked(m) /\ Key \in Inner /\ \A q : Get(m.count, q) \in Nat
  BY FieldHere, HousedMem DEF Lean
<1>2. /\ r \in Memory /\ r.done = m.done /\ r.count = m.count
      /\ r.ptr = m.ptr /\ r.room = m.room
      /\ \A s : s \in r.has <=>
            s = Key \/ (s \in m.has /\ ~(Front(s) = Front(Key) /\ FieldAt(Last(s)).rule = "oneof"))
  BY <1>1, WhichMem
<1>3. LeanBut(m, c)
  BY LeanLeanBut
<1> HIDE DEF r
<1>4. Blocked(r)
  BY <1>1, <1>2 DEF Blocked
<1>5. Housed(r)
  <2>1. \A q \in m.has : FieldAt(Last(q)).rule = "optional" => q \in r.has
    BY <1>2
  <2>2. \A q \in Inner : Get(m.count, q) <= Get(r.count, q)
    BY <1>1, <1>2
  <2> QED BY <1>1, <1>2, <1>4, <2>1, <2>2, HousedMore
<1>6. ASSUME NEW o \in DOMAIN m.done, NEW n \in 1 .. Len(o), MemberOf(o, n) = Key, Visits(r, o, n)
      PROVE  IsPrefix(c, o)
  BY <1>1, <1>6, OnlyItem
<1> HIDE DEF c
<1>7. LeanBut(r, c)
  BY <1>2, <1>3, <1>5, <1>6, LeanAtKey
<1> QED BY <1>7 DEF r, c

\* A block for the field at Top: what comes to stand is in its item.
LEMMA LeanBlock ==
    ASSUME Calls, AtField(Top), ~Array(Field), NEW m,
           LeanBut(m, Item(Top.obj, Top.msg, Top.field, 1))
    PROVE  LeanBut(Allocated(m, Key, 1), Item(Top.obj, Top.msg, Top.field, 1))
<1> DEFINE j == 1
           r == Allocated(m, Key, j)
           c == Item(Top.obj, Top.msg, Top.field, 1)
<1>1. Housed(m) /\ m \in Memory /\ Blocked(m) /\ Key \in Inner /\ \A q : Get(m.count, q) \in Nat
  BY FieldHere, HousedMem DEF LeanBut
<1>2. j \in Nat
  OBVIOUS
<1> HIDE DEF j
<1>3. /\ r \in Memory /\ r.done = m.done /\ r.count = m.count /\ r.has = m.has
      /\ r.ptr = m.ptr \cup {Key} /\ Blocked(r)
  BY <1>1, <1>2, AllocatedMem, AllocatedBlocked
<1> HIDE DEF r
<1>4. Housed(r)
  <2>1. \A q \in Inner : Get(m.count, q) <= Get(r.count, q)
    BY <1>1, <1>3
  <2> QED BY <1>1, <1>3, <2>1, HousedMore
<1>5. ASSUME NEW o \in DOMAIN m.done, NEW n \in 1 .. Len(o), MemberOf(o, n) = Key, Visits(r, o, n)
      PROVE  IsPrefix(c, o)
  BY <1>1, <1>5, OnlyItem
<1>6. LeanBut(m, c)
  OBVIOUS
<1> HIDE DEF c
<1>7. LeanBut(r, c)
  BY <1>3, <1>4, <1>5, <1>6, LeanAtKey
<1> QED BY <1>7 DEF r, c, j

\* The way through an item of the field at Top.
LEMMA ThroughItem ==
    ASSUME Calls, AtField(Top), NEW j \in Nat, NEW o \in Path,
           IsPrefix(Item(Top.obj, Top.msg, Top.field, j), o)
    PROVE  \E n \in 1 .. Len(o) : MemberOf(o, n) = Key /\ o[n][3] = j /\ FieldAt(o[n]) = Field
<1> DEFINE c == Item(Top.obj, Top.msg, Top.field, j)
           n == Len(Top.obj) + 1
<1>1. /\ Top.field \in DOMAIN Msg[Top.msg] /\ Top.msg \in Messages /\ Top.obj \in Path
      /\ Key = Item(Top.obj, Top.msg, Top.field, 0) /\ Len(Top.obj) \in Nat
  BY AtTop, FieldHere
<1>2. c \in Path /\ Len(c) = n /\ c[n] = <<Top.msg, Top.field, j>>
  BY <1>1, Extended DEF Inner
<1>3. MemberOf(c, n) = Item(Top.obj, Top.msg, Top.field, 0)
  BY <1>1, MemberOfLast
<1> HIDE DEF c
<1>4. Len(c) <= Len(o) /\ \A k \in 1 .. Len(c) : c[k] = o[k]
  BY <1>2, PrefixSteps DEF c
<1>5. n \in 1 .. Len(o) /\ n \in 1 .. Len(c) /\ Len(o) \in Nat
  BY <1>1, <1>2, <1>4, PathSeq
<1>6. o[n] = <<Top.msg, Top.field, j>>
  BY <1>2, <1>4, <1>5
<1>7. MemberOf(c, n) = MemberOf(o, n)
  <2>1. n <= Len(o) /\ \A k \in 1 .. n : c[k] = o[k]
    BY <1>2, <1>4, <1>5
  <2> QED BY <1>2, <1>5, <2>1, SameMember
<1>8. FieldAt(o[n]) = Field /\ o[n][3] = j
  BY <1>6 DEF FieldAt, Field
<1> HIDE DEF n
<1> QED BY <1>1, <1>5, <1>7, <1>8, <1>3

\* One item more of a static array: nothing was read of it.
LEMMA LeanStaticItem ==
    ASSUME Calls, AtField(Top), Array(Field), Field.alloc = "static", Lean(mem),
           NEW n \in Nat, n = Get(mem.count, Key) + 1, n <= Field.cap
    PROVE  Lean(Counted(mem, Key, n))
<1> DEFINE r == Counted(mem, Key, n)
           f == Put(mem.count, Key, n)
           c == Item(Top.obj, Top.msg, Top.field, n)
<1>1. /\ Housed(mem) /\ mem \in Memory /\ Blocked(mem) /\ Key \in Inner
      /\ FieldAt(Last(Key)) = Field /\ Field.cap \in Nat /\ Field \in FieldType
      /\ \A q : Get(mem.count, q) \in Nat
      /\ Top.field \in DOMAIN Msg[Top.msg] /\ Top.msg \in Messages
  BY AtTop, FieldHere, HousedMem DEF Lean
<1>2. CASE Field.type # "message"
  BY <1>1, <1>2, LeanPlain
<1>3. CASE Field.type = "message"
  <2>1. Field.rule = "repeated"
    BY <1>1, <1>3, FixedStatic DEF Array, Field
  <2>2. /\ r \in Memory /\ r.done = mem.done /\ r.has = mem.has /\ r.count = f
        /\ r.ptr = mem.ptr /\ r.room = mem.room
    BY <1>1, CountedMem
  <2>3. Get(f, Key) = n /\ \A q : q # Key => Get(f, q) = Get(mem.count, q)
    BY <1>1, CountedHere
  <2> HIDE DEF r, f
  <2>4. Blocked(r)
    BY <1>1, <2>2 DEF Blocked
  <2>5. Housed(r)
    <3>1. \A q \in Inner : Get(mem.count, q) <= Get(r.count, q)
      BY <1>1, <2>2, <2>3
    <3> QED BY <1>1, <2>2, <2>4, <3>1, HousedMore
  <2>6. ASSUME NEW o \in DOMAIN mem.done, NEW k \in 1 .. Len(o), MemberOf(o, k) = Key
        PROVE  o[k][3] <= Get(mem.count, Key) /\ o[k][3] \in Nat /\ FieldAt(o[k]) = Field
    <3>1. Homed(mem, o) /\ FieldAt(o[k]) = Field /\ o[k][3] \in Nat
      BY <1>1, <2>6, HousedPath
    <3> QED BY <2>1, <2>6, <3>1 DEF Homed
  <2>7. ASSUME NEW o \in DOMAIN mem.done, NEW k \in 1 .. Len(o), MemberOf(o, k) = Key
        PROVE  Visits(mem, o, k)
    <3>1. o[k][3] <= Get(mem.count, Key) /\ o[k][3] \in Nat /\ FieldAt(o[k]) = Field
      BY <2>6, <2>7
    <3>2. Items(mem, Field, Key) = Min({Field.cap, Get(mem.count, Key)})
      BY <2>1 DEF Items
    <3>3. Min({Field.cap, Get(mem.count, Key)}) = Get(mem.count, Key)
      <4> DEFINE a == Field.cap
                 b == Get(mem.count, Key)
      <4>1. a \in Nat /\ b \in Nat /\ b < a
        BY <1>1
      <4> HIDE DEF a, b
      <4>2. Min({a, b}) = b
        BY <4>1, MinOfTwo
      <4> QED BY <4>2 DEF a, b
    <3> QED BY <2>1, <2>7, <3>1, <3>2, <3>3 DEF Visits
  <2>8. LeanBut(mem, c)
    BY LeanLeanBut
  <2> HIDE DEF c
  <2>9. LeanBut(r, c)
    BY <2>2, <2>3, <2>5, <2>7, <2>8, LeanAtKey
  <2>10. ASSUME NEW o \in DOMAIN r.done
         PROVE  ~IsPrefix(c, o)
    <3> SUFFICES ASSUME IsPrefix(c, o)
                 PROVE  FALSE
      OBVIOUS
    <3>1. o \in Path /\ o \in DOMAIN mem.done
      BY <1>1, <2>2, HousedPath
    <3>2. PICK k \in 1 .. Len(o) : MemberOf(o, k) = Key /\ o[k][3] = n
      BY <3>1, ThroughItem DEF c
    <3>3. n <= Get(mem.count, Key) /\ Get(mem.count, Key) \in Nat
      BY <1>1, <2>6, <3>1, <3>2
    <3> QED BY <3>3
  <2>11. Lean(r)
    BY <2>5, <2>9, <2>10, LeanNone
  <2> QED BY <2>11 DEF r
<1> QED BY <1>2, <1>3

\* One item more of an array of pointers, which has a block from now on: what
\* comes to stand is in that item, for there was one if there was another.
LEMMA LeanPointerItem ==
    ASSUME Calls, Counting, Busy, ret = "none", AtField(Top), Array(Field),
           Field.alloc = "pointer", Lean(mem), NEW n \in Nat, n = Get(mem.count, Key) + 1
    PROVE  LeanBut(Allocated(Counted(mem, Key, n), Key, n), Item(Top.obj, Top.msg, Top.field, n))
<1> DEFINE a == Counted(mem, Key, n)
           f == Put(mem.count, Key, n)
           r == Allocated(a, Key, n)
           c == Item(Top.obj, Top.msg, Top.field, n)
<1>1. /\ Housed(mem) /\ mem \in Memory /\ Blocked(mem) /\ Key \in Inner
      /\ FieldAt(Last(Key)) = Field /\ Field \in FieldType
      /\ \A q : Get(mem.count, q) \in Nat
      /\ Top.field \in DOMAIN Msg[Top.msg] /\ Top.msg \in Messages
  BY AtTop, FieldHere, HousedMem DEF Lean
<1>2. Field.rule = "repeated"
  BY <1>1, FixedStatic DEF Array, Field
<1>3. /\ a \in Memory /\ a.done = mem.done /\ a.has = mem.has /\ a.count = f
      /\ a.ptr = mem.ptr /\ a.room = mem.room
  BY <1>1, CountedMem
<1>4. Get(f, Key) = n /\ \A q : q # Key => Get(f, q) = Get(mem.count, q)
  BY <1>1, CountedHere
<1> HIDE DEF a, f
<1>5. Blocked(a)
  BY <1>1, <1>3 DEF Blocked
<1>6. /\ r \in Memory /\ r.done = a.done /\ r.count = a.count /\ r.has = a.has
      /\ r.ptr = a.ptr \cup {Key} /\ Blocked(r)
  BY <1>1, <1>3, <1>5, AllocatedMem, AllocatedBlocked
<1> HIDE DEF r
<1>7. Housed(r)
  <2>1. \A q \in Inner : Get(mem.count, q) <= Get(r.count, q)
    BY <1>1, <1>3, <1>4, <1>6
  <2> QED BY <1>1, <1>3, <1>6, <2>1, HousedMore
<1>8. Get(mem.count, Key) > 0 => Key \in mem.ptr
  <2>1. Get(mem.count, Key) <= Get(mem.room, Key) /\ Get(mem.room, Key) \in Nat
    BY KeyArray
  <2> QED BY <1>1, <2>1 DEF Blocked, Get
<1>9. ASSUME NEW o \in DOMAIN mem.done, NEW k \in 1 .. Len(o), MemberOf(o, k) = Key, Visits(r, o, k)
      PROVE  IsPrefix(c, o) \/ Visits(mem, o, k)
  <2>1. o \in Path /\ o[k][3] \in Nat /\ o[k][3] > 0
    BY <1>1, HousedPath
  <2>2. FieldAt(o[k]) = Field /\ IsPrefix(Item(Top.obj, Top.msg, Top.field, o[k][3]), o)
    BY <1>9, <2>1, ThroughKey
  <2>3. Items(r, Field, Key) = n /\ Items(mem, Field, Key) = Get(mem.count, Key)
    BY <1>2, <1>3, <1>4, <1>6 DEF Items
  <2>4. o[k][3] <= n
    BY <1>9, <2>1, <2>2, <2>3 DEF Visits
  <2>5. CASE o[k][3] = n
    BY <2>2, <2>5
  <2>6. CASE o[k][3] # n
    <3>1. o[k][3] <= Get(mem.count, Key) /\ Get(mem.count, Key) > 0
      BY <1>1, <2>1, <2>4, <2>6
    <3>2. Key \in mem.ptr
      BY <1>8, <3>1
    <3> QED BY <1>2, <1>9, <2>2, <2>3, <3>1, <3>2 DEF Visits
  <2> QED BY <2>5, <2>6
<1>10. LeanBut(mem, c)
  BY LeanLeanBut
<1> HIDE DEF c
<1>11. LeanBut(r, c)
  BY <1>3, <1>4, <1>6, <1>7, <1>9, <1>10, LeanAtKey
<1> QED BY <1>11 DEF r, a, c

\* Reading more completes.
LEMMA LeanRead ==
    ASSUME NEW m, Lean(m), NEW o \in DOMAIN m.done, NEW i \in Nat
    PROVE  Lean(ReadAt(m, o, i))
<1> DEFINE r == ReadAt(m, o, i)
<1>1. Housed(m) /\ m \in Memory /\ Blocked(m) /\ \A q : Get(m.count, q) \in Nat
  BY HousedMem DEF Lean
<1>2. /\ r \in Memory /\ r.ptr = m.ptr /\ r.has = m.has /\ r.count = m.count /\ r.room = m.room
      /\ DOMAIN r.done = DOMAIN m.done /\ r.done[o] = m.done[o] \cup {i}
      /\ \A q \in DOMAIN m.done : q # o => r.done[q] = m.done[q]
  BY <1>1, ReadMem
<1> HIDE DEF r
<1>3. \A q \in DOMAIN r.done : m.done[q] \subseteq r.done[q]
  BY <1>2
<1>4. Housed(r)
  BY <1>1, <1>2 DEF Housed, Homed, Blocked
<1>5. Lean(r)
  BY <1>1, <1>2, <1>3, <1>4, LeanLessAll
<1> QED BY <1>5 DEF r
\* The message of an object that is read.
LEMMA TypeReached ==
    ASSUME NEW o \in Path, NEW m, Reaches(root, o, m)
    PROVE  TypeAt(o) = m
<1>1. o \in Seq(Messages \X Nat \X Nat) /\ Len(o) \in Nat
  BY PathSeq
<1>2. CASE o = <<>>
  <2>1. Len(o) = 0
    BY <1>2
  <2> QED BY <1>2, <2>1 DEF Reaches, TypeAt
<1>3. CASE o # <<>>
  <2>1. Len(o) > 0
    BY <1>1, <1>3
  <2>2. Last(o) = o[Len(o)] /\ Holds(o[Len(o)], m)
    BY <2>1 DEF Last, Reaches
  <2> QED BY <1>3, <2>2 DEF TypeAt, Holds
<1> QED BY <1>2, <1>3

\* The memory a call goes on from.
LEMMA NowSettling ==
    ASSUME Calls, Settling, Busy, ret = "none"
    PROVE  Lean(mem) /\ Housed(mem) /\ SeenRead(Top, mem) /\ Marked(Top, mem)
<1>1. Lean(mem)
  BY LeanNow
<1>2. depth \in 1 .. depth /\ Top = frames[depth]
  BY DecodeAssumption DEF Calls, Typed, Top
<1> QED BY <1>1, <1>2 DEF Lean, Settling

\* What was read stays read.
LEMMA SeenStays ==
    ASSUME NEW fr, NEW m, SeenRead(fr, mem), NEW f, f.kind = fr.kind, f.msg = fr.msg, f.obj = fr.obj,
           f.seen = fr.seen, mem.done[fr.obj] \subseteq m.done[fr.obj],
           \A i \in fr.seen : i \in Checked(fr.msg) /\ Msg[fr.msg][i].alloc # "callback"
                 /\ fr.field = i /\ fr.phase \in {"field", "value", "inside"} =>
               i \in m.done[fr.obj] \/ (f.field = i /\ f.phase \in {"field", "value", "inside"})
    PROVE  SeenRead(f, m)
  BY DEF SeenRead

\* A call that reads on, or has read all.
LEMMA MovedSettling ==
    ASSUME Calls, Calls', Settling, Busy, ret = "none", Top.kind # "outer",
           NEW fr, frames' = [frames EXCEPT ![depth] = fr],
           depth' = depth, call' = call, root' = root, ret' \in {"none", "ok"},
           fr.kind = Top.kind, fr.obj = Top.obj, fr.msg = Top.msg,
           Lean(mem'), ret' = "none" => SeenRead(fr, mem') /\ Marked(fr, mem'),
           ret' = "ok" /\ Top.kind = "message" => Complete(mem, Top.obj)
    PROVE  Settling'
<1>1. /\ frames \in [1 .. MaxDepth -> Frame] /\ depth \in 1 .. MaxDepth /\ MaxDepth \in Nat
      /\ Busy' /\ call' \notin {"held", "idle"} /\ Top = frames[depth]
  BY DecodeAssumption DEF Calls, Typed, Busy, Top
<1>2. /\ \A d \in 1 .. depth : frames'[d] = IF d = depth THEN fr ELSE frames[d]
      /\ Top' = fr
  BY <1>1 DEF Top
<1>3. Housed(mem)'
  BY DEF Lean, Housed, Blocked, Homed, TypeAt, Reaches, Placed
<1>4. ASSUME NEW o \in DOMAIN mem'.done, Standing(mem', o)
      PROVE  InProgress(o)' \/ Complete(mem, o)'
  <2>1. o \in DOMAIN mem.done /\ mem.done[o] \subseteq mem'.done[o] /\ Standing(mem, o)
    BY <1>4 DEF Lean
  <2>2. InProgress(o) \/ Complete(mem, o)
    BY <2>1 DEF Settling
  <2>3. Complete(mem, o) => Complete(mem, o)'
    BY <2>1 DEF Complete, TypeAt
  <2>4. CASE InProgress(o)
    <3>1. PICK d \in 1 .. depth :
             frames[d].kind = "message" /\ frames[d].obj = o /\ (d = depth => ret = "none")
      BY <2>4 DEF InProgress
    <3>2. frames'[d].kind = "message" /\ frames'[d].obj = o /\ d \in 1 .. depth'
      BY <1>1, <1>2, <3>1
    <3>3. CASE d = depth /\ ret' = "ok"
      BY <1>1, <2>3, <3>1, <3>3
    <3>4. CASE d # depth \/ ret' = "none"
      BY <1>1, <3>2, <3>4 DEF InProgress
    <3> QED BY <3>3, <3>4
  <2> QED BY <2>2, <2>3, <2>4
<1>5. ASSUME NEW d \in 1 .. depth, d = depth => ret' = "none"
      PROVE  SeenRead(frames'[d], mem')
  <2>1. CASE d = depth
    BY <1>2, <1>5, <2>1
  <2>2. CASE d # depth /\ frames[d].kind = "message"
    <3>1. SeenRead(frames[d], mem)
      BY <2>2 DEF Settling
    <3>2. frames'[d] = frames[d] /\ frames'[d].obj \in DOMAIN mem'.done
      BY <1>1, <1>2, <2>2 DEF Calls, EnteredAll
    <3>3. mem.done[frames[d].obj] \subseteq mem'.done[frames[d].obj]
      BY <3>2 DEF Lean
    <3> QED BY <3>1, <3>2, <3>3 DEF SeenRead
  <2>3. CASE d # depth /\ frames[d].kind # "message"
    BY <1>2, <2>3 DEF SeenRead
  <2> QED BY <2>1, <2>2, <2>3
<1>6. ASSUME NEW d \in 1 .. depth - 1
      PROVE  CalledBack(frames'[d], frames'[d + 1])
  <2>1. CalledBack(frames[d], frames[d + 1])
    BY DEF Settling
  <2>2. d \in 1 .. depth /\ d + 1 \in 1 .. depth /\ d # depth
    BY <1>1
  <2>3. frames'[d] = frames[d] /\ frames'[d + 1].kind = frames[d + 1].kind
    BY <1>1, <1>2, <2>2
  <2> QED BY <2>1, <2>3 DEF CalledBack
<1>7. (\A o \in DOMAIN mem.done : Standing(mem, o) => InProgress(o) \/ Complete(mem, o))'
  BY <1>4 DEF Standing, Visits, Items, Get
<1>8. (\A d \in 1 .. depth : (d = depth => ret = "none") => SeenRead(frames[d], mem))'
  BY <1>5 DEF SeenRead, Checked, Required
<1>9. (ret = "none" => Marked(Top, mem))'
  BY <1>2 DEF Marked
<1>10. (\A d \in 1 .. depth - 1 : CalledBack(frames[d], frames[d + 1]))'
  BY <1>6 DEF CalledBack
<1> QED BY <1>1, <1>3, <1>7, <1>8, <1>9, <1>10 DEF Settling

\* A call that stays with its field.
LEMMA StaySettling ==
    ASSUME Calls, Calls', Settling, Busy, ret = "none", Top.kind # "outer",
           NEW fr, NEW m, Stay(fr, m),
           fr.kind = Top.kind, fr.obj = Top.obj, fr.msg = Top.msg,
           Lean(m), SeenRead(fr, m), Marked(fr, m)
    PROVE  Settling'
<1>1. /\ frames' = [frames EXCEPT ![depth] = fr] /\ depth' = depth /\ call' = call
      /\ root' = root /\ ret' = "none" /\ mem' = m
  BY DEF Stay
<1> QED BY <1>1, MovedSettling

\* The message the innermost call is at was entered.
LEMMA TopEntered ==
    ASSUME Calls, Busy, Top.kind # "outer"
    PROVE  Top.obj \in DOMAIN mem.done
  BY DecodeAssumption DEF Calls, Typed, EnteredAll, Top

\* One that goes on to the next tag.
LEMMA TagSettling ==
    ASSUME Calls, Calls', Settling, Busy, ret = "none", Top.kind = "message",
           NEW n \in Nat, n <= Top.left, NEW m, Stay(NextTag(Took(Top, n)), m), Lean(m),
           Top.obj \in DOMAIN m.done,
           Top.phase \in {"field", "value", "inside"} /\ Top.field \in Checked(Top.msg)
               /\ Field.alloc # "callback" => Top.field \in m.done[Top.obj]
    PROVE  Settling'
<1> DEFINE t == Took(Top, n)
           fr == NextTag(t)
<1>1. t \in Frame /\ Like(t, Top) /\ t.seen = Top.seen
  BY AtTop, TookFields
<1>2. Like(fr, t) /\ fr.phase = "tag" /\ fr.seen = t.seen
  BY <1>1, NextTagFields
<1>3. Stay(fr, m)
  OBVIOUS
<1> HIDE DEF t, fr
<1>4. fr.kind = Top.kind /\ fr.obj = Top.obj /\ fr.msg = Top.msg /\ fr.seen = Top.seen
  BY <1>1, <1>2 DEF Like
<1>5. mem.done[Top.obj] \subseteq m.done[Top.obj]
  BY DEF Lean
<1>6. SeenRead(Top, mem)
  BY NowSettling
<1>7. SeenRead(fr, m)
  BY <1>4, <1>5, <1>6, SeenStays DEF Field
<1>8. Marked(fr, m)
  BY <1>2 DEF Marked
<1> QED BY <1>3, <1>4, <1>7, <1>8, StaySettling

\* One that goes on to a value.
LEMMA ToValueSettling ==
    ASSUME Calls, Calls', Settling, Running("message", "field"), NEW m, Lean(m), ToValue(m),
           Field.rule = "optional" /\ Field.alloc = "static" => Key \in m.has
    PROVE  Settling'
<1> DEFINE fr == [Top EXCEPT !.phase = "value"]
<1>1. /\ fr.kind = Top.kind /\ fr.obj = Top.obj /\ fr.msg = Top.msg /\ fr.seen = Top.seen
      /\ fr.field = Top.field /\ fr.phase = "value" /\ Stay(fr, m)
  BY AtTop DEF Frame, ToValue
<1>2. Busy /\ ret = "none" /\ Top.kind = "message" /\ Top.phase = "field"
  BY DEF Running
<1> HIDE DEF fr
<1>3. Top.obj \in DOMAIN m.done
  <2>1. mem' = m /\ frames'[depth] = fr /\ depth' = depth /\ Busy' /\ depth \in 1 .. depth
    BY <1>1, <1>2, DecodeAssumption DEF Stay, Calls, Typed, Busy
  <2> QED BY <1>1, <1>2, <2>1 DEF Calls, EnteredAll
<1>4. mem.done[Top.obj] \subseteq m.done[Top.obj]
  BY <1>3 DEF Lean
<1>5. SeenRead(Top, mem)
  BY <1>2, NowSettling
<1>6. SeenRead(fr, m)
  BY <1>1, <1>4, <1>5, SeenStays
<1>7. Marked(fr, m)
  BY <1>1 DEF Marked, Field, Key
<1> QED BY <1>1, <1>2, <1>6, <1>7, StaySettling

\* A call that fails promises nothing.
LEMMA FailSettling ==
    ASSUME Calls, Settling, Busy, NEW m, Fail(m)
    PROVE  Settling'
<1>1. /\ ret' = "fail" /\ call' \notin {"held", "idle"} /\ frames' = frames /\ depth' = depth
      /\ Busy'
  BY DEF Fail, Busy
<1> QED BY <1>1 DEF Settling, CalledBack

\* A call that calls another, for an object that is new or has its place.
LEMMA PushSettling ==
    ASSUME Calls, Calls', Settling, Busy, ret = "none", Top.phase \in {"field", "value"} \/ Top.kind = "outer",
           NEW n \in Nat, 1 + n <= Top.left, NEW child, Push(GaveUp(n), child),
           child.kind = "message" => child.phase = "tag", child.seen = {},
           child.kind = "callback" => Field.alloc = "callback",
           Housed(mem'),
           \A o \in DOMAIN mem'.done :
               \/ child.kind = "message" /\ child.obj = o
               \/ /\ o \in DOMAIN mem.done /\ mem.done[o] \subseteq mem'.done[o]
                  /\ Standing(mem', o) => Standing(mem, o)
    PROVE  Settling'
<1> DEFINE fr == GaveUp(n)
<1>1. /\ fr.kind = Top.kind /\ fr.obj = Top.obj /\ fr.msg = Top.msg
      /\ fr.seen = Top.seen /\ fr.field = Top.field /\ fr.phase = "inside"
  BY GaveUpFields DEF Like
<1>2. /\ depth' = depth + 1 /\ depth < MaxDepth /\ ret' = "none" /\ call' = call /\ root' = root
      /\ frames' = [frames EXCEPT ![depth] = fr, ![depth + 1] = child]
  BY DEF Push
<1> HIDE DEF fr
<1>3. /\ frames \in [1 .. MaxDepth -> Frame] /\ depth \in 1 .. MaxDepth /\ MaxDepth \in Nat
      /\ Busy' /\ call' \notin {"held", "idle"} /\ Top = frames[depth]
  BY <1>2, DecodeAssumption DEF Calls, Typed, Busy, Top
<1>4. /\ \A d \in 1 .. depth + 1 :
            frames'[d] = IF d = depth + 1 THEN child ELSE IF d = depth THEN fr ELSE frames[d]
      /\ Top' = child
  BY <1>2, <1>3 DEF Top
<1>5. Housed(mem)'
  BY <1>2 DEF Housed, Blocked, Homed, TypeAt, Reaches, Placed
<1>6. ASSUME NEW o \in DOMAIN mem'.done, Standing(mem', o)
      PROVE  InProgress(o)' \/ Complete(mem, o)'
  <2>1. CASE child.kind = "message" /\ child.obj = o
    <3>1. depth + 1 \in 1 .. depth' /\ frames'[depth + 1] = child
      BY <1>2, <1>3, <1>4
    <3> QED BY <1>2, <1>3, <2>1, <3>1 DEF InProgress
  <2>2. CASE ~(child.kind = "message" /\ child.obj = o)
    <3>1. o \in DOMAIN mem.done /\ mem.done[o] \subseteq mem'.done[o] /\ Standing(mem, o)
      BY <1>6, <2>2
    <3>2. InProgress(o) \/ Complete(mem, o)
      BY <3>1 DEF Settling
    <3>3. Complete(mem, o) => Complete(mem, o)'
      BY <1>2, <3>1 DEF Complete, TypeAt
    <3>4. CASE InProgress(o)
      <4>1. PICK d \in 1 .. depth : frames[d].kind = "message" /\ frames[d].obj = o
        BY <3>4 DEF InProgress
      <4>2. frames'[d].kind = "message" /\ frames'[d].obj = o /\ d \in 1 .. depth'
        BY <1>1, <1>2, <1>3, <1>4, <4>1
      <4> QED BY <1>2, <1>3, <4>2 DEF InProgress
    <3> QED BY <3>2, <3>3, <3>4
  <2> QED BY <2>1, <2>2
<1>7. ASSUME NEW d \in 1 .. depth'
      PROVE  SeenRead(frames'[d], mem')
  <2>1. CASE d = depth + 1
    BY <1>3, <1>4, <2>1 DEF SeenRead
  <2>2. CASE d # depth + 1 /\ frames[d].kind = "message"
    <3>1. d \in 1 .. depth /\ depth + 1 \in 1 .. depth' /\ d < depth + 1
      BY <1>2, <1>3, <2>2
    <3>2. SeenRead(frames[d], mem)
      BY <3>1 DEF Settling
    <3>3. /\ frames'[d].kind = frames[d].kind /\ frames'[d].obj = frames[d].obj
          /\ frames'[d].msg = frames[d].msg /\ frames'[d].seen = frames[d].seen
          /\ frames'[d].field = frames[d].field
          /\ frames[d].phase \in {"field", "value", "inside"} => frames'[d].phase \in {"field", "value", "inside"}
      BY <1>1, <1>3, <1>4, <3>1
    <3>4. frames'[d].obj \in DOMAIN mem'.done
      BY <1>3, <2>2, <3>3 DEF Calls, EnteredAll
    <3>5. ~(child.kind = "message" /\ child.obj = frames[d].obj)
      <4>1. frames'[depth + 1] = child
        BY <1>3, <1>4
      <4>2. child.kind = "message" => Len(frames'[d].obj) < Len(child.obj)
        BY <2>2, <3>1, <3>3, <4>1 DEF Calls, Stacked
      <4>3. Len(frames'[d].obj) \in Nat
        BY <1>3, <3>1, <3>3, PathSeq DEF Calls, Typed, FrameOK
      <4> QED BY <3>3, <4>2, <4>3
    <3>6. mem.done[frames[d].obj] \subseteq mem'.done[frames[d].obj]
      BY <3>3, <3>4, <3>5
    <3> QED BY <3>2, <3>3, <3>6, SeenStays
  <2>3. CASE d # depth + 1 /\ frames[d].kind # "message"
    <3>1. frames'[d].kind = frames[d].kind
      BY <1>1, <1>2, <1>3, <1>4, <2>3
    <3> QED BY <2>3, <3>1 DEF SeenRead
  <2> QED BY <2>1, <2>2, <2>3
<1>8. ASSUME NEW d \in 1 .. depth
      PROVE  CalledBack(frames'[d], frames'[d + 1])
  <2>1. d \in 1 .. depth + 1 /\ d + 1 \in 1 .. depth + 1
    BY <1>3
  <2>2. CASE d = depth
    BY <1>1, <1>4, <2>1, <2>2 DEF CalledBack, Field
  <2>3. CASE d # depth
    <3>1. d \in 1 .. depth - 1
      BY <1>3, <2>3
    <3>2. CalledBack(frames[d], frames[d + 1])
      BY <3>1 DEF Settling
    <3>3. frames'[d] = frames[d] /\ frames'[d + 1].kind = frames[d + 1].kind
      BY <1>1, <1>3, <1>4, <2>1, <2>3
    <3> QED BY <3>2, <3>3 DEF CalledBack
  <2> QED BY <2>2, <2>3
<1>9. (\A o \in DOMAIN mem.done : Standing(mem, o) => InProgress(o) \/ Complete(mem, o))'
  BY <1>6 DEF Standing, Visits, Items, Get
<1>10. (\A d \in 1 .. depth : (d = depth => ret = "none") => SeenRead(frames[d], mem))'
  BY <1>7 DEF SeenRead, Checked, Required
<1>11. Marked(Top, mem)'
  BY <1>4 DEF Marked
<1>12. (\A d \in 1 .. depth - 1 : CalledBack(frames[d], frames[d + 1]))'
  BY <1>2, <1>3, <1>8 DEF CalledBack
<1> QED BY <1>3, <1>5, <1>9, <1>10, <1>11, <1>12 DEF Settling
\* A message ends only when all its required fields were read.
LEMMA EndOfMessageSettling ==
    ASSUME Calls, Calls', Owned, Settling, EndOfMessage
    PROVE  Settling'
<1>1. Busy /\ ret = "none" /\ Top.kind = "message" /\ Top.phase = "tag"
  BY DEF EndOfMessage, Running
<1>2. CASE Fail(mem)
  BY <1>1, <1>2, FailSettling
<1>3. CASE ~Fail(mem)
  <2>1. /\ ~Missing(Top) /\ UNCHANGED <<depth, call, root, mem>> /\ ret' = "ok"
        /\ \E n \in {0, 1} : /\ n = 0 <=> Top.left = 0
                             /\ frames' = [frames EXCEPT ![depth] = Took(Top, n)]
    BY <1>3 DEF EndOfMessage
  <2>2. PICK n \in {0, 1} : /\ n = 0 <=> Top.left = 0
                            /\ frames' = [frames EXCEPT ![depth] = Took(Top, n)]
    BY <2>1
  <2>3. n \in Nat /\ n <= Top.left
    BY <2>2, AtTop
  <2>4. Like(Took(Top, n), Top)
    BY <2>3, AtTop, TookFields
  <2>5. TypeAt(Top.obj) = Top.msg
    BY <1>1, AtTop, NowSound, TypeReached
  <2>6. Complete(mem, Top.obj)
    <3>1. SeenRead(Top, mem) /\ Checked(Top.msg) \subseteq Top.seen
      BY <1>1, <2>1, NowSettling DEF Missing
    <3> QED BY <1>1, <2>5, <3>1 DEF Complete, SeenRead
  <2>7. Lean(mem')
    BY <1>1, <2>1, NowSettling
  <2> QED BY <1>1, <2>1, <2>2, <2>4, <2>6, <2>7, MovedSettling DEF Like
<1> QED BY <1>2, <1>3

\* The tag of a field of the message is read, and it is seen.
LEMMA KnownFieldSettling ==
    ASSUME Calls, Calls', Settling, NEW w \in Wires, NEW i \in DOMAIN Msg[Top.msg], KnownField(i, w)
    PROVE  Settling'
<1>1. Busy /\ ret = "none" /\ Top.kind = "message" /\ Top.phase = "tag" /\ Top.left > 0
  BY DEF KnownField, Running
<1> DEFINE f == Msg[Top.msg][i]
           fresh == f.rule = "fixed" /\ Top.fixed # i
           t == Took(Top, 1)
           wire == IF Looks(f) THEN w ELSE t.wire
           fixed == IF fresh THEN i ELSE t.fixed
           seen == IF i \in Checked(Top.msg) THEN t.seen \cup {i} ELSE t.seen
           fr == [t EXCEPT !.phase = "field", !.field = i, !.wire = wire,
                           !.fixed = fixed, !.seen = seen]
           z == 0
           p == Member(Top.obj, Top.msg, i)
           m == IF fresh THEN Counted(mem, p, z) ELSE mem
<1>2. 1 <= Top.left /\ 1 \in Nat /\ i \in Nat /\ Top.msg \in Messages /\ Top.obj \in Path
  BY <1>1, AtTop, FieldTyped
<1>3. t \in Frame /\ Like(t, Top) /\ t.seen = Top.seen
  BY <1>2, AtTop, TookFields
<1>4. IF fresh /\ Short(Top) THEN Fail(mem) ELSE Stay(fr, m)
  BY DEF KnownField
<1> HIDE DEF t, wire, fixed
<1>5. /\ fr.kind = t.kind /\ fr.obj = t.obj /\ fr.msg = t.msg /\ fr.seen = seen
      /\ fr.field = i /\ fr.phase = "field"
  BY <1>3 DEF Frame
<1>6. seen = IF i \in Checked(Top.msg) THEN Top.seen \cup {i} ELSE Top.seen
  BY <1>3
<1> HIDE DEF fr, seen
<1>7. fr.kind = Top.kind /\ fr.obj = Top.obj /\ fr.msg = Top.msg
  BY <1>3, <1>5 DEF Like
<1>8. Lean(m) /\ mem.done[Top.obj] \subseteq m.done[Top.obj]
  <2>1. Lean(mem) /\ mem \in Memory
    BY <1>1, NowSettling, AtTop
  <2>2. CASE ~fresh
    BY <2>1, <2>2
  <2>3. CASE fresh
    <3>1. z \in Nat /\ p = Item(Top.obj, Top.msg, i, z) /\ i \in DOMAIN Msg[Top.msg]
      BY DEF Member, Item
    <3> HIDE DEF z, p
    <3>2. p \in Inner /\ Last(p) = <<Top.msg, i, z>>
      BY <1>2, <3>1, Extended
    <3>3. FieldAt(Last(p)) = f
      BY <3>2 DEF FieldAt
    <3>4. f.type # "message"
      BY <1>2, <2>3, FixedStatic
    <3>5. Lean(Counted(mem, p, z))
      BY <2>1, <3>1, <3>2, <3>3, <3>4, LeanPlain
    <3>6. Counted(mem, p, z).done = mem.done
      BY <2>1, <3>1, <3>2, CountedMem
    <3> QED BY <2>3, <3>5, <3>6
  <2> QED BY <2>2, <2>3
<1> HIDE DEF m
<1>9. SeenRead(fr, m)
  <2>1. SeenRead(Top, mem)
    BY <1>1, NowSettling
  <2> SUFFICES ASSUME NEW k \in fr.seen, k \in Checked(fr.msg), Msg[fr.msg][k].alloc # "callback", k # i
               PROVE  k \in m.done[fr.obj]
    BY <1>5 DEF SeenRead
  <2>2. k \in Top.seen
    BY <1>5, <1>6
  <2>3. k \in mem.done[Top.obj]
    BY <1>1, <1>7, <2>1, <2>2 DEF SeenRead
  <2> QED BY <1>7, <1>8, <2>3
<1>10. Marked(fr, m)
  BY <1>5 DEF Marked
<1>11. CASE fresh /\ Short(Top)
  BY <1>1, <1>4, <1>11, FailSettling
<1>12. CASE ~(fresh /\ Short(Top))
  BY <1>1, <1>4, <1>7, <1>8, <1>9, <1>10, <1>12, StaySettling
<1> QED BY <1>11, <1>12

\* The tag of a field the message does not have is read.
LEMMA UnknownFieldSettling ==
    ASSUME Calls, Calls', Settling, NEW w \in Wires, UnknownField(w)
    PROVE  Settling'
<1> DEFINE t == Took(Top, 1)
           fr == [t EXCEPT !.phase = "skip", !.wire = w]
<1>1. /\ Busy /\ ret = "none" /\ Top.kind = "message" /\ Top.left > 0 /\ Top.phase = "tag"
      /\ Stay(fr, mem)
  BY DEF UnknownField, Running
<1>2. 1 \in Nat /\ 1 <= Top.left
  BY <1>1, AtTop
<1>3. t \in Frame /\ Like(t, Top) /\ t.seen = Top.seen
  BY <1>2, AtTop, TookFields
<1> HIDE DEF t
<1>4. /\ fr.kind = t.kind /\ fr.obj = t.obj /\ fr.msg = t.msg /\ fr.seen = t.seen
      /\ fr.phase = "skip"
  BY <1>3 DEF Frame
<1> HIDE DEF fr
<1>5. fr.kind = Top.kind /\ fr.obj = Top.obj /\ fr.msg = Top.msg /\ fr.seen = Top.seen
  BY <1>3, <1>4 DEF Like
<1>6. Lean(mem) /\ SeenRead(Top, mem)
  BY <1>1, NowSettling
<1>7. SeenRead(fr, mem)
  BY <1>1, <1>5, <1>6, SeenStays
<1>8. Marked(fr, mem)
  BY <1>4 DEF Marked
<1> QED BY <1>1, <1>5, <1>6, <1>7, <1>8, StaySettling

\* A field the message does not have is skipped.
LEMMA SkipFieldSettling ==
    ASSUME Calls, Calls', Settling, SkipField
    PROVE  Settling'
<1>1. Busy /\ ret = "none" /\ Top.kind = "message" /\ Top.phase = "skip"
  BY DEF SkipField, Running
<1>2. PICK n \in SkipLens(Top.wire) : n <= Top.left /\ Stay(NextTag(Took(Top, n)), mem)
  BY DEF SkipField
<1>3. Lean(mem) /\ Top.obj \in DOMAIN mem.done
  BY <1>1, NowSettling, TopEntered
<1> QED BY <1>1, <1>2, <1>3, SkipLensNat, TagSettling

\* A static field begins, and is marked.
LEMMA BeginStaticSettling ==
    ASSUME Calls, Calls', Settling, BeginStatic
    PROVE  Settling'
<1>1. /\ Running("message", "field") /\ ~Array(Field) /\ AtField(Top) /\ Busy /\ ret = "none"
      /\ Field.alloc = "static"
  BY DEF BeginStatic, Running, AtField
<1> DEFINE one == 1
           item == Append(Top.obj, <<Top.msg, Top.field, one>>)
           old == UnionReleased
           hm == [old EXCEPT !.has = @ \cup {Key}]
           w == Which(old, Key)
<1>2. /\ Key \in Inner /\ FieldAt(Last(Key)) = Field
      /\ Field.rule \in {"required", "optional", "oneof"}
  BY <1>1, FieldHere DEF FieldType, Array
<1>3. Lean(old) /\ old \in Memory
  BY <1>1, NowSettling, LeanUnion, HousedMem DEF Lean
<1>4. \/ Field.rule = "required" /\ ToValue(old)
      \/ Field.rule = "optional" /\ ToValue(hm)
      \/ Field.rule = "oneof" /\ Field.type = "message" /\ ToValue(Cleared(w, item))
      \/ Field.rule = "oneof" /\ Field.type # "message" /\ ToValue(w)
  BY <1>2 DEF BeginStatic
<1>5. /\ item = Item(Top.obj, Top.msg, Top.field, 1) /\ item \in Inner /\ Last(item)[3] > 0
  <2>1. one \in Nat /\ one > 0
    OBVIOUS
  <2> HIDE DEF one
  <2>2. item = Item(Top.obj, Top.msg, Top.field, one) /\ item \in Inner /\ Last(item)[3] > 0
    BY <1>1, <2>1, KeyNotBelow
  <2> QED BY <2>2 DEF one
<1> HIDE DEF item, old
<1>6. CASE Field.rule = "required" /\ ToValue(old)
  BY <1>1, <1>3, <1>6, ToValueSettling
<1>7. CASE Field.rule = "optional" /\ ToValue(hm)
  <2>1. Lean(hm) /\ Key \in hm.has
    BY <1>2, <1>3, <1>7, LeanHas, HasMem
  <2> HIDE DEF hm
  <2> QED BY <1>1, <1>7, <2>1, ToValueSettling
<1>8. CASE Field.rule = "oneof" /\ Field.type = "message" /\ ToValue(Cleared(w, item))
  <2>1. LeanBut(w, item)
    BY <1>1, <1>3, <1>5, LeanWhich
  <2>2. Lean(Cleared(w, item))
    BY <1>5, <2>1, LeanCleared
  <2> QED BY <1>1, <1>8, <2>2, ToValueSettling
<1>9. CASE Field.rule = "oneof" /\ Field.type # "message" /\ ToValue(w)
  <2>1. 1 \in Nat
    OBVIOUS
  <2>2. Lean(w)
    BY <1>2, <1>3, <1>9, <2>1, LeanPlain
  <2> QED BY <1>1, <1>9, <2>2, ToValueSettling
<1> QED BY <1>4, <1>6, <1>7, <1>8, <1>9

\* A pointer field begins, in a block of its own.
LEMMA BeginPointerSettling ==
    ASSUME Calls, Calls', Settling, BeginPointer
    PROVE  Settling'
<1>1. /\ Running("message", "field") /\ ~Array(Field) /\ AtField(Top) /\ Busy /\ ret = "none"
      /\ Field.alloc = "pointer"
  BY DEF BeginPointer, Running, AtField
<1> DEFINE one == 1
           item == Append(Top.obj, <<Top.msg, Top.field, one>>)
           named == PointerNamed
           a == Allocated(named, Key, 1)
<1>2. Key \in Inner /\ FieldAt(Last(Key)) = Field
  BY <1>1, FieldHere
<1>3. \/ Field.type = "text" /\ ToValue(named)
      \/ ToValue(Cleared(a, item))
      \/ Fail(named)
  BY DEF BeginPointer, PointerNamed, PointerFree
<1>4. Lean(PointerFree)
  <2>1. Lean(UnionReleased)
    BY <1>1, NowSettling, LeanUnion
  <2> QED BY <2>1, LeanRelease DEF PointerFree
<1>5. item = Item(Top.obj, Top.msg, Top.field, 1) /\ item \in Inner /\ Last(item)[3] > 0
  <2>1. one \in Nat /\ one > 0
    OBVIOUS
  <2> HIDE DEF one
  <2>2. item = Item(Top.obj, Top.msg, Top.field, one) /\ item \in Inner /\ Last(item)[3] > 0
    BY <1>1, <2>1, KeyNotBelow
  <2> QED BY <2>2 DEF one
<1> HIDE DEF item
<1>6. LeanBut(named, item)
  BY <1>1, <1>4, <1>5, LeanWhich, LeanLeanBut DEF PointerNamed
<1>7. Field.type = "text" => Lean(named)
  <2>1. 1 \in Nat
    OBVIOUS
  <2> QED BY <1>2, <1>4, <2>1, LeanPlain DEF PointerNamed
<1> HIDE DEF named
<1>8. LeanBut(a, item)
  BY <1>1, <1>5, <1>6, LeanBlock
<1> HIDE DEF a
<1>9. Lean(Cleared(a, item))
  BY <1>5, <1>8, LeanCleared
<1>10. CASE Field.type = "text" /\ ToValue(named)
  BY <1>1, <1>7, <1>10, ToValueSettling
<1>11. CASE ToValue(Cleared(a, item))
  BY <1>1, <1>9, <1>11, ToValueSettling
<1>12. CASE Fail(named)
  BY <1>1, <1>12, FailSettling
<1> QED BY <1>3, <1>10, <1>11, <1>12

\* An item of a static array begins.
LEMMA BeginStaticItemSettling ==
    ASSUME Calls, Calls', Settling, BeginStaticItem
    PROVE  Settling'
<1>1. /\ Running("message", "field") /\ AtField(Top) /\ Busy /\ ret = "none"
      /\ Array(Field) /\ Field.alloc = "static"
  BY DEF BeginStaticItem, OneByOne, Running, AtField
<1> DEFINE k == Get(mem.count, Key)
           n == k + 1
           more == Counted(mem, Key, n)
<1>2. Fail(more) \/ (~(k >= Field.cap) /\ ToValue(more))
  BY DEF BeginStaticItem
<1>3. k \in Nat /\ Field.cap \in Nat /\ n = Get(mem.count, Key) + 1 /\ n \in Nat
  BY <1>1, FieldHere
<1>4. CASE Fail(more)
  BY <1>1, <1>4, FailSettling
<1>5. CASE ~(k >= Field.cap) /\ ToValue(more)
  <2>1. n <= Field.cap
    BY <1>3, <1>5
  <2>2. Lean(mem)
    BY <1>1, NowSettling
  <2> HIDE DEF n
  <2>3. Lean(more)
    BY <1>1, <1>3, <2>1, <2>2, LeanStaticItem
  <2> HIDE DEF more
  <2> QED BY <1>1, <1>5, <2>3, ToValueSettling DEF Array
<1> QED BY <1>2, <1>4, <1>5

\* An item of an array of pointers begins, with nothing read in it.
LEMMA BeginPointerItemSettling ==
    ASSUME Calls, Calls', Counting, Settling, BeginPointerItem
    PROVE  Settling'
<1>1. /\ Running("message", "field") /\ Field.alloc = "pointer" /\ AtField(Top)
      /\ Busy /\ ret = "none" /\ Array(Field)
  BY DEF BeginPointerItem, OneByOne, Running, AtField
<1> DEFINE n == Get(mem.count, Key) + 1
           more == Counted(mem, Key, n)
           item == Append(Top.obj, <<Top.msg, Top.field, n>>)
           a == Allocated(more, Key, n)
<1>2. n \in Nat /\ n > 0 /\ n = Get(mem.count, Key) + 1
  BY <1>1, FieldHere
<1>3. Fail(mem) \/ Fail(more) \/ ToValue(Cleared(a, item))
  BY DEF BeginPointerItem
<1> HIDE DEF n
<1>4. item = Item(Top.obj, Top.msg, Top.field, n) /\ item \in Inner /\ Last(item)[3] > 0
  BY <1>1, <1>2, KeyNotBelow
<1> HIDE DEF item
<1>5. LeanBut(a, item)
  BY <1>1, <1>2, <1>4, NowSettling, LeanPointerItem
<1> HIDE DEF a, more
<1>6. Lean(Cleared(a, item))
  BY <1>4, <1>5, LeanCleared
<1> QED BY <1>1, <1>3, <1>6, FailSettling, ToValueSettling
\* A field that was read is done when it is required.
LEMMA ReadDoneSettling ==
    ASSUME Calls, Calls', Settling, Running("message", "value"), NEW n \in Nat, n <= Top.left,
           NEW m, Kept(m), Lean(m), ReadDone(Took(Top, n), m)
    PROVE  Settling'
<1>1. Busy /\ ret = "none" /\ Top.kind = "message" /\ AtField(Top)
  BY DEF Running, AtField
<1> DEFINE t == Took(Top, n)
           d == ReadAt(m, t.obj, t.field)
<1>2. t.obj = Top.obj /\ t.field = Top.field
  BY AtTop, TookFields DEF Like
<1>3. Top.obj \in DOMAIN m.done /\ Top.field \in Nat /\ m \in Memory
  <2>1. Top.obj \in DOMAIN mem.done
    BY <1>1, TopEntered
  <2> QED BY <2>1, AtTop DEF Kept, Frame
<1>4. IF Field.rule = "required" THEN Stay(NextTag(t), d) ELSE Stay(NextTag(t), m)
  BY DEF ReadDone, ReadAt
<1>5. d = ReadAt(m, Top.obj, Top.field)
  BY <1>2
<1> HIDE DEF d
<1>6. Lean(d) /\ Top.obj \in DOMAIN d.done /\ Top.field \in d.done[Top.obj]
  <2>1. DOMAIN d.done = DOMAIN m.done /\ d.done[Top.obj] = m.done[Top.obj] \cup {Top.field}
    BY <1>3, <1>5, ReadMem
  <2> QED BY <1>3, <1>5, <2>1, LeanRead
<1>7. CASE Field.rule = "required"
  BY <1>1, <1>4, <1>6, <1>7, TagSettling
<1>8. CASE Field.rule # "required"
  <2>1. Top.field \notin Checked(Top.msg)
    BY <1>8 DEF Checked, Required, Field
  <2> QED BY <1>1, <1>3, <1>4, <1>8, <2>1, TagSettling
<1> QED BY <1>7, <1>8

\* A scalar is read.
LEMMA ReadScalarSettling ==
    ASSUME Calls, Calls', Settling, ReadScalar
    PROVE  Settling'
<1>1. Running("message", "value") /\ AtField(Top) /\ Busy /\ ret = "none"
  BY DEF ReadScalar, Running, AtField
<1>2. PICK n \in ScalarLens(Field) : n <= Top.left /\ ReadDone(Took(Top, n), mem)
  BY DEF ReadScalar
<1>3. n \in Nat
  BY <1>1, LensNat
<1> QED BY <1>1, <1>2, <1>3, AtTop, NowSettling, ReadDoneSettling

\* The text's pointer is no message's.
LEMMA LeanText ==
    ASSUME Calls, Settling, Running("message", "value"), Field.type = "text"
    PROVE  Lean(WithText) /\ Kept(WithText)
<1>1. AtField(Top) /\ Busy /\ ret = "none"
  BY DEF Running, AtField
<1>2. Kept(WithText) /\ TextSlot \in Inner /\ 1 \in Nat
  BY KeptText
<1>3. FieldAt(Last(TextSlot)) = Field
  <2>1. CASE Array(Field)
    <3> DEFINE j == Get(mem.count, Key)
    <3>1. /\ TextSlot = Item(Top.obj, Top.msg, Top.field, j) /\ j \in Nat
          /\ Top.field \in DOMAIN Msg[Top.msg] /\ Top.msg \in Messages /\ Top.obj \in Path
      BY <1>1, <2>1, FieldHere, AtTop DEF TextSlot
    <3> HIDE DEF j
    <3>2. Last(TextSlot) = <<Top.msg, Top.field, j>>
      BY <3>1, Extended
    <3> QED BY <3>2 DEF FieldAt, Field
  <2>2. CASE ~Array(Field)
    BY <1>1, <2>2, FieldHere DEF TextSlot
  <2> QED BY <2>1, <2>2
<1>4. Lean(mem)
  BY <1>1, NowSettling
<1>5. Lean(WithText)
  BY <1>2, <1>3, <1>4, LeanPlain DEF WithText
<1> QED BY <1>2, <1>5

\* A text is read.
LEMMA ReadTextSettling ==
    ASSUME Calls, Calls', Settling, ReadText
    PROVE  Settling'
<1>1. Running("message", "value") /\ AtField(Top) /\ Field.type = "text"
  BY DEF ReadText, Running, AtField
<1>2. PICK n \in Lengths : 1 + n <= Top.left /\ ReadDone(Took(Top, 1 + n), WithText)
  BY DEF ReadText
<1>3. n \in Nat /\ 1 + n \in Nat
  BY <1>1, LensNat
<1> QED BY <1>1, <1>2, <1>3, LeanText, ReadDoneSettling

\* What fails promises nothing.
LEMMA FailsSettling ==
    ASSUME Calls, Settling, TextCut \/ Unreadable \/ PackedUnreadable
    PROVE  Settling'
<1>1. Busy /\ (Fail(mem) \/ Fail(WithText))
  BY DEF TextCut, Unreadable, Reading, PackedUnreadable, Running
<1> QED BY <1>1, FailSettling

\* An item of the field the innermost call is at.
LEMMA TopItem ==
    ASSUME Calls, AtField(Top), NEW j \in Nat
    PROVE  /\ Len(Item(Top.obj, Top.msg, Top.field, j)) = Len(Top.obj) + 1
           /\ Item(Top.obj, Top.msg, Top.field, j)[Len(Top.obj) + 1] = <<Top.msg, Top.field, j>>
           /\ \A k \in 1 .. Len(Top.obj) : Item(Top.obj, Top.msg, Top.field, j)[k] = Top.obj[k]
<1>1. Top.field \in DOMAIN Msg[Top.msg] /\ Top.msg \in Messages /\ Top.obj \in Path
  BY AtTop, FieldHere
<1> QED BY <1>1, Extended

\* The item a submessage is read into is marked, or counted.
LEMMA ItemHomed ==
    ASSUME Calls, Settling, Running("message", "value"), NEW j \in Nat, j > 0,
           j = IF Array(Field) THEN Get(mem.count, Key) ELSE 1,
           NEW m \in Memory,
           m = mem \/ m = Cleared(mem, Item(Top.obj, Top.msg, Top.field, j))
    PROVE  Homed(m, Item(Top.obj, Top.msg, Top.field, j))
<1> DEFINE item == Item(Top.obj, Top.msg, Top.field, j)
           l == Len(Top.obj)
<1>1. /\ AtField(Top) /\ Busy /\ ret = "none" /\ Top.kind = "message" /\ Top.phase = "value"
  BY DEF Running, AtField
<1>2. /\ Top.field \in DOMAIN Msg[Top.msg] /\ Top.msg \in Messages /\ Top.obj \in Path
      /\ Key = Item(Top.obj, Top.msg, Top.field, 0) /\ l \in Nat
      /\ item \in Inner /\ item \in Path /\ Last(item)[3] > 0
  BY <1>1, AtTop, FieldHere, KeyNotBelow
<1>3. /\ Len(item) = l + 1 /\ item[l + 1] = <<Top.msg, Top.field, j>>
      /\ \A k \in 1 .. l : item[k] = Top.obj[k]
  BY <1>1, TopItem
<1>4. MemberOf(item, l + 1) = Key
  <2>1. MemberOf(item, l + 1) = Item(Top.obj, Top.msg, Top.field, 0)
    BY <1>2, MemberOfLast
  <2> QED BY <1>2, <2>1
<1>5. Housed(mem) /\ Marked(Top, mem) /\ Top.obj \in DOMAIN mem.done /\ mem \in Memory
  BY <1>1, NowSettling, TopEntered, AtTop
<1>6. Homed(mem, Top.obj)
  BY <1>5, HousedPath
<1> HIDE DEF item
<1>7. ASSUME NEW k \in 1 .. Len(item)
      PROVE  ~IsPrefix(item, MemberOf(item, k))
  <2> SUFFICES ASSUME IsPrefix(item, MemberOf(item, k))
               PROVE  FALSE
    OBVIOUS
  <2>1. Len(item) < k
    BY <1>2, ItemBelow
  <2> QED BY <1>2, <1>3, <2>1
<1>8. ASSUME NEW k \in 1 .. Len(item), FieldAt(item[k]).alloc = "static"
      PROVE  /\ FieldAt(item[k]).rule = "optional" => MemberOf(item, k) \in mem.has
             /\ FieldAt(item[k]).rule = "repeated" => item[k][3] <= Get(mem.count, MemberOf(item, k))
  <2>1. CASE k = l + 1
    <3>1. FieldAt(item[k]) = Field /\ item[k][3] = j /\ MemberOf(item, k) = Key
      BY <1>3, <1>4, <2>1 DEF FieldAt, Field
    <3>2. Field.rule = "optional" /\ Field.alloc = "static" => Key \in mem.has
      BY <1>1, <1>5 DEF Marked, Field, Key
    <3>3. Field.rule = "repeated" => j <= Get(mem.count, Key)
      BY DEF Array
    <3> QED BY <1>8, <3>1, <3>2, <3>3
  <2>2. CASE k # l + 1
    <3>1. k \in 1 .. l /\ l <= Len(item) /\ \A q \in 1 .. k : Top.obj[q] = item[q]
      BY <1>2, <1>3, <2>2
    <3>2. MemberOf(Top.obj, k) = MemberOf(item, k)
      <4>1. k <= Len(item) /\ k \in 1 .. Len(Top.obj)
        BY <1>3, <3>1
      <4> QED BY <1>2, <3>1, <4>1, SameMember
    <3>3. item[k] = Top.obj[k]
      BY <1>3, <3>1
    <3> QED BY <1>6, <1>8, <3>1, <3>2, <3>3 DEF Homed
  <2> QED BY <2>1, <2>2
<1>9. CASE m = mem
  BY <1>8, <1>9 DEF Homed, item
<1>10. CASE m = Cleared(mem, item)
  <2>1. /\ \A p : p \in m.has <=> p \in mem.has /\ ~IsPrefix(item, p)
        /\ \A p : ~IsPrefix(item, p) => Get(m.count, p) = Get(mem.count, p)
    BY <1>2, <1>5, <1>10, ClearedMem, ClearedGet
  <2>2. Homed(m, item)
    BY <1>7, <1>8, <2>1 DEF Homed
  <2> QED BY <2>2 DEF item
<1> QED BY <1>9, <1>10 DEF item

\* A submessage is read into its place.
LEMMA OpenSubmessageSettling ==
    ASSUME Calls, Calls', Owned, Settling, OpenSubmessage
    PROVE  Settling'
<1>1. /\ Running("message", "value") /\ AtField(Top) /\ Busy /\ ret = "none"
      /\ Top.kind = "message" /\ Top.phase = "value" /\ Field.type = "message"
      /\ Field.alloc # "callback"
  BY AtTop DEF OpenSubmessage, Running, AtField, FrameOK, Field
<1> DEFINE item == ItemOf(Top)
           owns == Field.rule = "repeated"
           b == IF owns THEN Cleared(mem, item) ELSE mem
           e == Entered(b, item)
           child(k) == Substream("message", Field.sub, item, owns, k)
<1>2. PICK n \in Lengths : 1 + n <= Top.left /\ Push(GaveUp(n), child(n)) /\ mem' = e
  BY DEF OpenSubmessage
<1>3. /\ child(n).kind = "message" /\ child(n).phase = "tag" /\ child(n).obj = item
      /\ child(n).seen = {}
  BY DEF Substream, Stream
<1>4. PICK j \in Nat \ {0} : /\ item = Item(Top.obj, Top.msg, Top.field, j)
                             /\ j = IF Array(Field) THEN Get(mem.count, Key) ELSE 1
  <2>1. CASE Array(Field)
    <3>1. Get(mem.count, Key) \in Nat \ {0}
      BY <1>1, <2>1, FieldHere DEF Calls, Numbered, NumberedIn, Field, Key
    <3> QED BY <1>1, <2>1, <3>1, FieldHere
  <2>2. CASE ~Array(Field)
    BY <1>1, <2>2, FieldHere
  <2> QED BY <2>1, <2>2
<1>5. j \in Nat /\ j > 0 /\ n \in Nat
  BY <1>1, LensNat
<1>6. item \in Inner /\ Last(item)[3] > 0 /\ item \in Path
  BY <1>1, <1>4, <1>5, KeyNotBelow
<1>7. Reaches(root, item, TypeAt(item))
  <2>1. Reaches(root, item, Field.sub)
    BY <1>1, <1>4, <1>5, FieldPlaced
  <2> QED BY <1>6, <2>1, TypeReached
<1> HIDE DEF item, child
<1>8. Lean(b)
  <2>1. Lean(mem)
    BY <1>1, NowSettling
  <2>2. Lean(Cleared(mem, item))
    BY <1>6, <2>1, LeanLeanBut, LeanCleared
  <2> QED BY <2>1, <2>2
<1>9. Homed(b, item)
  <2>1. b = mem \/ b = Cleared(mem, Item(Top.obj, Top.msg, Top.field, j))
    BY <1>4
  <2>2. b \in Memory
    BY <1>8, HousedMem DEF Lean
  <2> HIDE DEF b
  <2>3. Homed(b, Item(Top.obj, Top.msg, Top.field, j))
    BY <1>1, <1>4, <1>5, <2>1, <2>2, ItemHomed
  <2> QED BY <1>4, <2>3
<1> HIDE DEF b
<1>10. b \in Memory /\ Housed(b) /\ Blocked(b)
  BY <1>8, HousedMem DEF Lean
<1>11. /\ e \in Memory /\ e.ptr = b.ptr /\ e.has = b.has /\ e.count = b.count /\ e.room = b.room
       /\ DOMAIN e.done = DOMAIN b.done \cup {item}
       /\ \A q \in DOMAIN b.done : e.done[q] = b.done[q]
  BY <1>6, <1>10, EnteredMem
<1> HIDE DEF e
<1>12. Housed(e)
  <2>1. Blocked(e)
    BY <1>10, <1>11 DEF Blocked
  <2>2. \A o \in DOMAIN e.done : Reaches(root, o, TypeAt(o)) /\ Homed(e, o)
    BY <1>7, <1>9, <1>10, <1>11 DEF Housed, Homed
  <2> QED BY <1>11, <2>1, <2>2 DEF Housed
<1>13. ASSUME NEW o \in DOMAIN e.done
       PROVE  \/ o = item
              \/ /\ o \in DOMAIN mem.done /\ mem.done[o] \subseteq e.done[o]
                 /\ Standing(e, o) => Standing(mem, o)
  <2>1. CASE o # item
    <3>1. o \in DOMAIN b.done /\ e.done[o] = b.done[o]
      BY <1>11, <2>1
    <3>2. Standing(e, o) => Standing(b, o)
      BY <1>11 DEF Standing, Visits, Items
    <3> QED BY <1>8, <3>1, <3>2 DEF Lean
  <2> QED BY <2>1
<1>14. \A o \in DOMAIN mem'.done :
           \/ child(n).kind = "message" /\ child(n).obj = o
           \/ /\ o \in DOMAIN mem.done /\ mem.done[o] \subseteq mem'.done[o]
              /\ Standing(mem', o) => Standing(mem, o)
  BY <1>2, <1>3, <1>13
<1>15. Housed(mem')
  BY <1>2, <1>12
<1> QED BY <1>1, <1>2, <1>3, <1>5, <1>14, <1>15, PushSettling
\* A packed array is no message.
LEMMA OpenPackedSettling ==
    ASSUME Calls, Calls', Settling, OpenPacked
    PROVE  Settling'
<1>1. /\ Running("message", "field") /\ AtField(Top) /\ Busy /\ ret = "none" /\ mem' = mem
      /\ Top.phase = "field"
  BY DEF OpenPacked, Running, AtField
<1> DEFINE owns == FALSE
           s(n) == Substream("packed", Top.msg, Top.obj, owns, n)
           room == Get(mem.count, Key)
           child(n) == [s(n) EXCEPT !.field = Top.field, !.room = room]
<1>2. PICK n \in Lengths : 1 + n <= Top.left /\ Push(GaveUp(n), child(n))
  BY DEF OpenPacked
<1>3. child(n).kind = "packed" /\ child(n).seen = {}
  BY DEF Substream, Stream
<1>4. n \in Nat
  BY <1>1, LensNat
<1>5. Lean(mem) /\ Housed(mem)
  BY <1>1, NowSettling
<1> HIDE DEF child
<1> QED BY <1>1, <1>2, <1>3, <1>4, <1>5, PushSettling

\* Nor is the stream of a callback.
LEMMA OpenCallbackSettling ==
    ASSUME Calls, Calls', Settling, OpenCallback
    PROVE  Settling'
<1>1. /\ Running("message", "field") /\ AtField(Top) /\ Busy /\ ret = "none" /\ mem' = mem
      /\ Top.phase = "field" /\ Field.alloc = "callback"
  BY DEF OpenCallback, AtCallback, Running, AtField
<1> DEFINE child(n) == Substream("callback", Top.msg, Top.obj, FALSE, n)
<1>2. PICK n \in Lengths : 1 + n <= Top.left /\ Push(GaveUp(n), child(n))
  BY DEF OpenCallback
<1>3. child(n).kind = "callback" /\ child(n).seen = {}
  BY DEF Substream, Stream
<1>4. n \in Nat
  BY <1>1, LensNat
<1>5. Lean(mem) /\ Housed(mem)
  BY <1>1, NowSettling
<1> HIDE DEF child
<1> QED BY <1>1, <1>2, <1>3, <1>4, <1>5, PushSettling

\* A new struct has read nothing yet.
LEMMA NewHoused ==
    ASSUME NEW m, m = Entered(Nothing, <<>>)
    PROVE  Housed(m) /\ DOMAIN m.done = {<<>>}
<1>1. /\ m \in Memory /\ DOMAIN m.done = {<<>>} /\ DOMAIN m.room = {} /\ Len(<<>>) = 0
  BY NothingMem, NewMem, EnteredMem
<1>2. Blocked(m)
  BY <1>1 DEF Blocked
<1>3. Reaches(root, <<>>, TypeAt(<<>>)) /\ Homed(m, <<>>)
  BY <1>1 DEF Reaches, TypeAt, Homed
<1> QED BY <1>1, <1>2, <1>3 DEF Housed

\* A message of pb_decode_delimited has read nothing yet.
LEMMA OpenDelimitedSettling ==
    ASSUME Calls, Calls', Settling, OpenDelimited
    PROVE  Settling'
<1> DEFINE child(n) == Substream("message", Top.msg, <<>>, TRUE, n)
<1>1. PICK n \in Lengths : 1 + n <= Top.left /\ Push(GaveUp(n), child(n))
  BY DEF OpenDelimited
<1>2. /\ child(n).kind = "message" /\ child(n).phase = "tag" /\ child(n).seen = {}
      /\ child(n).obj = <<>>
  BY DEF Substream, Stream
<1>3. n \in Nat /\ Busy /\ ret = "none" /\ Top.kind = "outer" /\ mem' = Entered(Nothing, <<>>)
  BY DecodeAssumption DEF OpenDelimited, Running
<1>4. Housed(mem') /\ DOMAIN mem'.done = {<<>>}
  BY <1>3, NewHoused
<1> HIDE DEF child
<1> QED BY <1>1, <1>2, <1>3, <1>4, PushSettling

\* An item of a packed array holds no message.
LEMMA PackedItemSettling ==
    ASSUME Calls, Calls', Settling, PackedItem
    PROVE  Settling'
<1>1. /\ Busy /\ ret = "none" /\ Top.kind = "packed" /\ AtField(Top)
  BY DEF PackedItem, Running, AtField
<1> DEFINE n == Get(mem.count, Key) + 1
           m == Counted(mem, Key, n)
<1>2. PICK k \in ScalarLens(Field) : k <= Top.left /\ (Fail(mem) \/ Stay(Took(Top, k), m))
  BY DEF PackedItem
<1>3. n \in Nat /\ Key \in Inner /\ FieldAt(Last(Key)) = Field /\ k \in Nat
  BY <1>1, FieldHere, LensNat
<1> HIDE DEF n
<1>4. Field.type # "message"
  BY <1>1, AtTop DEF FrameOK, Packable, Field
<1>5. Lean(m)
  BY <1>1, <1>3, <1>4, NowSettling, LeanPlain
<1> HIDE DEF m
<1>6. Like(Took(Top, k), Top)
  BY <1>2, <1>3, AtTop, TookFields
<1>7. SeenRead(Took(Top, k), m) /\ Marked(Took(Top, k), m)
  BY <1>1, <1>6 DEF SeenRead, Marked, Like
<1> QED BY <1>1, <1>2, <1>5, <1>6, <1>7, FailSettling, StaySettling DEF Like

\* Nor does its new room.
LEMMA PackedGrowSettling ==
    ASSUME Calls, Calls', Settling, PackedGrow
    PROVE  Settling'
<1>1. /\ Busy /\ ret = "none" /\ Top.kind = "packed" /\ AtField(Top) /\ Top.left > 0
  BY DEF PackedGrow, Running, AtField
<1> DEFINE n == Top.room + ((Top.left - 1) \div Field.width) + 1
           fr == [Top EXCEPT !.room = n]
           m == Allocated(mem, Key, n)
<1>2. Fail(mem) \/ Stay(fr, m)
  BY DEF PackedGrow
<1>3. n \in Nat /\ Key \in Inner /\ FieldAt(Last(Key)) = Field
  BY <1>1, GrownNat, FieldHere
<1> HIDE DEF n
<1>4. Field.type # "message"
  BY <1>1, AtTop DEF FrameOK, Packable, Field
<1>5. Lean(m)
  BY <1>1, <1>3, <1>4, NowSettling, LeanPlain
<1>6. /\ fr.kind = Top.kind /\ fr.obj = Top.obj /\ fr.msg = Top.msg
  BY AtTop DEF Frame
<1> HIDE DEF fr, m
<1>7. SeenRead(fr, m) /\ Marked(fr, m)
  BY <1>1, <1>6 DEF SeenRead, Marked
<1> QED BY <1>1, <1>2, <1>5, <1>6, <1>7, FailSettling, StaySettling

\* A packed array ends.
LEMMA PackedEndSettling ==
    ASSUME Calls, Calls', Settling, PackedEnd
    PROVE  Settling'
<1>1. Busy /\ ret = "none" /\ Top.kind = "packed" /\ (Fail(mem) \/ Succeed)
  BY DEF PackedEnd, Running
<1>2. CASE Succeed
  <2>1. frames' = [frames EXCEPT ![depth] = Top]
    BY <1>2 DEF Succeed, Top, Calls, Typed
  <2>2. Lean(mem') /\ ret' = "ok" /\ depth' = depth /\ call' = call /\ root' = root
    BY <1>1, <1>2, NowSettling DEF Succeed
  <2> QED BY <1>1, <2>1, <2>2, MovedSettling
<1> QED BY <1>1, <1>2, FailSettling

\* A callback field has no bit of the mask to fill.
LEMMA SkipCallbackSettling ==
    ASSUME Calls, Calls', Settling, SkipCallback
    PROVE  Settling'
<1> DEFINE fr == [Top EXCEPT !.phase = "skip"]
<1>1. /\ Busy /\ ret = "none" /\ Top.kind = "message" /\ Field.alloc = "callback" /\ Stay(fr, mem)
  BY DEF SkipCallback, AtCallback, Running
<1>2. /\ fr.kind = Top.kind /\ fr.obj = Top.obj /\ fr.msg = Top.msg /\ fr.seen = Top.seen
      /\ fr.phase = "skip"
  BY AtTop DEF Frame
<1> HIDE DEF fr
<1>3. Lean(mem) /\ SeenRead(Top, mem)
  BY <1>1, NowSettling
<1>4. SeenRead(fr, mem)
  BY <1>1, <1>2, <1>3, SeenStays DEF Field
<1>5. Marked(fr, mem)
  BY <1>2 DEF Marked
<1> QED BY <1>1, <1>2, <1>3, <1>4, <1>5, StaySettling

\* A scalar goes to the callback.
LEMMA CallbackScalarSettling ==
    ASSUME Calls, Calls', Settling, CallbackScalar
    PROVE  Settling'
<1>1. Busy /\ ret = "none" /\ Top.kind = "message" /\ Field.alloc = "callback"
  BY DEF CallbackScalar, AtCallback, Running
<1>2. PICK n \in SkipLens(Top.wire) :
         n <= Top.left /\ (Stay(NextTag(Took(Top, n)), mem) \/ Fail(mem))
  BY DEF CallbackScalar
<1>3. Lean(mem) /\ Top.obj \in DOMAIN mem.done
  BY <1>1, NowSettling, TopEntered
<1> QED BY <1>1, <1>2, <1>3, SkipLensNat, TagSettling, FailSettling

\* The callback reads of its stream.
LEMMA CallbackReadsSettling ==
    ASSUME Calls, Calls', Settling, CallbackReads
    PROVE  Settling'
<1>1. Busy /\ ret = "none" /\ Top.kind = "callback" /\ Top.left \in Nat
  BY AtTop DEF CallbackReads, Running
<1>2. ASSUME NEW n \in Nat, n <= Top.left,
             frames' = [frames EXCEPT ![depth] = Took(Top, n)], ret' \in {"none", "ok"},
             depth' = depth, call' = call, root' = root, mem' = mem
      PROVE  Settling'
  <2>1. Like(Took(Top, n), Top)
    BY <1>2, AtTop, TookFields
  <2>2. Lean(mem')
    BY <1>1, <1>2, NowSettling
  <2>3. SeenRead(Took(Top, n), mem') /\ Marked(Took(Top, n), mem')
    BY <1>1, <2>1 DEF SeenRead, Marked, Like
  <2> QED BY <1>1, <1>2, <2>1, <2>2, <2>3, MovedSettling DEF Like
<1>3. CASE Fail(mem)
  BY <1>1, <1>3, FailSettling
<1>4. CASE \E n \in 1 .. Top.left : n < Top.left /\ Stay(Took(Top, n), mem)
  <2>1. PICK n \in 1 .. Top.left : n < Top.left /\ Stay(Took(Top, n), mem)
    BY <1>4
  <2>2. n \in Nat /\ n <= Top.left /\ ret' = "none"
    BY <1>1, <2>1 DEF Stay
  <2> QED BY <1>1, <1>2, <2>1, <2>2 DEF Stay
<1>5. CASE /\ frames' = [frames EXCEPT ![depth] = Took(Top, Top.left)] /\ ret' = "ok"
           /\ UNCHANGED <<depth, call, root, mem>>
  <2>1. Top.left <= Top.left
    BY <1>1
  <2> QED BY <1>1, <1>2, <1>5, <2>1
<1> QED BY <1>3, <1>4, <1>5 DEF CallbackReads

\* What a call that returned read is complete, and its caller has it.
LEMMA ReturnSettling ==
    ASSUME Calls, Calls', Settling, Return
    PROVE  Settling'
<1>1. Busy /\ ret # "none" /\ depth > 1 /\ depth' = depth - 1 /\ call' = call /\ root' = root
  BY DEF Return
<1>2. /\ Parent = frames[depth - 1] /\ Parent.kind \in {"message", "outer"} /\ Parent \in Frame
      /\ Parent.phase = "inside" /\ Link(Parent, Top)
      /\ Closed \in Frame /\ Like(Closed, Parent) /\ Closed.field = Parent.field
      /\ Closed.seen = Parent.seen /\ Closed.phase = Parent.phase
  BY <1>1, ClosedFields
<1>3. /\ frames \in [1 .. MaxDepth -> Frame] /\ depth \in 1 .. MaxDepth /\ MaxDepth \in Nat
      /\ depth - 1 \in 1 .. MaxDepth /\ Busy' /\ call' \notin {"held", "idle"}
      /\ Top = frames[depth] /\ ret \in {"ok", "fail"} /\ depth - 1 \in 1 .. depth
  BY <1>1, DecodeAssumption DEF Calls, Typed, Busy, Top
<1>4. ASSUME NEW fr, frames' = [frames EXCEPT ![depth - 1] = fr],
             fr.kind = Parent.kind, fr.obj = Parent.obj, fr.msg = Parent.msg,
             fr.field = Parent.field \/ fr.kind = "message"
      PROVE  /\ \A d \in 1 .. depth - 1 : frames'[d] = IF d = depth - 1 THEN fr ELSE frames[d]
             /\ Top' = fr
             /\ (\A d \in 1 .. depth - 1 : CalledBack(frames[d], frames[d + 1]))'
  <2>1. \A d \in 1 .. depth - 1 : frames'[d] = IF d = depth - 1 THEN fr ELSE frames[d]
    BY <1>3, <1>4
  <2>2. Top' = fr
    BY <1>1, <1>3, <1>4 DEF Top
  <2>3. ASSUME NEW d \in 1 .. depth' - 1
        PROVE  CalledBack(frames'[d], frames'[d + 1])
    <3>1. d \in 1 .. depth - 1 /\ d + 1 \in 1 .. depth - 1 /\ d # depth - 1
      BY <1>1, <1>3
    <3>2. CalledBack(frames[d], frames[d + 1])
      BY <1>1, <3>1 DEF Settling
    <3>3. frames'[d] = frames[d] /\ frames'[d + 1].kind = frames[d + 1].kind
      BY <1>2, <1>4, <2>1, <3>1
    <3> QED BY <3>2, <3>3 DEF CalledBack
  <2>4. (\A d \in 1 .. depth - 1 : CalledBack(frames[d], frames[d + 1]))'
    BY <2>3 DEF CalledBack
  <2> QED BY <2>1, <2>2, <2>4
<1>5. CASE Parent.kind = "message" /\ ret = "ok"
  <2> DEFINE fr == NextTag(Closed)
             r == ReadAt(mem, Parent.obj, Parent.field)
             reads == Msg[Parent.msg][Parent.field].rule = "required" /\ Top.kind = "message"
  <2>1. /\ ret' = "none" /\ frames' = [frames EXCEPT ![depth - 1] = fr]
        /\ mem' = IF reads THEN r ELSE mem
    BY <1>5 DEF Return, ReadAt
  <2>2. Parent.obj \in DOMAIN mem.done /\ Parent.field \in Nat
    BY <1>1, <1>2, <1>3, <1>5 DEF Calls, EnteredAll, Frame
  <2>3. Lean(mem)
    BY <1>1, <1>5, LeanNow
  <2>4. mem \in Memory
    BY <2>3, HousedMem DEF Lean
  <2>5. /\ r \in Memory /\ DOMAIN r.done = DOMAIN mem.done
        /\ r.done[Parent.obj] = mem.done[Parent.obj] \cup {Parent.field}
        /\ \A q \in DOMAIN mem.done : q # Parent.obj => r.done[q] = mem.done[q]
        /\ r.ptr = mem.ptr /\ r.has = mem.has /\ r.count = mem.count /\ r.room = mem.room
    BY <2>2, <2>4, ReadMem
  <2>6. Lean(r)
    BY <2>2, <2>3, LeanRead
  <2> HIDE DEF r
  <2>7. /\ Lean(mem') /\ DOMAIN mem'.done = DOMAIN mem.done
        /\ \A o \in DOMAIN mem.done : mem.done[o] \subseteq mem'.done[o]
        /\ reads => Parent.field \in mem'.done[Parent.obj]
    BY <2>1, <2>2, <2>3, <2>5, <2>6
  <2>8. /\ fr.kind = Parent.kind /\ fr.obj = Parent.obj /\ fr.msg = Parent.msg
        /\ fr.seen = Parent.seen /\ fr.phase = "tag"
    BY <1>2, NextTagFields DEF Like
  <2> HIDE DEF fr
  <2>9. /\ \A d \in 1 .. depth - 1 : frames'[d] = IF d = depth - 1 THEN fr ELSE frames[d]
        /\ Top' = fr /\ (\A d \in 1 .. depth - 1 : CalledBack(frames[d], frames[d + 1]))'
    BY <1>4, <1>5, <2>1, <2>8
  <2>10. Housed(mem)'
    BY <1>1, <2>7 DEF Lean, Housed, Blocked, Homed, TypeAt, Reaches, Placed
  <2>11. ASSUME NEW o \in DOMAIN mem'.done, Standing(mem', o)
         PROVE  InProgress(o)' \/ Complete(mem, o)'
    <3>1. o \in DOMAIN mem.done /\ mem.done[o] \subseteq mem'.done[o] /\ Standing(mem, o)
      BY <2>7, <2>11 DEF Lean
    <3>2. InProgress(o) \/ Complete(mem, o)
      BY <1>1, <1>5, <3>1 DEF Settling
    <3>3. Complete(mem, o) => Complete(mem, o)'
      BY <1>1, <3>1 DEF Complete, TypeAt
    <3>4. CASE InProgress(o)
      <4>1. PICK d \in 1 .. depth :
               frames[d].kind = "message" /\ frames[d].obj = o /\ (d = depth => ret = "none")
        BY <3>4 DEF InProgress
      <4>2. d \in 1 .. depth - 1
        BY <1>1, <1>3, <4>1
      <4>3. frames'[d].kind = "message" /\ frames'[d].obj = o /\ d \in 1 .. depth'
        BY <1>1, <1>2, <2>8, <2>9, <4>1, <4>2
      <4> QED BY <1>3, <2>1, <4>3 DEF InProgress
    <3> QED BY <3>2, <3>3, <3>4
  <2>12. ASSUME NEW d \in 1 .. depth - 1
         PROVE  SeenRead(frames'[d], mem')
    <3>1. d \in 1 .. depth /\ d # depth
      BY <1>3
    <3>2. SeenRead(frames[d], mem)
      BY <1>1, <1>5, <3>1 DEF Settling
    <3>3. CASE d = depth - 1
      <4>1. mem.done[Parent.obj] \subseteq mem'.done[Parent.obj] /\ SeenRead(Parent, mem)
        BY <1>2, <2>2, <2>7, <3>2, <3>3
      <4>2. ASSUME Parent.field \in Checked(Parent.msg), Msg[Parent.msg][Parent.field].alloc # "callback"
            PROVE  reads
        <5>1. Msg[Parent.msg][Parent.field].rule = "required"
          BY <4>2 DEF Checked, Required
        <5>2. Top.kind # "callback"
          <6>1. CalledBack(frames[depth - 1], frames[depth - 1 + 1]) /\ depth - 1 + 1 = depth
            BY <1>1, <1>3, <3>3 DEF Settling
          <6> QED BY <1>2, <1>3, <4>2, <6>1 DEF CalledBack
        <5>3. Top.kind # "packed"
          <6>1. Top.kind = "packed" => Array(Msg[Top.msg][Top.field])
            BY AtTop DEF FrameOK
          <6>2. Top.kind = "packed" => Top.msg = Parent.msg /\ Top.field = Parent.field
            BY <1>2 DEF Link
          <6> QED BY <5>1, <6>1, <6>2 DEF Array
        <5>4. Top.kind \in {"message", "packed", "callback"}
          BY <1>2, AtTop DEF Frame, Link
        <5> QED BY <5>1, <5>2, <5>3, <5>4
      <4> HIDE DEF reads
      <4>3. SeenRead(fr, mem')
        BY <2>7, <2>8, <4>1, <4>2, SeenStays
      <4> QED BY <2>9, <3>3, <4>3
    <3>4. CASE d # depth - 1 /\ frames[d].kind = "message"
      <4>1. frames[d].obj \in DOMAIN mem.done /\ frames'[d] = frames[d]
        BY <1>1, <2>9, <3>1, <3>4 DEF Calls, EnteredAll
      <4>2. mem.done[frames[d].obj] \subseteq mem'.done[frames[d].obj]
        BY <2>7, <4>1
      <4> QED BY <3>2, <4>1, <4>2 DEF SeenRead
    <3>5. CASE d # depth - 1 /\ frames[d].kind # "message"
      <4>1. frames'[d] = frames[d]
        BY <2>9, <3>5
      <4> QED BY <3>5, <4>1 DEF SeenRead
    <3> QED BY <3>3, <3>4, <3>5
  <2>13. (\A o \in DOMAIN mem.done : Standing(mem, o) => InProgress(o) \/ Complete(mem, o))'
    BY <2>11 DEF Standing, Visits, Items, Get
  <2>14. (\A d \in 1 .. depth : (d = depth => ret = "none") => SeenRead(frames[d], mem))'
    BY <1>1, <2>12 DEF SeenRead, Checked, Required
  <2>15. Marked(Top, mem)'
    BY <2>8, <2>9 DEF Marked
  <2> QED BY <1>3, <2>9, <2>10, <2>13, <2>14, <2>15 DEF Settling
<1>6. CASE ~(Parent.kind = "message" /\ ret = "ok")
  <2>1. /\ ret' = ret /\ frames' = [frames EXCEPT ![depth - 1] = Closed]
        /\ mem' = IF ret = "fail" /\ Parent.owns THEN ReleaseObject(mem, Parent.obj) ELSE mem
    BY <1>6 DEF Return
  <2>2. /\ \A d \in 1 .. depth - 1 : frames'[d] = IF d = depth - 1 THEN Closed ELSE frames[d]
        /\ (\A d \in 1 .. depth - 1 : CalledBack(frames[d], frames[d + 1]))'
    BY <1>2, <1>4, <2>1 DEF Like
  <2>3. CASE ret = "fail"
    BY <1>3, <2>1, <2>2, <2>3 DEF Settling
  <2>4. CASE ret = "ok"
    <3>1. Parent.kind # "message" /\ mem' = mem
      BY <1>6, <2>1, <2>4
    <3>2. Housed(mem) /\ \A o \in DOMAIN mem.done : Standing(mem, o) => InProgress(o) \/ Complete(mem, o)
      BY <1>1, <2>4 DEF Settling
    <3>3. Housed(mem)'
      BY <1>1, <3>1, <3>2 DEF Housed, Blocked, Homed, TypeAt, Reaches, Placed
    <3>4. ASSUME NEW o, InProgress(o)
          PROVE  InProgress(o)'
      <4>1. PICK d \in 1 .. depth :
               frames[d].kind = "message" /\ frames[d].obj = o /\ (d = depth => ret = "none")
        BY <3>4 DEF InProgress
      <4>2. d \in 1 .. depth - 1 /\ d # depth - 1 /\ d # depth'
        BY <1>1, <1>2, <1>3, <3>1, <4>1
      <4>3. frames'[d].kind = "message" /\ frames'[d].obj = o /\ d \in 1 .. depth'
        BY <1>1, <2>2, <4>1, <4>2
      <4> QED BY <1>3, <4>2, <4>3 DEF InProgress
    <3>5. \A o : Complete(mem, o) => Complete(mem, o)'
      BY <1>1, <3>1 DEF Complete, TypeAt
    <3>6. (\A o \in DOMAIN mem.done : Standing(mem, o) => InProgress(o) \/ Complete(mem, o))'
      BY <3>1, <3>2, <3>4, <3>5 DEF Standing, Visits, Items, Get
    <3>7. ASSUME NEW d \in 1 .. depth', d # depth'
          PROVE  SeenRead(frames'[d], mem')
      <4>1. d \in 1 .. depth /\ d \in 1 .. depth - 1 /\ d # depth - 1 /\ d # depth
        BY <1>1, <1>3, <3>7
      <4>2. SeenRead(frames[d], mem) /\ frames'[d] = frames[d]
        BY <1>1, <2>2, <2>4, <4>1 DEF Settling
      <4> QED BY <3>1, <4>2
    <3>8. (\A d \in 1 .. depth : (d = depth => ret = "none") => SeenRead(frames[d], mem))'
      BY <1>1, <2>1, <3>7 DEF SeenRead, Checked, Required
    <3> QED BY <1>1, <1>3, <2>1, <2>2, <3>3, <3>6, <3>8 DEF Settling
  <2> QED BY <1>3, <2>3, <2>4
<1> QED BY <1>5, <1>6
\* A call that begins has nothing to answer for but what its memory holds.
LEMMA StartedSettling ==
    ASSUME Busy', depth' = 1, NEW fr, frames'[1] = fr,
           fr.phase = "tag" \/ fr.kind = "outer", fr.seen = {}, Housed(mem)',
           (\A o \in DOMAIN mem.done : Standing(mem, o) => InProgress(o) \/ Complete(mem, o))'
    PROVE  Settling'
<1>1. call' \notin {"held", "idle"} /\ 1 .. depth' = {1} /\ 1 .. depth' - 1 = {} /\ Top' = fr
  BY DEF Busy, Top
<1>2. (\A d \in 1 .. depth : (d = depth => ret = "none") => SeenRead(frames[d], mem))'
  BY <1>1 DEF SeenRead
<1>3. Marked(Top, mem)'
  BY <1>1 DEF Marked
<1>4. (\A d \in 1 .. depth - 1 : CalledBack(frames[d], frames[d + 1]))'
  BY <1>1
<1> QED BY <1>1, <1>2, <1>3, <1>4 DEF Settling

\* The struct pb_decode clears, whatever message it is to be.
LEMMA ClearHoused ==
    ASSUME mem' = Entered(Nothing, <<>>)
    PROVE  Housed(mem)' /\ DOMAIN mem'.done = {<<>>}
<1>1. /\ mem' \in Memory /\ DOMAIN mem'.done = {<<>>} /\ DOMAIN mem'.room = {} /\ Len(<<>>) = 0
  BY NothingMem, NewMem, EnteredMem
<1>2. Blocked(mem)'
  BY <1>1 DEF Blocked
<1>3. Reaches(root', <<>>, TypeAt(<<>>)') /\ Homed(mem, <<>>)'
  BY <1>1 DEF Reaches, TypeAt, Homed
<1> QED BY <1>1, <1>2, <1>3 DEF Housed

\* The caller begins with a message in progress, or with complete ones.
LEMMA CallerSettling ==
    ASSUME Calls, Calls', Settling, Caller
    PROVE  Settling'
<1>1. ASSUME NEW m \in Roots, NEW n \in StreamSizes[m],
             Decode(m, n) \/ DecodeDelimited(m, n) \/ DecodeNoinit(m, n)
      PROVE  Settling'
  <2> DEFINE fresh(fr) == frames' = [d \in 1 .. MaxDepth |-> fr]
             owner == Stream("message", m, <<>>, TRUE, 0, n)
             outer == Stream("outer", m, <<>>, FALSE, 0, n)
             merger == Stream("message", m, <<>>, FALSE, 0, n)
  <2>1. /\ depth' = 1 /\ Busy' /\ ret' = "none" /\ root' = m
        /\ fresh(owner) \/ fresh(outer) \/ fresh(merger)
        /\ call = "idle" \/ (call = "held" /\ m = root)
        /\ \/ mem' = Entered(Nothing, <<>>) /\ (fresh(owner) \/ fresh(merger))
           \/ mem' = mem /\ call = "idle" /\ fresh(outer)
           \/ mem' = mem /\ call = "held" /\ m = root /\ fresh(merger)
    BY <1>1 DEF Decode, DecodeDelimited, DecodeNoinit, Start, Busy
  <2>2. /\ owner.phase = "tag" /\ owner.kind = "message" /\ owner.obj = <<>> /\ owner.seen = {}
        /\ outer.kind = "outer" /\ outer.seen = {}
        /\ merger.phase = "tag" /\ merger.kind = "message" /\ merger.obj = <<>> /\ merger.seen = {}
    BY DEF Stream
  <2> HIDE DEF owner, outer, merger
  <2>3. 1 \in 1 .. MaxDepth
    BY DecodeAssumption
  <2>4. PICK fr : /\ frames'[1] = fr /\ (fr.phase = "tag" \/ fr.kind = "outer") /\ fr.seen = {}
                  /\ \/ mem' = Entered(Nothing, <<>>) /\ fr.kind = "message" /\ fr.obj = <<>>
                     \/ mem' = mem /\ call = "idle"
                     \/ mem' = mem /\ call = "held" /\ root' = root
    <3>1. ASSUME NEW fr, fresh(fr)
          PROVE  frames'[1] = fr
      BY <2>3, <3>1
    <3> HIDE DEF fresh
    <3>2. CASE mem' = Entered(Nothing, <<>>) /\ fresh(owner)
      <4>1. frames'[1] = owner
        BY <3>1, <3>2
      <4> QED BY <2>2, <3>2, <4>1
    <3>3. CASE mem' = Entered(Nothing, <<>>) /\ fresh(merger)
      <4>1. frames'[1] = merger
        BY <3>1, <3>3
      <4> QED BY <2>2, <3>3, <4>1
    <3>4. CASE fresh(outer) /\ mem' = mem /\ call = "idle"
      <4>1. frames'[1] = outer
        BY <3>1, <3>4
      <4> QED BY <2>2, <3>4, <4>1
    <3>5. CASE fresh(merger) /\ mem' = mem /\ call = "held" /\ m = root
      <4>1. frames'[1] = merger
        BY <3>1, <3>5
      <4> QED BY <2>1, <2>2, <3>5, <4>1
    <3> QED BY <2>1, <3>2, <3>3, <3>4, <3>5
  <2> HIDE DEF fresh
  <2>5. CASE mem' = Entered(Nothing, <<>>) /\ fr.kind = "message" /\ fr.obj = <<>>
    <3>1. Housed(mem)' /\ DOMAIN mem'.done = {<<>>}
      BY <2>5, ClearHoused
    <3>2. InProgress(<<>>)'
      <4>1. 1 \in 1 .. depth'
        BY <2>1
      <4> QED BY <2>1, <2>4, <2>5, <4>1 DEF InProgress
    <3>3. (\A o \in DOMAIN mem.done : Standing(mem, o) => InProgress(o) \/ Complete(mem, o))'
      BY <3>1, <3>2
    <3> QED BY <2>1, <2>4, <3>1, <3>3, StartedSettling
  <2>6. CASE mem' = mem /\ call = "idle"
    <3>1. DOMAIN mem'.done = {} /\ DOMAIN mem'.room = {} /\ mem' \in Memory
      BY <2>6, AtTop DEF Settling
    <3>2. Housed(mem)'
      BY <3>1 DEF Housed, Blocked
    <3>3. (\A o \in DOMAIN mem.done : Standing(mem, o) => InProgress(o) \/ Complete(mem, o))'
      BY <3>1
    <3> QED BY <2>1, <2>4, <3>2, <3>3, StartedSettling
  <2>7. CASE mem' = mem /\ call = "held" /\ root' = root
    <3>1. /\ Housed(mem) /\ ~Busy
          /\ \A o \in DOMAIN mem.done : Standing(mem, o) => InProgress(o) \/ Complete(mem, o)
      BY <2>7 DEF Settling, Busy
    <3>2. Housed(mem)'
      BY <2>7, <3>1 DEF Housed, Blocked, Homed, TypeAt, Reaches, Placed
    <3>3. \A o : Complete(mem, o) => Complete(mem, o)'
      BY <2>7 DEF Complete, TypeAt
    <3>4. (\A o \in DOMAIN mem.done : Standing(mem, o) => InProgress(o) \/ Complete(mem, o))'
      <4>1. \A o \in DOMAIN mem.done : Standing(mem, o) => Complete(mem, o)
        BY <3>1 DEF InProgress
      <4> QED BY <2>7, <3>3, <4>1 DEF Standing, Visits, Items, Get
    <3> QED BY <2>1, <2>4, <3>2, <3>4, StartedSettling
  <2> QED BY <2>4, <2>5, <2>6, <2>7
<1>2. CASE Release
  <2>1. call' = "idle" /\ mem' = Unread(ReleaseObject(mem, <<>>))
    BY <1>2 DEF Release
  <2>2. DOMAIN mem'.done = {} /\ DOMAIN mem'.room = {}
    <3>1. ReleaseObject(mem, <<>>) \in Memory
      BY AtTop, ReleasedMem DEF ReleaseObject
    <3> QED BY <2>1, <3>1, UnreadMem
  <2> QED BY <2>1, <2>2 DEF Settling, Busy
<1> QED BY <1>1, <1>2 DEF Caller

\* What he holds then is complete.
LEMMA FinishedSettling ==
    ASSUME Calls, Settling, Finished
    PROVE  Settling'
<1>1. /\ Busy /\ ret # "none" /\ depth = 1 /\ root' = root
      /\ call' \in {"idle", "held", "broken"} /\ (call' = "held" => ret = "ok")
      /\ mem' = IF call' = "idle" THEN Unread(mem) ELSE mem
  BY DEF Finished
<1>2. ~Busy'
  BY <1>1 DEF Busy
<1>3. CASE call' = "idle"
  <2>1. DOMAIN mem'.done = {} /\ DOMAIN mem'.room = {}
    BY <1>1, <1>3, AtTop, UnreadMem
  <2> QED BY <1>2, <1>3, <2>1 DEF Settling
<1>4. CASE call' = "held"
  <2>1. /\ Housed(mem) /\ mem' = mem
        /\ \A o \in DOMAIN mem.done : Standing(mem, o) => InProgress(o) \/ Complete(mem, o)
    BY <1>1, <1>4 DEF Settling
  <2>2. \A o : ~InProgress(o)
    BY <1>1 DEF InProgress
  <2>3. Housed(mem)'
    BY <1>1, <2>1 DEF Housed, Blocked, Homed, TypeAt, Reaches, Placed
  <2>4. \A o : Complete(mem, o) => Complete(mem, o)'
    BY <1>1, <2>1 DEF Complete, TypeAt
  <2>5. (\A o \in DOMAIN mem.done : Standing(mem, o) => InProgress(o) \/ Complete(mem, o))'
    <3>1. \A o \in DOMAIN mem.done : Standing(mem, o) => Complete(mem, o)
      BY <2>1, <2>2
    <3> QED BY <2>1, <2>4, <3>1 DEF Standing, Visits, Items, Get
  <2> QED BY <1>2, <1>4, <2>3, <2>5 DEF Settling
<1>5. CASE call' = "broken"
  BY <1>2, <1>5 DEF Settling
<1> QED BY <1>1, <1>3, <1>4, <1>5

\* Every step leaves what stands complete, or in progress.
LEMMA SettlingNext ==
    ASSUME Calls, Calls', Counting, Owned, Settling, [Next]_vars
    PROVE  Settling'
<1>1. CASE UNCHANGED vars
  <2>1. /\ frames' = frames /\ depth' = depth /\ ret' = ret /\ call' = call /\ root' = root
        /\ mem' = mem
    BY <1>1 DEF vars
  <2>2. Housed(mem)' = Housed(mem)
    BY <2>1 DEF Housed, Blocked, Homed, TypeAt, Reaches, Placed
  <2>3. \A o : (Complete(mem, o)' <=> Complete(mem, o)) /\ (InProgress(o)' <=> InProgress(o))
                  /\ (Standing(mem, o)' <=> Standing(mem, o))
    BY <2>1 DEF Complete, TypeAt, InProgress, Busy, Standing, Visits, Items, Get
  <2>4. (\A d \in 1 .. depth : (d = depth => ret = "none") => SeenRead(frames[d], mem))'
            <=> \A d \in 1 .. depth : (d = depth => ret = "none") => SeenRead(frames[d], mem)
    BY <2>1 DEF SeenRead, Checked, Required
  <2>5. Marked(Top, mem)' <=> Marked(Top, mem)
    BY <2>1 DEF Marked, Top
  <2>6. (\A d \in 1 .. depth - 1 : CalledBack(frames[d], frames[d + 1]))'
            <=> \A d \in 1 .. depth - 1 : CalledBack(frames[d], frames[d + 1])
    BY <2>1 DEF CalledBack
  <2> QED BY <2>1, <2>2, <2>3, <2>4, <2>5, <2>6 DEF Settling, Busy
<1>2. CASE Caller
  BY <1>2, CallerSettling
<1>3. CASE EndOfMessage \/ SkipField
  BY <1>3, EndOfMessageSettling, SkipFieldSettling
<1>4. CASE \E w \in Wires : UnknownField(w) \/ \E i \in DOMAIN Msg[Top.msg] : KnownField(i, w)
  BY <1>4, UnknownFieldSettling, KnownFieldSettling
<1>5. CASE BeginStatic \/ BeginPointer \/ BeginStaticItem \/ BeginPointerItem
  BY <1>5, BeginStaticSettling, BeginPointerSettling, BeginStaticItemSettling, BeginPointerItemSettling
<1>6. CASE ReadScalar \/ ReadText \/ TextCut \/ Unreadable \/ PackedUnreadable
  BY <1>6, ReadScalarSettling, ReadTextSettling, FailsSettling
<1>7. CASE OpenSubmessage \/ OpenPacked \/ OpenDelimited \/ OpenCallback
  BY <1>7, OpenSubmessageSettling, OpenPackedSettling, OpenDelimitedSettling, OpenCallbackSettling
<1>8. CASE PackedItem \/ PackedGrow \/ PackedEnd
  BY <1>8, PackedItemSettling, PackedGrowSettling, PackedEndSettling
<1>9. CASE SkipCallback \/ CallbackScalar \/ CallbackReads
  BY <1>9, SkipCallbackSettling, CallbackScalarSettling, CallbackReadsSettling
<1>10. CASE Return \/ Finished
  BY <1>10, ReturnSettling, FinishedSettling
<1> QED BY <1>1, <1>2, <1>3, <1>4, <1>5, <1>6, <1>7, <1>8, <1>9, <1>10 DEF Next, Walk

\* What stands is always complete, or in progress.
LEMMA SettlingAlways == Spec => []Settling
<1>1. Init => Settling
  <2> SUFFICES ASSUME Init
               PROVE  Settling
    OBVIOUS
  <2>1. DOMAIN mem.done = {} /\ DOMAIN mem.room = {} /\ ~Busy /\ call = "idle"
    BY NothingMem DEF Init, Busy
  <2> QED BY <2>1 DEF Settling
<1>2. Calls /\ Calls' /\ Counting /\ Owned /\ Settling /\ [Next]_vars => Settling'
  BY SettlingNext
<1> QED BY <1>1, <1>2, CallsAlways, CountingAlways, OwnedAlways, PTL DEF Spec

\* Whatever the caller holds has its required fields, in every object that is
\* part of it: no successful pb_decode leaves one of the first MaxRequired out.
THEOREM RequiredRead == Spec => []RequiredThere
<1>1. Settling => RequiredThere
  <2> SUFFICES ASSUME Settling, call = "held", NEW o \in DOMAIN mem.done, InUse(mem, o)
               PROVE  {i \in Checked(TypeAt(o)) : Msg[TypeAt(o)][i].alloc # "callback"}
                          \subseteq mem.done[o]
    BY DEF RequiredThere, TypeAt
  <2>1. /\ Housed(mem) /\ ~Busy
        /\ Standing(mem, o) => InProgress(o) \/ Complete(mem, o)
    BY DEF Settling, Busy
  <2>2. DOMAIN o = 1 .. Len(o)
    BY <2>1, HousedPath, PathSeq
  <2>3. Standing(mem, o)
    BY <2>2 DEF Standing, InUse
  <2> QED BY <2>1, <2>3 DEF InProgress, Complete
<1> QED BY <1>1, SettlingAlways, PTL
=============================================================================
