--------------------------- MODULE PbEncodeProofs ---------------------------
(***************************************************************************)
(* For every set of messages, every nesting and every buffer: the streams  *)
(* of nested pb_encode calls stay inside one another and inside the        *)
(* caller's buffer, and bytes_written is what is in it, whatever the       *)
(* callbacks write; the length put in front of a submessage, a string or   *)
(* a packed array is the number of bytes behind it; and a buffer of the    *)
(* measured size is filled to the last byte when no callback fails or has  *)
(* a choice of what to write.                                              *)
(***************************************************************************)
EXTENDS PbEncode, FiniteSetTheorems, WellFoundedInduction, TLAPS

\* A frame points at a field it has and, while it encodes one, at one of its
\* items; only a submessage is measured or entered.
InRange(fr) ==
    /\ fr.pos >= 1
    /\ fr.phase = "field" => fr.item = 1
    /\ fr.phase # "field" =>
          /\ fr.pos \in 1 .. Len(Msg[fr.msg])
          /\ fr.item \in 1 .. Len(Msg[fr.msg][fr.pos].items)
    /\ fr.phase \in {"measure", "inside"} => Whole(Msg[fr.msg][fr.pos])

\* What a writing stream may still put ends before the buffer does.
Bounded(fr, end) ==
    ~ fr.sizing => fr.written <= fr.max /\ fr.state + (fr.max - fr.written) <= end

\* A nested call and the call it is made from.
Link(p, c) ==
    /\ p.phase \in {"measure", "inside"}
    /\ p.phase = "measure" => c.sizing
    /\ p.phase = "inside" =>
          /\ ~ p.sizing /\ ~ c.sizing
          /\ c.max = p.size /\ p.written + p.size <= p.max
          /\ c.state = p.state + c.written

Stack ==
    /\ \A d \in 1 .. depth : InRange(frames[d]) /\ Bounded(frames[d], limit)
    /\ \A d \in 1 .. depth - 1 : Link(frames[d], frames[d + 1])
    /\ ~ frames[1].sizing => frames[1].state = frames[1].written

IInv == TypeOK /\ Stack

-----------------------------------------------------------------------------
(* Sizes are numbers. *)

\* A varint has a number of bytes.
LEMMA VarintLenType == \A v : VarintLen(v) \in Nat
<1> TAKE v
<1> DEFINE S == {k \in 1 .. 9 : Base ^ k <= v}
<1>1. IsFiniteSet(1 .. 9)
  <2>1. 1 \in Int /\ 9 \in Int
    OBVIOUS
  <2> QED BY <2>1, FS_Interval
<1>2. S \subseteq 1 .. 9
  OBVIOUS
<1>3. IsFiniteSet(S)
  BY <1>1, <1>2, FS_Subset
<1>4. Cardinality(S) \in Nat
  BY <1>3, FS_CardinalityType
<1> HIDE DEF S
<1>5. 1 + Cardinality(S) \in Nat
  BY <1>4
<1> QED BY <1>5 DEF VarintLen, S

\* The fields of a message and their items have their types.
LEMMA FieldsType ==
    ASSUME NEW m \in Messages
    PROVE  /\ Msg[m] \in Seq(FieldType)
           /\ \A i \in 1 .. Len(Msg[m]) :
                 /\ Msg[m][i] \in FieldType /\ Msg[m][i].items \in Seq(Nat)
                 /\ Msg[m][i].writes \subseteq Nat
<1>1. Msg[m] \in Seq(FieldType)
  BY MessageAssumption
<1>2. ASSUME NEW i \in 1 .. Len(Msg[m]) PROVE Msg[m][i] \in FieldType
  BY <1>1
<1> QED BY <1>1, <1>2 DEF FieldType

\* A field of a frame in range, and its item.
LEMMA FieldInRange ==
    ASSUME NEW fr \in Frame, InRange(fr), fr.phase # "field",
           NEW f, f = Msg[fr.msg][fr.pos]
    PROVE  /\ f \in FieldType /\ f.items \in Seq(Nat)
           /\ f.width \in Nat /\ f.tag \in Nat
           /\ f.items[fr.item] \in Nat
           /\ Whole(f) => f.items[fr.item] \in Messages
<1>1. Msg[fr.msg] \in Seq(FieldType) /\ fr.msg \in Messages
  BY MessageAssumption DEF Frame
<1>2. f \in FieldType
  BY <1>1 DEF InRange
<1>3. f.items \in Seq(Nat) /\ f.width \in Nat /\ f.tag \in Nat
  BY <1>2 DEF FieldType
<1>4. f.items[fr.item] \in Nat
  <2>1. fr.item \in 1 .. Len(f.items)
    BY DEF InRange
  <2> DEFINE s == f.items
  <2>2. s \in Seq(Nat) /\ fr.item \in 1 .. Len(s)
    BY <1>3, <2>1
  <2> HIDE DEF s
  <2>3. s[fr.item] \in Nat
    BY <2>2
  <2> QED BY <2>3 DEF s
<1>5. Whole(f) => f.items[fr.item] \in Messages
  <2> SUFFICES ASSUME Whole(f) PROVE f.items[fr.item] \in Messages
    OBVIOUS
  <2>1. fr.pos \in DOMAIN Msg[fr.msg]
    BY <1>1 DEF InRange
  <2>2. f.items \in Seq(Messages)
    BY <1>1, <2>1, MessageAssumption
  <2> QED BY <2>2 DEF InRange
<1> QED BY <1>2, <1>3, <1>4, <1>5

\* The innermost stream is a stream, at a field of its message and within its limit.
LEMMA TopType ==
    ASSUME IInv
    PROVE  /\ Top \in Frame /\ InRange(Top) /\ Bounded(Top, limit)
           /\ depth \in 1 .. MaxDepth
  BY MessageAssumption DEF IInv, TypeOK, Stack, Top

\* What is written next has a size.
LEMMA ChunkType ==
    ASSUME IInv, Top.phase \in Writing
    PROVE  Chunk \in Nat
<1>1. Top \in Frame /\ InRange(Top) /\ Top.phase # "field"
  BY TopType DEF Writing
<1> DEFINE f == Msg[Top.msg][Top.pos]
<1>2. f \in FieldType /\ f.width \in Nat /\ f.items[Top.item] \in Nat
  BY <1>1, FieldInRange
<1>3. Field = f /\ Item = f.items[Top.item]
  BY DEF Field, Fields, Item
<1>4. Top.size \in Nat
  BY <1>1 DEF Frame
<1> HIDE DEF f
<1>5. TextLen(f, f.items[Top.item]) \in Nat /\ ScalarLen(f, f.items[Top.item]) \in Nat
  BY <1>2, VarintLenType DEF TextLen, ScalarLen
<1> QED BY <1>3, <1>4, <1>5, VarintLenType DEF Chunk, Writing

-----------------------------------------------------------------------------
(* Changes of the stack. *)

\* The same stream, further on.
Advances(fr, old) ==
    /\ fr \in Frame /\ InRange(fr) /\ Bounded(fr, limit)
    /\ fr.sizing = old.sizing /\ fr.max = old.max
    /\ ~ fr.sizing => fr.state - fr.written = old.state - old.written

\* The innermost call, or the one it returns to, moves on.
LEMMA Replace ==
    ASSUME IInv, NEW e \in 1 .. depth, NEW fr, Advances(fr, frames[e]),
           frames' = [frames EXCEPT ![e] = fr], depth' = e, limit' = limit
    PROVE  frames' \in [1 .. MaxDepth -> Frame] /\ depth' \in 1 .. MaxDepth /\ Stack'
<1>1. /\ frames \in [1 .. MaxDepth -> Frame] /\ depth \in 1 .. MaxDepth
      /\ MaxDepth \in Nat /\ e \in 1 .. MaxDepth
  BY MessageAssumption DEF IInv, TypeOK
<1>2. frames' \in [1 .. MaxDepth -> Frame] /\ depth' \in 1 .. MaxDepth
  BY <1>1 DEF Advances
<1>3. frames'[e] = fr /\ \A d \in 1 .. depth : d # e => frames'[d] = frames[d]
  BY <1>1
<1>4. \A d \in 1 .. e : InRange(frames'[d]) /\ Bounded(frames'[d], limit)
  BY <1>1, <1>3 DEF IInv, Stack, Advances
<1>5. ASSUME NEW d \in 1 .. e - 1 PROVE Link(frames'[d], frames'[d + 1])
  <2>1. d \in 1 .. depth - 1 /\ d \in 1 .. depth /\ d + 1 \in 1 .. depth /\ d # e
    BY <1>1
  <2>2. Link(frames[d], frames[d + 1]) /\ frames'[d] = frames[d]
    BY <2>1, <1>3 DEF IInv, Stack
  <2>3. CASE d + 1 # e
    BY <2>1, <2>2, <2>3, <1>3
  <2>4. CASE d + 1 = e
    <3> DEFINE p == frames[d]
               c == frames[e]
    <3>1. p \in Frame /\ c \in Frame /\ fr \in Frame
      BY <1>1, <2>1 DEF Advances
    <3>2. /\ fr.sizing = c.sizing /\ fr.max = c.max
          /\ ~ fr.sizing => fr.state - fr.written = c.state - c.written
      BY DEF Advances
    <3>3. Link(p, c) /\ frames'[d] = p /\ frames'[d + 1] = fr
      BY <2>2, <2>4, <1>3
    <3> HIDE DEF p, c
    <3>4. ~ fr.sizing => /\ fr.state \in Nat /\ fr.written \in Nat /\ c.state \in Nat
                        /\ c.written \in Nat /\ p.state \in Nat
      BY <3>1 DEF Frame
    <3>5. ~ fr.sizing /\ c.state = p.state + c.written => fr.state = p.state + fr.written
      BY <3>2, <3>4
    <3>6. Link(p, fr)
      BY <3>2, <3>3, <3>5 DEF Link
    <3> QED BY <3>3, <3>6
  <2> QED BY <2>3, <2>4
<1>6. ~ frames'[1].sizing => frames'[1].state = frames'[1].written
  <2>1. CASE e # 1
    BY <2>1, <1>1, <1>3 DEF IInv, Stack
  <2>2. CASE e = 1
    <3> DEFINE c == frames[1]
    <3>1. c \in Frame /\ fr \in Frame /\ frames'[1] = fr
      BY <1>1, <1>3, <2>2 DEF Advances
    <3>2. fr.sizing = c.sizing
          /\ (~ fr.sizing => fr.state - fr.written = c.state - c.written)
      BY <2>2 DEF Advances
    <3>3. ~ c.sizing => c.state = c.written
      BY DEF IInv, Stack
    <3> HIDE DEF c
    <3>4. /\ fr.state \in Nat /\ fr.written \in Nat
          /\ c.state \in Nat /\ c.written \in Nat
      BY <3>1 DEF Frame
    <3> QED BY <3>1, <3>2, <3>3, <3>4
  <2> QED BY <2>1, <2>2
<1> QED BY <1>2, <1>4, <1>5, <1>6 DEF Stack

\* A nested call begins.
LEMMA Nest ==
    ASSUME IInv, depth < MaxDepth, NEW p, Advances(p, Top),
           NEW c \in Frame, InRange(c), Bounded(c, limit), Link(p, c),
           frames' = [frames EXCEPT ![depth] = p, ![depth + 1] = c],
           depth' = depth + 1, limit' = limit
    PROVE  frames' \in [1 .. MaxDepth -> Frame] /\ depth' \in 1 .. MaxDepth /\ Stack'
<1>1. /\ frames \in [1 .. MaxDepth -> Frame] /\ depth \in 1 .. MaxDepth
      /\ MaxDepth \in Nat /\ depth + 1 \in 1 .. MaxDepth
  BY MessageAssumption DEF IInv, TypeOK
<1>2. frames' \in [1 .. MaxDepth -> Frame] /\ depth' \in 1 .. MaxDepth
  BY <1>1 DEF Advances
<1>3. /\ frames'[depth] = p /\ frames'[depth + 1] = c
      /\ \A d \in 1 .. depth - 1 : frames'[d] = frames[d]
  BY <1>1
<1>4. ASSUME NEW d \in 1 .. depth + 1
      PROVE  InRange(frames'[d]) /\ Bounded(frames'[d], limit)
  <2>1. CASE d = depth + 1
    BY <2>1, <1>3
  <2>2. CASE d = depth
    BY <2>2, <1>3 DEF Advances
  <2>3. CASE d \in 1 .. depth - 1
    <3>1. d \in 1 .. depth /\ frames'[d] = frames[d]
      BY <2>3, <1>1, <1>3
    <3>2. InRange(frames[d]) /\ Bounded(frames[d], limit)
      BY <3>1 DEF IInv, Stack
    <3> QED BY <3>1, <3>2
  <2> QED BY <1>1, <2>1, <2>2, <2>3
<1>5. ASSUME NEW d \in 1 .. depth PROVE Link(frames'[d], frames'[d + 1])
  <2>1. CASE d = depth
    BY <2>1, <1>3
  <2>2. CASE d \in 1 .. depth - 2
    BY <2>2, <1>1, <1>3 DEF IInv, Stack
  <2>3. CASE d = depth - 1 /\ d >= 1
    <3> DEFINE q == frames[d]
               t == frames[depth]
    <3>1. q \in Frame /\ t \in Frame /\ p \in Frame
      BY <1>1, <2>3 DEF Advances
    <3>2. /\ p.sizing = t.sizing /\ p.max = t.max
          /\ ~ p.sizing => p.state - p.written = t.state - t.written
      BY DEF Advances, Top
    <3>3. Link(q, t) /\ frames'[d] = q /\ frames'[d + 1] = p
      BY <2>3, <1>1, <1>3 DEF IInv, Stack
    <3> HIDE DEF q, t
    <3>4. ~ p.sizing => /\ p.state \in Nat /\ p.written \in Nat /\ t.state \in Nat
                       /\ t.written \in Nat /\ q.state \in Nat
      BY <3>1 DEF Frame
    <3>5. ~ p.sizing /\ t.state = q.state + t.written => p.state = q.state + p.written
      BY <3>2, <3>4
    <3>6. Link(q, p)
      BY <3>2, <3>3, <3>5 DEF Link
    <3> QED BY <3>3, <3>6
  <2> QED BY <1>1, <2>1, <2>2, <2>3
<1>6. ~ frames'[1].sizing => frames'[1].state = frames'[1].written
  <2>1. CASE depth # 1
    BY <2>1, <1>1, <1>3 DEF IInv, Stack
  <2>2. CASE depth = 1
    <3> DEFINE t == frames[1]
    <3>1. t \in Frame /\ p \in Frame /\ frames'[1] = p
      BY <1>1, <1>3, <2>2 DEF Advances
    <3>2. p.sizing = t.sizing
          /\ (~ p.sizing => p.state - p.written = t.state - t.written)
      BY <2>2 DEF Advances, Top
    <3>3. ~ t.sizing => t.state = t.written
      BY DEF IInv, Stack
    <3> HIDE DEF t
    <3>4. p.state \in Nat /\ p.written \in Nat /\ t.state \in Nat /\ t.written \in Nat
      BY <3>1 DEF Frame
    <3> QED BY <3>1, <3>2, <3>3, <3>4
  <2> QED BY <2>1, <2>2
<1>7. \A d \in 1 .. depth' - 1 : Link(frames'[d], frames'[d + 1])
  BY <1>1, <1>5
<1>8. \A d \in 1 .. depth' : InRange(frames'[d]) /\ Bounded(frames'[d], limit')
  BY <1>4
<1> QED BY <1>2, <1>6, <1>7, <1>8 DEF Stack

-----------------------------------------------------------------------------
(* Moves of one frame. *)

\* n more bytes on the same stream.
Moved(fr, old, n) ==
    /\ fr \in Frame /\ fr.msg = old.msg
    /\ fr.sizing = old.sizing /\ fr.max = old.max
    /\ fr.written = old.written + n
    /\ fr.state = IF old.sizing THEN old.state ELSE old.state + n

\* A stream that moved by bytes it had room for has advanced.
LEMMA MovedAdvances ==
    ASSUME IInv, NEW n \in Nat, NEW fr, Moved(fr, Top, n), Room(Top, n), InRange(fr)
    PROVE  Advances(fr, frames[depth])
<1> DEFINE t == Top
<1>1. t \in Frame /\ Bounded(t, limit) /\ Top = frames[depth] /\ limit \in Nat
  BY TopType DEF Top, IInv, TypeOK
<1>2. Moved(fr, t, n) /\ Room(t, n)
  OBVIOUS
<1> HIDE DEF t
<1>3. t.written \in Nat /\ t.state \in Nat /\ t.max \in Nat
  BY <1>1 DEF Frame
<1>4. Bounded(fr, limit)
  BY <1>1, <1>2, <1>3 DEF Bounded, Moved, Room
<1>5. ~ fr.sizing => fr.state - fr.written = t.state - t.written
  BY <1>2, <1>3 DEF Moved
<1> QED BY <1>1, <1>2, <1>4, <1>5 DEF Advances, Moved, t

\* pb_write moves a stream by the bytes written and nothing else.
LEMMA WroteMoves ==
    ASSUME NEW t \in Frame, NEW n \in Nat
    PROVE  /\ Moved(Wrote(t, n), t, n)
           /\ Wrote(t, n).pos = t.pos /\ Wrote(t, n).item = t.item
           /\ Wrote(t, n).phase = t.phase /\ Wrote(t, n).size = t.size
           /\ Wrote(t, n).mark = t.mark
<1> DEFINE u == t.written + n
           v == IF t.sizing THEN t.state ELSE t.state + n
<1>1. Wrote(t, n) = [t EXCEPT !.written = u, !.state = v]
  BY DEF Wrote
<1>2. u \in Nat /\ v \in Nat
  BY DEF Frame
<1> HIDE DEF u, v
<1>3. /\ Wrote(t, n) \in Frame /\ Wrote(t, n).written = u /\ Wrote(t, n).state = v
      /\ Wrote(t, n).msg = t.msg /\ Wrote(t, n).sizing = t.sizing /\ Wrote(t, n).max = t.max
      /\ Wrote(t, n).pos = t.pos /\ Wrote(t, n).item = t.item
      /\ Wrote(t, n).phase = t.phase /\ Wrote(t, n).size = t.size
      /\ Wrote(t, n).mark = t.mark
  BY <1>1, <1>2 DEF Frame
<1> QED BY <1>3 DEF Moved, u, v

\* The walk to the next field, or to the next item of an array.
LEMMA NextFieldMoves ==
    ASSUME NEW t, NEW n, NEW fr, Moved(fr, t, n), fr.pos >= 1
    PROVE  Moved(NextField(fr), t, n) /\ InRange(NextField(fr))
<1>1. fr \in Frame /\ fr.pos \in Nat
  BY DEF Moved, Frame
<1> DEFINE q == fr.pos + 1
<1>2. NextField(fr) = [fr EXCEPT !.pos = q, !.item = 1, !.phase = "field"]
  BY DEF NextField
<1>3. q \in Nat /\ q >= 1 /\ "field" \in Phases /\ 1 \in Nat
  BY <1>1 DEF Phases
<1> HIDE DEF q
<1>4. /\ NextField(fr) \in Frame /\ NextField(fr).pos = q /\ NextField(fr).item = 1
      /\ NextField(fr).phase = "field" /\ NextField(fr).msg = fr.msg
      /\ NextField(fr).sizing = fr.sizing /\ NextField(fr).max = fr.max
      /\ NextField(fr).written = fr.written /\ NextField(fr).state = fr.state
  BY <1>1, <1>2, <1>3 DEF Frame
<1> QED BY <1>3, <1>4 DEF Moved, InRange

\* A stream may change its phase within a field.
LEMMA PhaseMoves ==
    ASSUME NEW t \in Frame, InRange(t), t.phase # "field",
           NEW n, NEW fr, Moved(fr, t, n),
           fr.pos = t.pos, fr.item \in 1 .. Len(Msg[t.msg][t.pos].items),
           fr.phase # "field",
           fr.phase \in {"measure", "inside"} => Whole(Msg[t.msg][t.pos])
    PROVE  InRange(fr)
  BY DEF InRange, Moved

\* A stream may go on to the next item of its field.
LEMMA NextItemMoves ==
    ASSUME NEW t \in Frame, InRange(t), t.phase # "field",
           NEW n, NEW fr, Moved(fr, t, n), fr.pos = t.pos, fr.item = t.item,
           NEW ph \in {"tag", "body"},
           fr.item < Len(Msg[t.msg][t.pos].items)
    PROVE  LET x == [fr EXCEPT !.item = @ + 1, !.phase = ph]
           IN  Moved(x, t, n) /\ InRange(x)
<1> DEFINE i == fr.item + 1
           x == [fr EXCEPT !.item = i, !.phase = ph]
           f == Msg[t.msg][t.pos]
<1>1. fr \in Frame /\ fr.item \in Nat /\ f.items \in Seq(Nat)
  BY FieldInRange DEF Moved, Frame
<1>2. i \in Nat /\ i \in 1 .. Len(f.items) /\ ph \in Phases
  <2>1. fr.item < Len(f.items)
    OBVIOUS
  <2> HIDE DEF f
  <2>2. Len(f.items) \in Nat
    BY <1>1
  <2> QED BY <1>1, <2>1, <2>2 DEF Phases, InRange
<1> HIDE DEF i
<1>3. /\ x \in Frame /\ x.item = i /\ x.phase = ph /\ x.pos = fr.pos /\ x.msg = fr.msg
      /\ x.sizing = fr.sizing /\ x.max = fr.max
      /\ x.written = fr.written /\ x.state = fr.state
  BY <1>1, <1>2 DEF Frame
<1>4. [fr EXCEPT !.item = @ + 1, !.phase = ph] = x
  BY DEF i
<1> HIDE DEF x
<1>5. Moved(x, t, n)
  BY <1>3 DEF Moved
<1>6. InRange(x)
  BY <1>2, <1>3, <1>5, PhaseMoves
<1> QED BY <1>4, <1>5, <1>6

-----------------------------------------------------------------------------
(* The steps. *)

StackOK == frames \in [1 .. MaxDepth -> Frame] /\ depth \in 1 .. MaxDepth /\ Stack

\* A step that leaves the streams alone keeps the stack.
LEMMA Stays ==
    ASSUME IInv, UNCHANGED <<frames, depth, limit>>
    PROVE  StackOK'
  BY DEF IInv, TypeOK, StackOK, Stack

\* The innermost stream takes n bytes.
LEMMA Moves ==
    ASSUME IInv, NEW n \in Nat, Room(Top, n), NEW fr, Moved(fr, Top, n), InRange(fr),
           frames' = [frames EXCEPT ![depth] = fr], depth' = depth, limit' = limit
    PROVE  StackOK'
<1>1. Advances(fr, frames[depth])
  BY MovedAdvances
<1>2. depth \in 1 .. depth
  BY TopType, MessageAssumption
<1> QED BY <1>1, <1>2, Replace DEF StackOK

\* A stream may move by no bytes at all.
LEMMA Idles ==
    ASSUME IInv
    PROVE  Moved(Top, Top, 0) /\ Room(Top, 0)
  BY TopType DEF Moved, Room, Bounded, Frame

\* Returning from a pb_encode, with or without success, keeps the stack.
LEMMA ReturnSteps ==
    ASSUME IInv, EndOfMessage \/ MissingRequired \/ ArrayTooLong \/ CallbackFails
                 \/ StreamFull \/ SizeKnown
    PROVE  StackOK'
<1>1. UNCHANGED <<frames, depth, limit>>
  BY DEF EndOfMessage, MissingRequired, ArrayTooLong, CallbackFails, StreamFull,
         SizeKnown, Return
<1> QED BY <1>1, Stays

\* Skipping a field keeps the stack.
LEMMA SkipFieldStep ==
    ASSUME IInv, SkipField
    PROVE  StackOK'
<1>1. Moved(NextField(Top), Top, 0) /\ InRange(NextField(Top))
  BY Idles, NextFieldMoves, TopType DEF InRange
<1>2. frames' = [frames EXCEPT ![depth] = NextField(Top)] /\ depth' = depth /\ limit' = limit
  BY DEF SkipField, Goto
<1> QED BY <1>1, <1>2, Idles, Moves

\* Beginning a field keeps the stack.
LEMMA BeginFieldStep ==
    ASSUME IInv, BeginField
    PROVE  StackOK'
<1> DEFINE ph == IF Field.type = "delimited" THEN "measure" ELSE "tag"
           fr == [Top EXCEPT !.phase = ph]
           t == Top
           f == Msg[t.msg][t.pos]
<1>1. frames' = [frames EXCEPT ![depth] = fr] /\ depth' = depth /\ limit' = limit
  BY DEF BeginField, Goto
<1>2. /\ t \in Frame /\ t.pos >= 1 /\ t.pos <= Len(Msg[t.msg]) /\ t.item = 1
      /\ f.items # <<>> /\ Field = f
  BY TopType DEF BeginField, AtField, Running, InRange, Fields, Field, Has
<1>3. ph \in Phases /\ (ph = "measure" => f.type = "delimited") /\ ph # "inside"
  BY <1>2 DEF Phases
<1>4. t.pos \in 1 .. Len(Msg[t.msg]) /\ ph # "field"
  <2>1. Msg[t.msg] \in Seq(FieldType) /\ t.pos \in Nat
    BY <1>2, FieldsType DEF Frame
  <2>2. Len(Msg[t.msg]) \in Nat
    BY <2>1
  <2> HIDE DEF t, f
  <2> QED BY <1>2, <2>1, <2>2
<1>5. f.items \in Seq(Nat)
  BY <1>2, <1>4, FieldsType DEF Frame
<1>6. 1 \in 1 .. Len(f.items)
  <2> DEFINE s == f.items
  <2>1. s \in Seq(Nat) /\ s # <<>>
    BY <1>2, <1>5
  <2> HIDE DEF s
  <2>2. Len(s) >= 1
    BY <2>1
  <2> QED BY <2>1, <2>2 DEF s
<1> HIDE DEF ph
<1>7. /\ fr \in Frame /\ fr.phase = ph /\ fr.pos = t.pos /\ fr.item = t.item
      /\ fr.msg = t.msg /\ fr.sizing = t.sizing /\ fr.max = t.max
      /\ fr.written = t.written /\ fr.state = t.state
  BY <1>2, <1>3 DEF Frame
<1>8. InRange(fr)
  BY <1>2, <1>3, <1>4, <1>6, <1>7 DEF InRange, Whole
<1>9. Moved(fr, Top, 0)
  BY <1>2, <1>7 DEF Moved, Frame
<1> HIDE DEF fr
<1> QED BY <1>1, <1>8, <1>9, Idles, Moves

\* Whatever a callback writes, the stack is kept.
LEMMA CallbackStep ==
    ASSUME IInv, Callback
    PROVE  StackOK'
<1>1. PICK n \in Field.writes :
         \/ Room(Top, n) /\ Goto(NextField(Wrote(Top, n)))
         \/ ~ Room(Top, n) /\ Return("fail")
  BY DEF Callback
<1>2. n \in Nat
  <2> DEFINE t == Top
  <2>1. t \in Frame /\ t.pos >= 1 /\ t.pos <= Len(Msg[t.msg]) /\ Field = Msg[t.msg][t.pos]
    BY TopType DEF Callback, AtField, Running, Fields, Field, InRange
  <2> HIDE DEF t
  <2>2. t.pos \in Nat /\ Msg[t.msg] \in Seq(FieldType)
    BY <2>1, FieldsType DEF Frame
  <2>3. t.pos \in 1 .. Len(Msg[t.msg])
    BY <2>1, <2>2
  <2> QED BY <2>1, <2>3, FieldsType DEF Frame
<1>3. CASE Return("fail")
  BY <1>3, Stays DEF Return
<1>4. CASE Room(Top, n) /\ Goto(NextField(Wrote(Top, n)))
  <2>1. Moved(Wrote(Top, n), Top, n) /\ Wrote(Top, n).pos >= 1
    BY <1>2, TopType, WroteMoves DEF InRange
  <2>2. Moved(NextField(Wrote(Top, n)), Top, n) /\ InRange(NextField(Wrote(Top, n)))
    BY <2>1, NextFieldMoves
  <2> QED BY <1>2, <1>4, <2>2, Moves DEF Goto
<1> QED BY <1>1, <1>3, <1>4

\* Every way a step turns the frame to its next phase.
LEMMA Turns ==
    ASSUME NEW t \in Frame, InRange(t), t.phase # "field",
           NEW n, NEW w, Moved(w, t, n), w.pos = t.pos,
           w.item \in 1 .. Len(Msg[t.msg][t.pos].items),
           NEW ph \in Phases \ {"field"},
           ph \in {"measure", "inside"} => Whole(Msg[t.msg][t.pos]),
           NEW s \in Nat
    PROVE  /\ LET fr == [w EXCEPT !.phase = ph] IN Moved(fr, t, n) /\ InRange(fr)
           /\ LET fr == [w EXCEPT !.phase = ph, !.size = s]
              IN  Moved(fr, t, n) /\ InRange(fr)
           /\ LET fr == [w EXCEPT !.size = s, !.phase = ph]
              IN  Moved(fr, t, n) /\ InRange(fr)
<1>1. w \in Frame
  BY DEF Moved
<1> DEFINE a == [w EXCEPT !.phase = ph]
           b == [w EXCEPT !.phase = ph, !.size = s]
           c == [w EXCEPT !.size = s, !.phase = ph]
<1>2. /\ a \in Frame /\ a.phase = ph /\ a.pos = w.pos /\ a.item = w.item
      /\ a.msg = w.msg /\ a.sizing = w.sizing /\ a.max = w.max
      /\ a.written = w.written /\ a.state = w.state
  BY <1>1 DEF Frame
<1>3. /\ b \in Frame /\ b.phase = ph /\ b.pos = w.pos /\ b.item = w.item
      /\ b.msg = w.msg /\ b.sizing = w.sizing /\ b.max = w.max
      /\ b.written = w.written /\ b.state = w.state
  BY <1>1 DEF Frame
<1>4. /\ c \in Frame /\ c.phase = ph /\ c.pos = w.pos /\ c.item = w.item
      /\ c.msg = w.msg /\ c.sizing = w.sizing /\ c.max = w.max
      /\ c.written = w.written /\ c.state = w.state
  BY <1>1 DEF Frame
<1> HIDE DEF a, b, c
<1>5. Moved(a, t, n) /\ Moved(b, t, n) /\ Moved(c, t, n)
  BY <1>2, <1>3, <1>4 DEF Moved
<1>6. InRange(a) /\ InRange(b) /\ InRange(c)
  BY <1>2, <1>3, <1>4, <1>5, PhaseMoves
<1> QED BY <1>5, <1>6 DEF a, b, c

\* What a step in the middle of a field knows.
LEMMA InField ==
    ASSUME IInv, Top.phase # "field"
    PROVE  /\ Top \in Frame /\ InRange(Top)
           /\ Field = Msg[Top.msg][Top.pos] /\ Field \in FieldType
           /\ Field.items \in Seq(Nat) /\ Field.width \in Nat
           /\ Item = Field.items[Top.item] /\ Item \in Nat
           /\ Whole(Field) => Item \in Messages
           /\ Top.item \in 1 .. Len(Field.items)
           /\ Top.size \in Nat /\ Top.written \in Nat /\ Top.state \in Nat
<1>1. Top \in Frame /\ InRange(Top)
  BY TopType
<1>2. Field = Msg[Top.msg][Top.pos] /\ Item = Field.items[Top.item]
  BY DEF Field, Fields, Item
<1>3. /\ Field \in FieldType /\ Field.items \in Seq(Nat) /\ Field.width \in Nat
      /\ Item \in Nat /\ (Whole(Field) => Item \in Messages)
  BY <1>1, <1>2, FieldInRange
<1>4. Top.item \in 1 .. Len(Field.items)
  BY <1>1, <1>2 DEF InRange
<1> QED BY <1>1, <1>2, <1>3, <1>4 DEF Frame

\* The sizes a field may announce are sizes.
LEMMA SizeTypes ==
    ASSUME IInv, Top.phase # "field"
    PROVE  /\ TextLen(Field, Item) \in Nat /\ ScalarLen(Field, Item) \in Nat
           /\ Field.width * Len(Field.items) \in Nat
<1>1. Field.width \in Nat /\ Item \in Nat /\ Len(Field.items) \in Nat
  BY InField
<1> QED BY <1>1, VarintLenType DEF TextLen, ScalarLen

\* Writing a tag keeps the stack.
LEMMA PutTagStep ==
    ASSUME IInv, PutTag
    PROVE  StackOK'
<1>1. Top.phase = "tag" /\ Top.phase # "field" /\ Room(Top, Chunk)
  BY DEF PutTag, Running
<1>2. Chunk \in Nat
  BY <1>1, ChunkType DEF Writing
<1> DEFINE t == Top
           w == Wrote(Top, Chunk)
<1>3. /\ t \in Frame /\ InRange(t) /\ t.phase # "field" /\ Field = Msg[t.msg][t.pos]
      /\ Moved(w, t, Chunk) /\ w.pos = t.pos /\ w.item \in 1 .. Len(Field.items)
      /\ w.phase = "tag"
  BY <1>1, <1>2, InField, WroteMoves
<1>4. Moved(w, t, Chunk) /\ InRange(w)
  <2> HIDE DEF t, w
  <2> QED BY <1>3, PhaseMoves
<1>5. ASSUME NEW ph \in {"count", "len", "body"}, NEW s \in Nat
      PROVE  /\ LET fr == [w EXCEPT !.phase = ph] IN Moved(fr, t, Chunk) /\ InRange(fr)
             /\ LET fr == [w EXCEPT !.phase = ph, !.size = s]
                IN  Moved(fr, t, Chunk) /\ InRange(fr)
  <2>1. ph \in Phases \ {"field"} /\ ph \notin {"measure", "inside"}
    BY DEF Phases
  <2> HIDE DEF t, w
  <2> QED BY <1>3, <2>1, Turns
<1>6. ASSUME NEW fr, Moved(fr, t, Chunk), InRange(fr), Goto(fr) PROVE StackOK'
  BY <1>1, <1>2, <1>6, Moves DEF Goto
<1>7. CASE Goto([w EXCEPT !.phase = "count", !.size = 0])
  BY <1>5, <1>6, <1>7
<1>8. CASE Goto([w EXCEPT !.phase = "len", !.size = Field.width * Len(Field.items)])
  <2> DEFINE s == Field.width * Len(Field.items)
  <2>1. s \in Nat
    BY <1>1, SizeTypes
  <2> HIDE DEF s, w, t
  <2> QED BY <1>5, <1>6, <1>8, <2>1 DEF s
<1>9. CASE Goto([w EXCEPT !.phase = "body"])
  BY <1>5, <1>6, <1>9
<1>10. CASE Goto([w EXCEPT !.phase = "len", !.size = TextLen(Field, Item)])
  <2>1. TextLen(Field, Item) \in Nat
    BY <1>1, SizeTypes
  <2> HIDE DEF w, t
  <2> QED BY <1>5, <1>6, <1>10, <2>1
<1>11. CASE frames' = [frames EXCEPT ![depth] = w] /\ depth' = depth /\ limit' = limit
  BY <1>1, <1>2, <1>4, <1>11, Moves
<1>12. CASE Whole(Field) /\ Goto([w EXCEPT !.phase = "measure"])
  <2>1. LET fr == [w EXCEPT !.phase = "measure"] IN Moved(fr, t, Chunk) /\ InRange(fr)
    <3>1. "measure" \in Phases \ {"field"} /\ Whole(Msg[t.msg][t.pos]) /\ 0 \in Nat
      BY <1>3, <1>12 DEF Phases
    <3> HIDE DEF t, w
    <3> QED BY <1>3, <3>1, Turns
  <2> QED BY <1>6, <1>12, <2>1
<1> QED BY <1>7, <1>8, <1>9, <1>10, <1>11, <1>12 DEF PutTag

\* The sizing pass of a packed array keeps the stack.
LEMMA CountItemStep ==
    ASSUME IInv, CountItem
    PROVE  StackOK'
<1>1. Top.phase = "count" /\ Top.phase # "field"
  BY DEF CountItem, Running
<1> DEFINE t == Top
           s == t.size + ScalarLen(Field, Item)
           i == t.item + 1
           c == [t EXCEPT !.size = t.size + ScalarLen(Field, Item)]
           x == [c EXCEPT !.item = @ + 1]
           y == [c EXCEPT !.item = 1, !.phase = "len"]
<1>2. /\ t \in Frame /\ InRange(t) /\ t.phase # "field" /\ Field = Msg[t.msg][t.pos]
      /\ t.item \in 1 .. Len(Field.items) /\ Len(Field.items) \in Nat
      /\ t.phase = "count"
  BY <1>1, InField
<1>3. s \in Nat /\ i \in Nat
  <2>1. t.size \in Nat /\ t.item \in Nat /\ ScalarLen(Field, Item) \in Nat
    BY <1>1, <1>2, InField, SizeTypes DEF Frame
  <2> HIDE DEF t
  <2> QED BY <2>1
<1>4. CountItem => IF t.item < Len(Field.items) THEN Goto(x) ELSE Goto(y)
  BY DEF CountItem
<1>5. x = [t EXCEPT !.size = s, !.item = i] /\ y = [t EXCEPT !.size = s, !.item = 1, !.phase = "len"]
  BY <1>2 DEF Frame
<1> HIDE DEF x, y, s, i
<1>6. /\ x \in Frame /\ x.phase = "count" /\ x.pos = t.pos /\ x.item = i
      /\ x.msg = t.msg /\ x.sizing = t.sizing /\ x.max = t.max
      /\ x.written = t.written /\ x.state = t.state
  BY <1>2, <1>3, <1>5 DEF Frame
<1>7. "len" \in Phases /\ 1 \in Nat
  BY DEF Phases
<1>8. /\ y \in Frame /\ y.phase = "len" /\ y.pos = t.pos /\ y.item = 1
      /\ y.msg = t.msg /\ y.sizing = t.sizing /\ y.max = t.max
      /\ y.written = t.written /\ y.state = t.state
  BY <1>2, <1>3, <1>5, <1>7 DEF Frame
<1>9. Moved(x, t, 0) /\ Moved(y, t, 0)
  BY <1>2, <1>6, <1>8 DEF Moved, Frame
<1>10. InRange(y)
  <2>1. y.item \in 1 .. Len(Field.items)
    BY <1>2, <1>8
  <2> HIDE DEF t
  <2> QED BY <1>2, <1>8, <1>9, <2>1, PhaseMoves
<1>11. t.item < Len(Field.items) => InRange(x)
  <2> SUFFICES ASSUME t.item < Len(Field.items) PROVE InRange(x)
    OBVIOUS
  <2> HIDE DEF t
  <2>2. x.item = t.item + 1
    BY <1>6 DEF i
  <2>1. x.item \in 1 .. Len(Field.items)
    BY <1>2, <2>2
  <2> QED BY <1>2, <1>6, <1>9, <2>1, PhaseMoves
<1>12. ASSUME NEW fr, Moved(fr, t, 0), InRange(fr), Goto(fr) PROVE StackOK'
  BY <1>12, Idles, Moves DEF Goto
<1> QED BY <1>4, <1>9, <1>10, <1>11, <1>12

\* Writing a value keeps the stack.
LEMMA PutBodyStep ==
    ASSUME IInv, PutBody
    PROVE  StackOK'
<1>1. Top.phase = "body" /\ Top.phase # "field" /\ Room(Top, Chunk)
  BY DEF PutBody, Running
<1>2. Chunk \in Nat
  BY <1>1, ChunkType DEF Writing
<1> DEFINE t == Top
           w == Wrote(Top, Chunk)
<1>3. /\ t \in Frame /\ InRange(t) /\ t.phase # "field" /\ Field = Msg[t.msg][t.pos]
      /\ Moved(w, t, Chunk) /\ w.pos = t.pos /\ w.item = t.item
      /\ w.pos >= 1
  BY <1>1, <1>2, InField, WroteMoves DEF InRange
<1>4. ASSUME NEW fr, Moved(fr, t, Chunk), InRange(fr), Goto(fr) PROVE StackOK'
  BY <1>1, <1>2, <1>4, Moves DEF Goto
<1>5. Moved(NextField(w), t, Chunk) /\ InRange(NextField(w))
  <2> HIDE DEF t, w
  <2> QED BY <1>3, NextFieldMoves
<1>6. Moved(NextItem(w), t, Chunk) /\ InRange(NextItem(w))
  <2> DEFINE ph == IF Packed(Field) THEN "body" ELSE "tag"
  <2>1. ph \in {"tag", "body"}
    OBVIOUS
  <2>2. CASE w.item < Len(Field.items)
    <3>1. NextItem(w) = [w EXCEPT !.item = @ + 1, !.phase = ph]
      BY <2>2 DEF NextItem
    <3>2. w.item < Len(Msg[t.msg][t.pos].items)
      BY <1>3, <2>2
    <3> DEFINE x == [w EXCEPT !.item = @ + 1, !.phase = ph]
    <3> HIDE DEF t, w, ph
    <3>3. Moved(x, t, Chunk) /\ InRange(x)
      BY <1>3, <2>1, <3>2, NextItemMoves
    <3> QED BY <3>1, <3>3
  <2>3. CASE ~ (w.item < Len(Field.items))
    BY <1>5, <2>3 DEF NextItem
  <2> QED BY <2>2, <2>3
<1>7. Goto(NextField(w)) \/ Goto(NextItem(w))
  BY DEF PutBody
<1> QED BY <1>4, <1>5, <1>6, <1>7

\* A nested call starts at its first field.
LEMMA StartsCounting ==
    ASSUME NEW m \in Messages
    PROVE  LET c == Counting(m)
           IN  c \in Frame /\ InRange(c) /\ c.sizing /\ c.written = 0 /\ c.max = 0
<1> DEFINE c == Counting(m)
<1>1. c = [msg |-> m, sizing |-> TRUE, written |-> 0, max |-> 0, state |-> 0,
           pos |-> 1, item |-> 1, phase |-> "field", size |-> 0, mark |-> 0]
  BY DEF Counting, NewFrame
<1> HIDE DEF c
<1>2. c \in Frame
  BY <1>1 DEF Frame, Phases
<1>3. InRange(c)
  BY <1>1 DEF InRange
<1>4. c.sizing /\ c.written = 0 /\ c.max = 0
  BY <1>1
<1> QED BY <1>2, <1>3, <1>4 DEF c

\* A writing stream begins empty where it is put.
LEMMA StartsWriting ==
    ASSUME NEW m \in Messages, NEW max \in Nat, NEW state \in Nat
    PROVE  LET c == Writer(m, max, state)
           IN  /\ c \in Frame /\ InRange(c) /\ c.written = 0 /\ ~ c.sizing
               /\ c.max = max /\ c.state = state
<1> DEFINE c == Writer(m, max, state)
<1>1. c = [msg |-> m, sizing |-> FALSE, written |-> 0, max |-> max, state |-> state,
           pos |-> 1, item |-> 1, phase |-> "field", size |-> 0, mark |-> 0]
  BY DEF Writer, NewFrame
<1> HIDE DEF c
<1>2. c \in Frame
  BY <1>1 DEF Frame, Phases
<1>3. InRange(c)
  BY <1>1 DEF InRange
<1>4. c.written = 0 /\ ~ c.sizing /\ c.max = max /\ c.state = state
  BY <1>1
<1> QED BY <1>2, <1>3, <1>4 DEF c

\* Measuring a submessage nests a stream that only counts.
LEMMA MeasureStep ==
    ASSUME IInv, Measure
    PROVE  StackOK'
<1> DEFINE c == Counting(Item)
<1>1. /\ Top.phase = "measure" /\ depth < MaxDepth /\ depth' = depth + 1 /\ limit' = limit
      /\ frames' = [frames EXCEPT ![depth] = Top, ![depth + 1] = c]
  BY DEF Measure, Running, Push
<1>2. Item \in Messages
  BY <1>1, InField DEF InRange
<1>3. c \in Frame /\ InRange(c) /\ c.sizing
  BY <1>2, StartsCounting
<1> HIDE DEF c
<1>4. Bounded(c, limit)
  BY <1>3 DEF Bounded
<1>5. Advances(Top, Top)
  BY TopType DEF Advances
<1>6. Link(Top, c)
  BY <1>1, <1>3 DEF Link
<1> QED BY <1>1, <1>3, <1>4, <1>5, <1>6, Nest DEF StackOK

\* Writing a length keeps the stack; a substream nested behind it fits its parent.
LEMMA PutLengthStep ==
    ASSUME IInv, PutLength
    PROVE  StackOK'
<1>1. Top.phase = "len" /\ Top.phase # "field" /\ Room(Top, Chunk)
  BY DEF PutLength, Running
<1>2. Chunk \in Nat
  BY <1>1, ChunkType DEF Writing
<1> DEFINE t == Top
           w == Wrote(Top, Chunk)
           k == w.state
           fr == [w EXCEPT !.mark = k]
<1>3. /\ t \in Frame /\ InRange(t) /\ t.phase = "len" /\ Field = Msg[t.msg][t.pos]
      /\ Moved(w, t, Chunk) /\ w.pos = t.pos /\ w.item = t.item
      /\ w.phase = "len" /\ w.size = t.size /\ t.item \in 1 .. Len(Field.items)
      /\ w \in Frame /\ w.state \in Nat /\ t.size \in Nat
  <2>1. /\ t \in Frame /\ InRange(t) /\ t.phase = "len" /\ Field = Msg[t.msg][t.pos]
        /\ t.item \in 1 .. Len(Field.items) /\ t.size \in Nat
    BY <1>1, InField
  <2>2. /\ Moved(w, t, Chunk) /\ w.pos = t.pos /\ w.item = t.item
        /\ w.phase = t.phase /\ w.size = t.size
    BY <1>2, <2>1, WroteMoves
  <2> HIDE DEF t, w
  <2>3. w \in Frame
    BY <2>2 DEF Moved
  <2>4. w.state \in Nat
    BY <2>3 DEF Frame
  <2> QED BY <2>1, <2>2, <2>3, <2>4
<1> HIDE DEF w
<1>4. /\ fr \in Frame /\ fr.phase = "len" /\ fr.pos = t.pos /\ fr.item = t.item
      /\ fr.msg = w.msg /\ fr.sizing = w.sizing /\ fr.max = w.max
      /\ fr.written = w.written /\ fr.state = w.state /\ fr.size = t.size
  BY <1>3 DEF Frame
<1> HIDE DEF fr
<1>5. Moved(fr, t, Chunk)
  BY <1>3, <1>4 DEF Moved
<1>6. InRange(fr)
  <2> HIDE DEF t
  <2> QED BY <1>3, <1>4, <1>5, PhaseMoves
<1>7. ASSUME NEW x, Moved(x, t, Chunk), InRange(x) PROVE Advances(x, frames[depth])
  BY <1>1, <1>2, <1>7, MovedAdvances
<1>8. ASSUME NEW x, Moved(x, t, Chunk), InRange(x),
             frames' = [frames EXCEPT ![depth] = x], depth' = depth, limit' = limit
      PROVE StackOK'
  BY <1>1, <1>2, <1>8, Moves
<1>9. ASSUME NEW ph \in {"body", "inside"}, ph = "inside" => Whole(Field)
      PROVE  LET x == [fr EXCEPT !.phase = ph] IN Moved(x, t, Chunk) /\ InRange(x)
  <2>1. /\ ph \in Phases \ {"field"} /\ t.phase # "field" /\ 0 \in Nat
        /\ fr.item \in 1 .. Len(Field.items)
        /\ (ph \in {"measure", "inside"} => Whole(Field))
    BY <1>3, <1>4, <1>9 DEF Phases
  <2> HIDE DEF t
  <2> QED BY <1>3, <1>4, <1>5, <2>1, Turns
<1>10. CASE Goto([fr EXCEPT !.phase = "body"])
  BY <1>8, <1>9, <1>10 DEF Goto
<1>11. CASE frames' = [frames EXCEPT ![depth] = fr] /\ depth' = depth /\ limit' = limit
  BY <1>5, <1>6, <1>8, <1>11
<1>12. CASE /\ Whole(Field) /\ ~ Top.sizing /\ Room(fr, fr.size)
            /\ Push(Writer(Item, fr.size, fr.state), [fr EXCEPT !.phase = "inside"])
  <2> DEFINE p == [fr EXCEPT !.phase = "inside"]
             c == Writer(Item, fr.size, fr.state)
  <2>1. Moved(p, t, Chunk) /\ InRange(p)
    BY <1>9, <1>12
  <2>2. /\ p.phase = "inside" /\ p.size = fr.size /\ p.written = fr.written
        /\ p.max = fr.max /\ p.state = fr.state /\ p.sizing = fr.sizing /\ p \in Frame
    BY <1>4, <2>1 DEF Frame, Moved
  <2>3. Item \in Messages
    BY <1>1, <1>12, InField
  <2>4. /\ fr.size \in Nat /\ fr.state \in Nat /\ fr.written \in Nat /\ fr.max \in Nat
        /\ limit \in Nat
    BY <1>4 DEF Frame, IInv, TypeOK
  <2>5. /\ c \in Frame /\ InRange(c) /\ c.written = 0 /\ ~ c.sizing
        /\ c.max = fr.size /\ c.state = fr.state
    <3>1. fr.size \in Nat /\ fr.state \in Nat
      BY <2>4
    <3> QED BY <2>3, <3>1, StartsWriting
  <2>6. ~ fr.sizing
    BY <1>3, <1>4, <1>12 DEF Moved
  <2>7. fr.written + fr.size <= fr.max
    BY <1>12, <2>6 DEF Room
  <2>8. Advances(p, frames[depth])
    BY <1>7, <2>1
  <2>9. /\ depth < MaxDepth /\ depth' = depth + 1 /\ limit' = limit
        /\ frames' = [frames EXCEPT ![depth] = p, ![depth + 1] = c]
    BY <1>12 DEF Push
  <2> HIDE DEF p, c, t
  <2>10. Link(p, c)
    BY <2>2, <2>4, <2>5, <2>6, <2>7 DEF Link
  <2>11. p.state + (p.max - p.written) <= limit
    BY <2>2, <2>6, <2>8 DEF Advances, Bounded
  <2>12. c.state + (c.max - c.written) <= limit /\ c.written <= c.max
    BY <2>2, <2>4, <2>5, <2>7, <2>11
  <2>13. Bounded(c, limit)
    BY <2>12 DEF Bounded
  <2> QED BY <2>5, <2>8, <2>9, <2>10, <2>13, Nest DEF StackOK, Top
<1>13. fr = [Wrote(Top, Chunk) EXCEPT !.mark = Wrote(Top, Chunk).state]
  BY DEF fr, w
<1> QED BY <1>10, <1>11, <1>12, <1>13 DEF PutLength

\* The caller of a nested pb_encode, when it returns.
LEMMA ParentType ==
    ASSUME IInv, depth > 1
    PROVE  /\ depth - 1 \in 1 .. depth /\ Parent = frames[depth - 1]
           /\ Parent \in Frame /\ InRange(Parent) /\ Bounded(Parent, limit)
           /\ Link(Parent, Top)
           /\ Top \in Frame /\ Bounded(Top, limit) /\ limit \in Nat
<1>1. /\ frames \in [1 .. MaxDepth -> Frame] /\ depth \in 1 .. MaxDepth
      /\ MaxDepth \in Nat /\ limit \in Nat
  BY MessageAssumption DEF IInv, TypeOK
<1>2. depth - 1 \in 1 .. depth /\ depth - 1 \in 1 .. MaxDepth /\ (depth - 1) + 1 = depth
  BY <1>1
<1>3. Link(frames[depth - 1], frames[(depth - 1) + 1])
  <2>1. depth - 1 \in 1 .. depth - 1
    BY <1>1
  <2> QED BY <2>1 DEF IInv, Stack
<1> QED BY <1>1, <1>2, <1>3, TopType DEF IInv, Stack, Parent, Top

\* The return of a measuring pass keeps the stack.
LEMMA MeasuredStep ==
    ASSUME IInv, Measured
    PROVE  StackOK'
<1>1. depth > 1 /\ Parent.phase = "measure"
  BY DEF Measured, Returning
<1> DEFINE p == Parent
           n == Top.written
           fr == [p EXCEPT !.size = n, !.phase = "len"]
<1>2. /\ p \in Frame /\ InRange(p) /\ Bounded(p, limit) /\ p.phase = "measure"
      /\ n \in Nat /\ p = frames[depth - 1] /\ depth - 1 \in 1 .. depth
  BY <1>1, ParentType DEF Frame
<1>3. \/ frames' = [frames EXCEPT ![depth - 1] = fr]
      \/ frames' = [frames EXCEPT ![depth - 1] = p]
  BY DEF Measured, Pop
<1>4. depth' = depth - 1 /\ limit' = limit
  BY DEF Measured, Pop
<1> HIDE DEF n, p
<1>5. /\ fr \in Frame /\ fr.phase = "len" /\ fr.pos = p.pos /\ fr.item = p.item
      /\ fr.msg = p.msg /\ fr.sizing = p.sizing /\ fr.max = p.max
      /\ fr.written = p.written /\ fr.state = p.state
  <2>1. "len" \in Phases
    BY DEF Phases
  <2> QED BY <1>2, <2>1 DEF Frame
<1> HIDE DEF fr
<1>6. Advances(p, p)
  BY <1>2 DEF Advances
<1>7. Advances(fr, p)
  <2>1. InRange(fr)
    BY <1>2, <1>5 DEF InRange
  <2>2. Bounded(fr, limit)
    BY <1>2, <1>5 DEF Bounded
  <2> QED BY <1>5, <2>1, <2>2 DEF Advances
<1> QED BY <1>2, <1>3, <1>4, <1>6, <1>7, Replace DEF StackOK

\* The return of a submessage, whatever it wrote, keeps the stack.
LEMMA EncodedStep ==
    ASSUME IInv, Encoded
    PROVE  StackOK'
<1>1. depth > 1 /\ Parent.phase = "inside"
  BY DEF Encoded, Returning
<1> DEFINE p == Parent
           c == Top
           n == c.written
           a == c.state
           fr == [p EXCEPT !.written = p.written + n, !.state = a]
           f == Msg[fr.msg][fr.pos]
           x == [fr EXCEPT !.item = @ + 1, !.phase = "tag"]
<1>2. /\ p \in Frame /\ InRange(p) /\ Bounded(p, limit) /\ p.phase = "inside"
      /\ Link(p, c) /\ c \in Frame /\ Bounded(c, limit)
      /\ p = frames[depth - 1] /\ depth - 1 \in 1 .. depth /\ limit \in Nat
  BY <1>1, ParentType
<1>3. \/ frames' = [frames EXCEPT ![depth - 1] = fr]
      \/ frames' = [frames EXCEPT ![depth - 1] = NextField(fr)]
      \/ /\ fr.item < Len(f.items)
         /\ frames' = [frames EXCEPT ![depth - 1] = x]
  BY DEF Encoded, Pop
<1>4. depth' = depth - 1 /\ limit' = limit
  BY DEF Encoded, Pop
<1> HIDE DEF p, c
<1>5. /\ n \in Nat /\ a \in Nat /\ p.written \in Nat /\ p.state \in Nat
      /\ p.max \in Nat /\ c.max \in Nat /\ p.size \in Nat
  BY <1>2 DEF Frame
<1>6. /\ ~ p.sizing /\ c.max = p.size /\ p.written + p.size <= p.max
      /\ a = p.state + n /\ n <= c.max
      /\ p.state + (p.max - p.written) <= limit
  BY <1>2, <1>5 DEF Link, Bounded
<1>7. /\ fr \in Frame /\ fr.written = p.written + n /\ fr.state = p.state + n
      /\ fr.msg = p.msg /\ fr.sizing = p.sizing /\ fr.max = p.max
      /\ fr.pos = p.pos /\ fr.item = p.item /\ fr.phase = p.phase
  <2> DEFINE u == p.written + n
  <2>1. u \in Nat /\ fr = [p EXCEPT !.written = u, !.state = a]
    BY <1>5
  <2> HIDE DEF n, a, u, fr
  <2>2. /\ fr \in Frame /\ fr.written = u /\ fr.state = a
        /\ fr.msg = p.msg /\ fr.sizing = p.sizing /\ fr.max = p.max
        /\ fr.pos = p.pos /\ fr.item = p.item /\ fr.phase = p.phase
    BY <1>2, <1>5, <2>1 DEF Frame
  <2> QED BY <1>6, <2>2 DEF u
<1> HIDE DEF n, a, fr
<1>8. Moved(fr, p, n)
  BY <1>6, <1>7 DEF Moved
<1>9. ASSUME NEW y, Moved(y, p, n), InRange(y) PROVE Advances(y, p)
  <2>1. /\ y \in Frame /\ y.sizing = p.sizing /\ y.max = p.max
        /\ y.written = p.written + n /\ y.state = p.state + n
    BY <1>6, <1>9 DEF Moved
  <2>2. y.written <= y.max /\ y.state + (y.max - y.written) <= limit
    BY <1>2, <1>5, <1>6, <2>1
  <2>3. Bounded(y, limit)
    BY <2>2 DEF Bounded
  <2>4. y.state - y.written = p.state - p.written
    BY <1>5, <2>1
  <2> QED BY <1>9, <2>1, <2>3, <2>4 DEF Advances
<1>10. InRange(fr)
  BY <1>2, <1>7 DEF InRange
<1>11. Moved(NextField(fr), p, n) /\ InRange(NextField(fr))
  BY <1>8, <1>10, NextFieldMoves DEF InRange
<1>12. fr.item < Len(f.items) => Moved(x, p, n) /\ InRange(x)
  BY <1>2, <1>7, <1>8, NextItemMoves
<1>13. ASSUME NEW y, Moved(y, p, n), InRange(y),
              frames' = [frames EXCEPT ![depth - 1] = y]
       PROVE  StackOK'
  BY <1>2, <1>4, <1>9, <1>13, Replace DEF StackOK
<1> HIDE DEF x, f
<1> QED BY <1>3, <1>8, <1>10, <1>11, <1>12, <1>13

\* A call of the outermost pb_encode sets up a stack of one stream.
LEMMA EntrySteps ==
    ASSUME IInv,
           NEW fr \in Frame, InRange(fr), ~ fr.sizing => fr.written = 0 /\ fr.state = 0,
           frames' = [d \in 1 .. MaxDepth |-> fr], depth' = 1, limit' = fr.max
    PROVE  StackOK'
<1>1. 1 \in 1 .. MaxDepth /\ fr.max \in Nat
  BY MessageAssumption DEF Frame
<1>2. Bounded(fr, fr.max)
  BY <1>1 DEF Bounded
<1>3. \A d \in 1 .. 1 : frames'[d] = fr
  BY <1>1
<1>4. \A d \in 1 .. depth' - 1 : FALSE
  OBVIOUS
<1> QED BY <1>1, <1>2, <1>3, <1>4 DEF StackOK, Stack

\* The caller's calls and the end of one keep the stack.
LEMMA FreshSteps ==
    ASSUME IInv, Fresh \/ EncodeMeasured \/ Finished
    PROVE  StackOK'
<1>1. ASSUME NEW m \in Messages, frames' = [d \in 1 .. MaxDepth |-> Counting(m)],
             depth' = 1, limit' = 0
      PROVE  StackOK'
  <2> DEFINE c == Counting(m)
  <2>1. c \in Frame /\ InRange(c) /\ c.sizing /\ c.max = 0
    BY StartsCounting
  <2>2. frames' = [d \in 1 .. MaxDepth |-> c] /\ limit' = c.max
    BY <1>1, <2>1
  <2> HIDE DEF c
  <2> QED BY <1>1, <2>1, <2>2, EntrySteps
<1>2. ASSUME NEW m \in Messages, NEW n \in Nat,
             frames' = [d \in 1 .. MaxDepth |-> Writer(m, n, 0)], depth' = 1,
             limit' = Writer(m, n, 0).max
      PROVE  StackOK'
  <2> DEFINE c == Writer(m, n, 0)
  <2>1. c \in Frame /\ InRange(c) /\ c.written = 0 /\ c.state = 0
    BY StartsWriting
  <2>2. frames' = [d \in 1 .. MaxDepth |-> c] /\ limit' = c.max
    BY <1>2
  <2> HIDE DEF c
  <2> QED BY <1>2, <2>1, <2>2, EntrySteps
<1>3. ASSUME NEW m \in Roots, GetSize(m) PROVE StackOK'
  <2>1. Counting(m).max = 0 /\ m \in Messages
    BY StartsCounting, MessageAssumption
  <2> QED BY <1>1, <1>3, <2>1 DEF GetSize, Start
<1>4. ASSUME NEW m \in Roots, NEW n \in BufSizes, NEW c, Encode(m, c, n) PROVE StackOK'
  <2>1. m \in Messages /\ n \in Nat
    BY MessageAssumption
  <2> QED BY <1>2, <1>4, <2>1 DEF Encode, Start
<1>5. CASE EncodeMeasured
  <2>1. root \in Messages /\ sized \in Nat
    BY DEF IInv, TypeOK
  <2> QED BY <1>2, <1>5, <2>1 DEF EncodeMeasured, Start
<1>6. CASE Finished
  <2>1. root \in Messages
    BY DEF IInv, TypeOK
  <2>2. depth = 1 /\ depth' = depth
    BY <1>6 DEF Finished, Over
  <2>3. frames' = [d \in 1 .. MaxDepth |-> Counting(root)] /\ limit' = 0
    BY <1>6 DEF Finished
  <2> QED BY <1>1, <2>1, <2>2, <2>3
<1> QED BY <1>3, <1>4, <1>5, <1>6 DEF Fresh

\* The zero of pb_encode_nullterminated keeps the stack.
LEMMA TerminateStep ==
    ASSUME IInv, Terminate
    PROVE  StackOK'
<1>1. depth = 1 /\ depth' = depth /\ limit' = limit
  BY DEF Terminate, Over
<1>2. CASE UNCHANGED frames
  BY <1>1, <1>2, Stays
<1>3. CASE Room(Top, 1) /\ frames' = [frames EXCEPT ![1] = Wrote(Top, 1)]
  <2>1. /\ Moved(Wrote(Top, 1), Top, 1) /\ Wrote(Top, 1).pos = Top.pos
        /\ Wrote(Top, 1).item = Top.item /\ Wrote(Top, 1).phase = Top.phase
    BY TopType, WroteMoves
  <2>2. InRange(Wrote(Top, 1))
    BY <2>1, TopType DEF InRange, Moved
  <2> QED BY <1>1, <1>3, <2>1, <2>2, Moves
<1> QED BY <1>2, <1>3 DEF Terminate

-----------------------------------------------------------------------------
(* The invariant. *)

\* The inductive invariant holds before the first call.
LEMMA InvInit == Init => IInv
<1> SUFFICES ASSUME Init PROVE IInv
  OBVIOUS
<1>1. root \in Messages /\ 1 \in 1 .. MaxDepth /\ MaxDepth \in Nat
  BY MessageAssumption DEF Init
<1> DEFINE c == Counting(root)
<1>2. c \in Frame /\ InRange(c) /\ c.sizing
  BY <1>1, StartsCounting
<1>3. frames = [d \in 1 .. MaxDepth |-> c] /\ depth = 1 /\ limit = 0
  BY DEF Init, Counting
<1> HIDE DEF c
<1>4. frames \in [1 .. MaxDepth -> Frame] /\ frames[1] = c
  BY <1>1, <1>2, <1>3
<1>5. Bounded(c, limit)
  BY <1>2 DEF Bounded
<1>6. Stack
  BY <1>2, <1>3, <1>4, <1>5 DEF Stack
<1>7. /\ ret \in {"none", "ok", "fail"} /\ call \in Calls /\ sized \in Nat
      /\ first \in {"none", "ok", "fail"} /\ limit \in Nat
      /\ whole \in SUBSET [prefix : Nat, body : Int] /\ wild \in BOOLEAN
  BY DEF Init, Calls
<1> QED BY <1>1, <1>3, <1>4, <1>6, <1>7 DEF IInv, TypeOK

\* Every step keeps the stack of streams.
LEMMA StackNext == IInv /\ [Next]_vars => StackOK'
<1> SUFFICES ASSUME IInv, [Next]_vars PROVE StackOK'
  OBVIOUS
<1>1. CASE Fresh
  BY <1>1, FreshSteps
<1>2. CASE Walk
  BY <1>2, ReturnSteps, SkipFieldStep, BeginFieldStep, CallbackStep, PutTagStep,
     CountItemStep, PutLengthStep, PutBodyStep, MeasureStep, MeasuredStep, EncodedStep,
     FreshSteps, TerminateStep DEF Walk
<1>3. CASE UNCHANGED vars
  BY <1>3, Stays DEF vars
<1> QED BY <1>1, <1>2, <1>3 DEF Next

\* The lengths put so far are numbers.
LEMMA CompleteType ==
    ASSUME TypeOK, NEW fr \in Frame
    PROVE  Complete(fr) \in SUBSET [prefix : Nat, body : Int]
<1>1. fr.size \in Nat /\ fr.state - fr.mark \in Int
  BY DEF Frame
<1> QED BY <1>1 DEF Complete, TypeOK

RestOK ==
    /\ ret \in {"none", "ok", "fail"} /\ call \in Calls /\ root \in Messages
    /\ sized \in Nat /\ first \in {"none", "ok", "fail"} /\ limit \in Nat
    /\ wild \in BOOLEAN

\* A call resets the results of the last one.
LEMMA StartType ==
    ASSUME IInv, Fresh \/ EncodeMeasured
    PROVE  RestOK' /\ whole' = {}
<1> USE DEF RestOK
<1>1. /\ ret \in {"none", "ok", "fail"} /\ root \in Messages /\ wild \in BOOLEAN
      /\ sized \in Nat /\ first \in {"none", "ok", "fail"}
  BY DEF IInv, TypeOK
<1>2. ASSUME NEW m \in Roots, GetSize(m) PROVE RestOK' /\ whole' = {}
  <2>1. m \in Messages /\ Counting(m).max = 0
    BY MessageAssumption, StartsCounting
  <2>2. /\ ret' = "none" /\ call' = "measure" /\ root' = m /\ whole' = {}
        /\ sized' = sized /\ first' = first /\ limit' = Counting(m).max
    BY <1>2 DEF GetSize, Start
  <2>3. wild' \in BOOLEAN
    BY <1>2 DEF GetSize
  <2>4. limit' = 0
    BY <2>1, <2>2
  <2> QED BY <1>1, <2>1, <2>2, <2>3, <2>4 DEF Calls
<1>3. ASSUME NEW m \in Roots, NEW n \in BufSizes, NEW c \in {"encode", "terminate"},
             Encode(m, c, n)
      PROVE  RestOK' /\ whole' = {}
  <2>1. m \in Messages /\ n \in Nat /\ 0 \in Nat
    BY MessageAssumption
  <2>2. Writer(m, n, 0).max = n
    BY <2>1, StartsWriting
  <2> QED BY <1>1, <1>3, <2>1, <2>2 DEF Encode, Start, Calls
<1>4. CASE EncodeMeasured
  <2>1. Writer(root, sized, 0).max = sized
    BY <1>1, StartsWriting
  <2> QED BY <1>1, <1>4, <2>1 DEF EncodeMeasured, Start, Calls
<1> QED BY <1>2, <1>3, <1>4 DEF Fresh

\* Every step keeps the types of what is not the stack.
LEMMA RestNext == IInv /\ [Next]_vars => RestOK'
<1> SUFFICES ASSUME IInv, [Next]_vars PROVE RestOK'
  OBVIOUS
<1>1. RestOK /\ Top \in Frame
  BY TopType DEF IInv, TypeOK, RestOK
<1> USE DEF RestOK
<1>2. CASE Fresh \/ EncodeMeasured
  BY <1>2, StartType
<1>3. CASE EndOfMessage \/ SkipField \/ MissingRequired \/ ArrayTooLong \/ BeginField
           \/ CallbackFails \/ StreamFull
  BY <1>1, <1>3 DEF EndOfMessage, SkipField, MissingRequired, ArrayTooLong, BeginField,
         CallbackFails, StreamFull, Return, Goto
<1>4. CASE Callback
  <2>1. PICK n \in Field.writes :
           /\ wild' = (wild \/ Field.writes # {n})
           /\ \/ Goto(NextField(Wrote(Top, n)))
              \/ Return("fail")
    BY <1>4 DEF Callback
  <2>2. wild' \in BOOLEAN
    BY <2>1
  <2> QED BY <1>1, <2>1, <2>2 DEF Goto, Return
<1>5. CASE PutTag
  BY <1>1, <1>5 DEF PutTag, Goto
<1>6. CASE PutLength
  BY <1>1, <1>6 DEF PutLength, Goto, Push
<1>7. CASE CountItem \/ PutBody \/ Measure
  BY <1>1, <1>7 DEF CountItem, PutBody, Measure, Goto, Push
<1>8. CASE Measured \/ Encoded
  BY <1>1, <1>8 DEF Measured, Encoded, Pop
<1>9. CASE SizeKnown
  <2>1. Top.written \in Nat
    BY <1>1 DEF Frame
  <2> QED BY <1>1, <1>9, <2>1 DEF SizeKnown, Calls
<1>10. CASE Terminate
  BY <1>1, <1>10 DEF Terminate, Calls
<1>12. CASE Finished
  <2>1. /\ ret' = "none" /\ call' = "idle" /\ root' = root /\ sized' = 0
        /\ first' = "none" /\ limit' = 0
    BY <1>12 DEF Finished
  <2>2. wild' \in BOOLEAN
    BY <1>12 DEF Finished
  <2> QED BY <1>1, <2>1, <2>2 DEF Calls
<1>11. CASE UNCHANGED vars
  BY <1>1, <1>11 DEF vars
<1> QED BY <1>2, <1>3, <1>4, <1>5, <1>6, <1>7, <1>8, <1>9, <1>10, <1>11, <1>12
       DEF Next, Walk

\* The observer of length prefixes keeps its type.
LEMMA WholeNext ==
    IInv /\ [Next]_vars => whole' \in SUBSET [prefix : Nat, body : Int]
<1> SUFFICES ASSUME IInv, [Next]_vars PROVE whole' \in SUBSET [prefix : Nat, body : Int]
  OBVIOUS
<1>1. TypeOK /\ whole \in SUBSET [prefix : Nat, body : Int]
  BY DEF IInv, TypeOK
<1>2. CASE Fresh \/ EncodeMeasured
  BY <1>2, StartType
<1>3. CASE PutBody
  <2>1. Chunk \in Nat /\ Top \in Frame
    BY <1>3, ChunkType, TopType DEF PutBody, Running, Writing
  <2>2. Wrote(Top, Chunk) \in Frame
    BY <2>1, WroteMoves DEF Moved
  <2>3. whole' = whole \/ whole' = Complete(Wrote(Top, Chunk))
    BY <1>3 DEF PutBody
  <2> QED BY <1>1, <2>2, <2>3, CompleteType
<1>4. CASE Encoded
  <2> DEFINE p == Parent
             c == Top
             u == p.written + c.written
             a == c.state
             fr == [p EXCEPT !.written = p.written + c.written, !.state = c.state]
  <2>1. p \in Frame /\ c \in Frame
    BY <1>4, ParentType DEF Encoded, Returning
  <2>2. whole' = whole \/ whole' = Complete(fr)
    BY <1>4 DEF Encoded
  <2> HIDE DEF p, c
  <2>3. u \in Nat /\ a \in Nat /\ fr = [p EXCEPT !.written = u, !.state = a]
    BY <2>1 DEF Frame
  <2> HIDE DEF u, a, fr
  <2>4. fr \in Frame
    BY <2>1, <2>3 DEF Frame
  <2> QED BY <1>1, <2>2, <2>4, CompleteType
<1>5. CASE EndOfMessage \/ SkipField \/ MissingRequired \/ ArrayTooLong \/ BeginField
           \/ CallbackFails \/ StreamFull \/ Callback
  BY <1>1, <1>5 DEF EndOfMessage, SkipField, MissingRequired, ArrayTooLong, BeginField,
         CallbackFails, StreamFull, Callback, Return, Goto
<1>6. CASE PutTag
  BY <1>1, <1>6 DEF PutTag
<1>7. CASE PutLength
  BY <1>1, <1>7 DEF PutLength, Push
<1>8. CASE CountItem \/ Measure \/ Measured
  BY <1>1, <1>8 DEF CountItem, Measure, Measured, Push
<1>9. CASE SizeKnown \/ Terminate \/ Finished
  BY <1>1, <1>9 DEF SizeKnown, Terminate, Finished
<1>10. CASE UNCHANGED vars
  BY <1>1, <1>10 DEF vars
<1> QED BY <1>2, <1>3, <1>4, <1>5, <1>6, <1>7, <1>8, <1>9, <1>10 DEF Next, Walk

\* The inductive invariant holds in every state.
LEMMA Invariance == Spec => []IInv
<1>1. IInv /\ [Next]_vars => IInv'
  <2> SUFFICES ASSUME IInv, [Next]_vars PROVE IInv'
    OBVIOUS
  <2> QED BY StackNext, RestNext, WholeNext DEF IInv, TypeOK, StackOK, RestOK
<1> QED BY InvInit, <1>1, PTL DEF Spec

\* The states of the encoder have their types.
THEOREM TypeCorrect == Spec => []TypeOK
<1>1. IInv => TypeOK
  BY DEF IInv
<1> QED BY <1>1, Invariance, PTL

\* A substream never has more room than its parent has left.
THEOREM SubstreamsFit == Spec => []StreamsNested
<1>1. IInv => StreamsNested
  <2> SUFFICES ASSUME IInv, NEW d \in 1 .. depth, ~ frames[d].sizing
               PROVE  /\ frames[d].written <= frames[d].max
                      /\ d < depth /\ frames[d].phase = "inside" =>
                            /\ ~ frames[d + 1].sizing
                            /\ frames[d + 1].max <= frames[d].max - frames[d].written
    BY DEF StreamsNested
  <2>1. /\ frames \in [1 .. MaxDepth -> Frame] /\ depth \in 1 .. MaxDepth
        /\ MaxDepth \in Nat /\ Bounded(frames[d], limit)
    BY MessageAssumption DEF IInv, TypeOK, Stack
  <2>2. frames[d].written <= frames[d].max
    BY <2>1 DEF Bounded
  <2>3. ASSUME d < depth, frames[d].phase = "inside"
        PROVE  /\ ~ frames[d + 1].sizing
               /\ frames[d + 1].max <= frames[d].max - frames[d].written
    <3> DEFINE p == frames[d]
               c == frames[d + 1]
    <3>1. Link(p, c) /\ p.phase = "inside" /\ p \in Frame
      <4>1. d \in 1 .. depth - 1 /\ d \in 1 .. MaxDepth
        BY <2>1, <2>3
      <4> QED BY <2>1, <2>3, <4>1 DEF IInv, Stack
    <3> HIDE DEF p, c
    <3>2. ~ c.sizing /\ c.max = p.size /\ p.written + p.size <= p.max
      BY <3>1 DEF Link
    <3>3. p.written \in Nat /\ p.size \in Nat /\ p.max \in Nat
      BY <3>1 DEF Frame
    <3>4. ~ c.sizing /\ c.max <= p.max - p.written
      BY <3>2, <3>3
    <3> QED BY <3>4 DEF p, c
  <2> QED BY <2>2, <2>3
<1> QED BY <1>1, Invariance, PTL

\* No byte is put past the end of the caller's buffer.
THEOREM StaysInBuffer == Spec => []InBuffer
<1>1. IInv => InBuffer
  <2> SUFFICES ASSUME IInv, NEW d \in 1 .. depth, ~ frames[d].sizing
               PROVE  frames[d].state <= limit
    BY DEF InBuffer
  <2> DEFINE p == frames[d]
  <2>1. p \in Frame /\ Bounded(p, limit) /\ limit \in Nat
    <3>1. d \in 1 .. MaxDepth
      BY MessageAssumption DEF IInv, TypeOK
    <3> QED BY <3>1 DEF IInv, TypeOK, Stack
  <2>2. ~ p.sizing
    OBVIOUS
  <2> HIDE DEF p
  <2>3. p.state <= limit
    BY <2>1, <2>2 DEF Bounded, Frame
  <2> QED BY <2>3 DEF p
<1> QED BY <1>1, Invariance, PTL

\* bytes_written is the number of bytes in the buffer, on success and on failure.
THEOREM CountsExactly == Spec => []CountsWhatItPut
<1>1. IInv => CountsWhatItPut
  BY DEF IInv, Stack, CountsWhatItPut, Over, Top
<1> QED BY <1>1, Invariance, PTL

-----------------------------------------------------------------------------
(* Running totals. *)

\* A nonempty set of naturals has a least member.
LEMMA LeastNumber ==
    ASSUME NEW T \in SUBSET Nat, T # {}
    PROVE  \E n \in T : \A m \in T : n <= m
<1> DEFINE R == OpToRel(<, Nat)
<1>1. IsWellFoundedOn(R, Nat)
  BY NatLessThanWellFounded
<1>2. ASSUME NEW x \in Nat, NEW y \in Nat, <<y, x>> \notin R
      PROVE  x <= y
  BY <1>2 DEF OpToRel
<1> HIDE DEF R
<1>3. PICK x \in T : \A y \in T : <<y, x>> \notin R
  BY <1>1, WFMin
<1>4. \A y \in T : x <= y
  BY <1>2, <1>3
<1> QED BY <1>4

\* g sums the n lengths of h up to each of them.
Sums(g, n, h) ==
    /\ g \in [0 .. n -> Nat] /\ g[0] = 0
    /\ \A k \in 1 .. n : g[k] = g[k - 1] + h[k]
Totals(n, h) == CHOOSE g : Sums(g, n, h)

\* Every sequence of lengths has its running totals.
LEMMA TotalsSum ==
    ASSUME NEW n \in Nat, NEW h \in [1 .. n -> Nat]
    PROVE  Sums(Totals(n, h), n, h)
<1> DEFINE T == {k \in 0 .. n : ~ \E g : Sums(g, k, h)}
<1>1. ASSUME T # {} PROVE FALSE
  <2>1. T \in SUBSET Nat
    OBVIOUS
  <2>2. PICK k \in T : \A m \in T : k <= m
    <3> HIDE DEF T
    <3> QED BY <1>1, <2>1, LeastNumber
  <2>3. k \in 0 .. n /\ ~ \E g : Sums(g, k, h)
    BY <2>2
  <2>4. CASE k = 0
    <3> DEFINE g == [i \in 0 .. 0 |-> 0]
    <3>1. g \in [0 .. 0 -> Nat] /\ g[0] = 0
      OBVIOUS
    <3>2. \A i \in 1 .. 0 : FALSE
      OBVIOUS
    <3> HIDE DEF g
    <3>3. Sums(g, 0, h)
      BY <3>1, <3>2 DEF Sums
    <3> QED BY <2>3, <2>4, <3>3
  <2>5. CASE k # 0
    <3>1. k \in Nat /\ k - 1 \in 0 .. n /\ k \in 1 .. n /\ ~ (k <= k - 1)
      BY <2>3, <2>5
    <3>2. k - 1 \notin T
      BY <2>2, <3>1
    <3>3. PICK g : Sums(g, k - 1, h)
      BY <3>1, <3>2
    <3>4. /\ g \in [0 .. k - 1 -> Nat] /\ g[0] = 0
          /\ \A i \in 1 .. k - 1 : g[i] = g[i - 1] + h[i]
      BY <3>3 DEF Sums
    <3>5. h[k] \in Nat /\ g[k - 1] \in Nat
      BY <3>1, <3>4
    <3> DEFINE e == [i \in 0 .. k |-> IF i = k THEN g[k - 1] + h[k] ELSE g[i]]
    <3>6. \A i \in 0 .. k : i # k => i \in 0 .. k - 1
      BY <3>1
    <3>7. e \in [0 .. k -> Nat]
      BY <3>4, <3>5, <3>6
    <3>8. e[0] = 0
      BY <3>1, <3>4
    <3>9. ASSUME NEW i \in 1 .. k PROVE e[i] = e[i - 1] + h[i]
      <4>1. i \in 0 .. k /\ i - 1 \in 0 .. k /\ i - 1 # k
        BY <3>1
      <4>2. e[i - 1] = g[i - 1]
        BY <4>1
      <4>3. CASE i = k
        BY <4>1, <4>2, <4>3
      <4>4. CASE i # k
        <5>1. i \in 1 .. k - 1 /\ e[i] = g[i]
          BY <4>1, <4>4, <3>1
        <5> QED BY <4>2, <5>1, <3>4
      <4> QED BY <4>3, <4>4
    <3> HIDE DEF e
    <3>10. Sums(e, k, h)
      BY <3>7, <3>8, <3>9 DEF Sums
    <3> QED BY <2>3, <3>10
  <2> QED BY <2>4, <2>5
<1>2. n \in 0 .. n
  OBVIOUS
<1>3. \E g : Sums(g, n, h)
  BY <1>1, <1>2
<1> QED BY <1>3 DEF Totals

\* The totals of lengths, one by one and in order.
LEMMA TotalsStep ==
    ASSUME NEW n \in Nat, NEW h \in [1 .. n -> Nat]
    PROVE  /\ Totals(n, h) \in [0 .. n -> Nat] /\ Totals(n, h)[0] = 0
           /\ \A k \in 1 .. n : Totals(n, h)[k] = Totals(n, h)[k - 1] + h[k]
  BY TotalsSum DEF Sums

\* Totals only grow.
LEMMA TotalsGrow ==
    ASSUME NEW n \in Nat, NEW h \in [1 .. n -> Nat], NEW i \in 0 .. n, NEW j \in i .. n
    PROVE  Totals(n, h)[i] <= Totals(n, h)[j]
<1> DEFINE g == Totals(n, h)
           T == {k \in i .. n : ~ (g[i] <= g[k])}
<1>1. /\ g \in [0 .. n -> Nat]
      /\ \A k \in 1 .. n : g[k] = g[k - 1] + h[k]
  BY TotalsStep
<1> HIDE DEF g
<1>2. ASSUME T # {} PROVE FALSE
  <2>1. T \in SUBSET Nat
    OBVIOUS
  <2>2. PICK k \in T : \A m \in T : k <= m
    <3> HIDE DEF T
    <3> QED BY <1>2, <2>1, LeastNumber
  <2>3. k \in i .. n /\ ~ (g[i] <= g[k])
    BY <2>2
  <2>4. g[i] \in Nat /\ k # i
    BY <1>1, <2>3
  <2>5. k \in 1 .. n /\ k - 1 \in i .. n /\ k - 1 \in 0 .. n /\ ~ (k <= k - 1)
    BY <2>3, <2>4
  <2>6. k - 1 \notin T
    BY <2>2, <2>5
  <2>7. g[i] <= g[k - 1]
    BY <2>5, <2>6
  <2>8. g[k] = g[k - 1] + h[k] /\ h[k] \in Nat /\ g[k - 1] \in Nat
    BY <1>1, <2>5
  <2> QED BY <2>3, <2>4, <2>7, <2>8
<1>3. g[i] <= g[j]
  BY <1>2
<1> QED BY <1>3 DEF g

-----------------------------------------------------------------------------
(* What an encoding takes. *)

Text(f) == f.type \in {"string", "bytes"}

\* A field and its items have their types.
Proper(f) ==
    /\ f \in FieldType /\ f.items \in Seq(Nat) /\ f.width \in Nat /\ f.tag \in Nat
    /\ f.writes \subseteq Nat
    /\ \A k \in 1 .. Len(f.items) :
          f.items[k] \in Nat /\ (Whole(f) => f.items[k] \in Messages)

\* The fields of a message, as their types say.
LEMMA FieldsProper ==
    ASSUME NEW m \in Messages
    PROVE  Len(Msg[m]) \in Nat /\ \A i \in 1 .. Len(Msg[m]) : Proper(Msg[m][i])
<1>1. Msg[m] \in Seq(FieldType)
  BY MessageAssumption
<1>2. ASSUME NEW i \in 1 .. Len(Msg[m]) PROVE Proper(Msg[m][i])
  <2> DEFINE f == Msg[m][i]
             s == f.items
  <2>1. f \in FieldType /\ i \in DOMAIN Msg[m]
    BY <1>1
  <2>2. s \in Seq(Nat) /\ f.width \in Nat /\ f.tag \in Nat /\ f.writes \subseteq Nat
    BY <2>1 DEF FieldType
  <2>3. Whole(f) => s \in Seq(Messages)
    BY <2>1, MessageAssumption
  <2> HIDE DEF s, f
  <2>4. \A k \in 1 .. Len(s) : s[k] \in Nat /\ (Whole(f) => s[k] \in Messages)
    BY <2>2, <2>3
  <2> QED BY <2>1, <2>2, <2>4 DEF Proper, f, s
<1> QED BY <1>1, <1>2

\* The lengths of the items of a packed array.
PackedLens(f) == [k \in 1 .. Len(f.items) |-> ScalarLen(f, f.items[k])]
PackedSums(f) == Totals(Len(f.items), PackedLens(f))

\* A length and the bytes behind it.
Framed(n) == VarintLen(n) + n

\* encode_delimited_field puts no tag.
TagLen(f, k) == IF f.type = "delimited" /\ k = 1 THEN 0 ELSE VarintLen(f.tag)

\* An item of a field, its tag included, when submessages have the sizes r.
ItemLen(f, k, r) ==
    TagLen(f, k) + (IF Whole(f) THEN Framed(r[f.items[k]])
                    ELSE IF Text(f) THEN Framed(TextLen(f, f.items[k]))
                    ELSE ScalarLen(f, f.items[k]))
ItemLens(f, r) == [k \in 1 .. Len(f.items) |-> ItemLen(f, k, r)]
ItemSums(f, r) == Totals(Len(f.items), ItemLens(f, r))

\* A field; a callback that cannot choose writes what it must.
FieldLen(f, r) ==
    IF f.alloc = "callback"
    THEN IF \E n \in Nat : f.writes = {n} THEN CHOOSE n \in Nat : f.writes = {n} ELSE 0
    ELSE IF ~ Has(f) THEN 0
    ELSE IF Packed(f) THEN VarintLen(f.tag) + Framed(PackedSums(f)[Len(f.items)])
    ELSE ItemSums(f, r)[Len(f.items)]
FieldLens(m, r) == [i \in 1 .. Len(Msg[m]) |-> FieldLen(Msg[m][i], r)]
FieldSums(m, r) == Totals(Len(Msg[m]), FieldLens(m, r))
Total(m, r) == FieldSums(m, r)[Len(Msg[m])]

\* A field the encoder does not refuse, whatever its submessages are.
Fine(f) ==
    f.alloc # "callback" =>
        /\ Has(f) => ~ TooMany(f) /\ \A k \in 1 .. Len(f.items) : ~ Oversize(f, f.items[k])
        /\ ~ Has(f) => f.rule # "required"
Present(f) == f.alloc # "callback" /\ Has(f)
\* The messages it encodes.
Needs(f) == {x \in Messages : Present(f) /\ Whole(f)
                                /\ \E k \in 1 .. Len(f.items) : x = f.items[k]}

\* A length and what is behind it make a number.
LEMMA FramedType ==
    ASSUME NEW n, n \in Nat
    PROVE  Framed(n) \in Nat
<1>1. VarintLen(n) \in Nat
  BY VarintLenType
<1> QED BY <1>1 DEF Framed

\* The lengths are numbers, and the totals add them up.
LEMMA PackedTotals ==
    ASSUME NEW f, Proper(f)
    PROVE  /\ PackedSums(f) \in [0 .. Len(f.items) -> Nat] /\ PackedSums(f)[0] = 0
           /\ \A k \in 1 .. Len(f.items) :
                 /\ PackedSums(f)[k] = PackedSums(f)[k - 1] + ScalarLen(f, f.items[k])
                 /\ ScalarLen(f, f.items[k]) \in Nat
<1>1. Len(f.items) \in Nat
  BY DEF Proper
<1>2. \A k \in 1 .. Len(f.items) : ScalarLen(f, f.items[k]) \in Nat
  BY VarintLenType DEF Proper, ScalarLen
<1> DEFINE h == PackedLens(f)
           n == Len(f.items)
<1>3. h \in [1 .. n -> Nat] /\ \A k \in 1 .. n : h[k] = ScalarLen(f, f.items[k])
  BY <1>2 DEF PackedLens
<1> HIDE DEF h, n
<1>4. /\ Totals(n, h) \in [0 .. n -> Nat] /\ Totals(n, h)[0] = 0
      /\ \A k \in 1 .. n : Totals(n, h)[k] = Totals(n, h)[k - 1] + h[k]
  BY <1>1, <1>3, TotalsStep DEF n
<1>5. PackedSums(f) = Totals(n, h)
  BY DEF PackedSums, h, n
<1> QED BY <1>2, <1>3, <1>4, <1>5 DEF n

\* So are the lengths of the items of a field.
LEMMA ItemTotals ==
    ASSUME NEW f, Proper(f), NEW r \in [Messages -> Nat]
    PROVE  /\ ItemLens(f, r) \in [1 .. Len(f.items) -> Nat]
           /\ ItemSums(f, r) \in [0 .. Len(f.items) -> Nat] /\ ItemSums(f, r)[0] = 0
           /\ \A k \in 1 .. Len(f.items) :
                 /\ ItemSums(f, r)[k] = ItemSums(f, r)[k - 1] + ItemLen(f, k, r)
                 /\ ItemLen(f, k, r) \in Nat
<1>1. Len(f.items) \in Nat
  BY DEF Proper
<1>2. ASSUME NEW k \in 1 .. Len(f.items) PROVE ItemLen(f, k, r) \in Nat
  <2> DEFINE x == f.items[k]
  <2>1. x \in Nat /\ f.width \in Nat /\ (Whole(f) => x \in Messages)
    BY DEF Proper
  <2> HIDE DEF x
  <2> DEFINE a == r[x]
             b == TextLen(f, x)
  <2>2. Whole(f) => a \in Nat
    BY <2>1
  <2>3. b \in Nat /\ ScalarLen(f, x) \in Nat /\ TagLen(f, k) \in Nat
    BY <2>1, VarintLenType DEF TextLen, ScalarLen, TagLen
  <2>4. ItemLen(f, k, r) = TagLen(f, k) + (IF Whole(f) THEN Framed(a)
                             ELSE IF Text(f) THEN Framed(b) ELSE ScalarLen(f, x))
    BY DEF ItemLen, x
  <2> HIDE DEF a, b
  <2>5. (Whole(f) => Framed(a) \in Nat) /\ Framed(b) \in Nat
    BY <2>2, <2>3, FramedType
  <2> QED BY <2>3, <2>4, <2>5
<1> DEFINE h == ItemLens(f, r)
           n == Len(f.items)
<1>3. h \in [1 .. n -> Nat] /\ \A k \in 1 .. n : h[k] = ItemLen(f, k, r)
  BY <1>2 DEF ItemLens
<1> HIDE DEF h, n
<1>4. /\ Totals(n, h) \in [0 .. n -> Nat] /\ Totals(n, h)[0] = 0
      /\ \A k \in 1 .. n : Totals(n, h)[k] = Totals(n, h)[k - 1] + h[k]
  BY <1>1, <1>3, TotalsStep DEF n
<1>5. ItemSums(f, r) = Totals(n, h)
  BY DEF ItemSums, h, n
<1> QED BY <1>2, <1>3, <1>4, <1>5 DEF n, h

\* A field takes a number of bytes.
LEMMA FieldLenType ==
    ASSUME NEW f, Proper(f), NEW r \in [Messages -> Nat]
    PROVE  FieldLen(f, r) \in Nat
<1>1. Len(f.items) \in Nat /\ Len(f.items) \in 0 .. Len(f.items)
  BY DEF Proper
<1>2. PackedSums(f)[Len(f.items)] \in Nat
  BY <1>1, PackedTotals
<1>3. ItemSums(f, r)[Len(f.items)] \in Nat
  <2>1. ItemSums(f, r) \in [0 .. Len(f.items) -> Nat]
    BY ItemTotals
  <2> QED BY <1>1, <2>1
<1>4. Framed(PackedSums(f)[Len(f.items)]) \in Nat
  BY <1>2, FramedType
<1>5. VarintLen(f.tag) + Framed(PackedSums(f)[Len(f.items)]) \in Nat
  BY <1>4, VarintLenType
<1>6. (\E n \in Nat : f.writes = {n}) => (CHOOSE n \in Nat : f.writes = {n}) \in Nat
  OBVIOUS
<1> QED BY <1>3, <1>5, <1>6 DEF FieldLen

\* So do the fields of a message, added up.
LEMMA FieldTotals ==
    ASSUME NEW m \in Messages, NEW r \in [Messages -> Nat]
    PROVE  /\ FieldLens(m, r) \in [1 .. Len(Msg[m]) -> Nat]
           /\ FieldSums(m, r) \in [0 .. Len(Msg[m]) -> Nat] /\ FieldSums(m, r)[0] = 0
           /\ \A k \in 1 .. Len(Msg[m]) :
                 /\ FieldSums(m, r)[k] = FieldSums(m, r)[k - 1] + FieldLen(Msg[m][k], r)
                 /\ FieldLen(Msg[m][k], r) \in Nat
<1> DEFINE h == FieldLens(m, r)
           n == Len(Msg[m])
<1>1. n \in Nat /\ \A k \in 1 .. n : FieldLen(Msg[m][k], r) \in Nat
  BY FieldsProper, FieldLenType
<1>2. h \in [1 .. n -> Nat] /\ \A k \in 1 .. n : h[k] = FieldLen(Msg[m][k], r)
  BY <1>1 DEF FieldLens
<1> HIDE DEF h, n
<1>3. /\ Totals(n, h) \in [0 .. n -> Nat] /\ Totals(n, h)[0] = 0
      /\ \A k \in 1 .. n : Totals(n, h)[k] = Totals(n, h)[k - 1] + h[k]
  BY <1>1, <1>2, TotalsStep
<1>4. FieldSums(m, r) = Totals(n, h)
  BY DEF FieldSums, h, n
<1> QED BY <1>1, <1>2, <1>3, <1>4 DEF n, h

\* Nothing but the sizes of the messages a field encodes counts.
LEMMA TotalAgrees ==
    ASSUME NEW m \in Messages, NEW r \in [Messages -> Nat], NEW s \in [Messages -> Nat],
           \A i \in 1 .. Len(Msg[m]) : \A x \in Needs(Msg[m][i]) : r[x] = s[x]
    PROVE  Total(m, r) = Total(m, s)
<1>1. ASSUME NEW i \in 1 .. Len(Msg[m]) PROVE FieldLen(Msg[m][i], r) = FieldLen(Msg[m][i], s)
  <2> DEFINE f == Msg[m][i]
  <2>1. Proper(f)
    BY FieldsProper
  <2>2. \A x \in Needs(f) : r[x] = s[x]
    OBVIOUS
  <2> HIDE DEF f
  <2>3. ASSUME Present(f) PROVE FieldLen(f, r) = FieldLen(f, s)
    <3>1. ASSUME NEW k \in 1 .. Len(f.items) PROVE ItemLen(f, k, r) = ItemLen(f, k, s)
      <4>1. CASE Whole(f)
        <5>1. f.items[k] \in Needs(f)
          BY <2>1, <2>3, <4>1 DEF Proper, Needs
        <5>2. r[f.items[k]] = s[f.items[k]]
          BY <2>2, <5>1
        <5> QED BY <5>2 DEF ItemLen
      <4>2. CASE ~ Whole(f)
        BY <4>2 DEF ItemLen
      <4> QED BY <4>1, <4>2
    <3>2. ItemLens(f, r) = ItemLens(f, s)
      BY <3>1 DEF ItemLens
    <3>3. ItemSums(f, r) = ItemSums(f, s)
      BY <3>2 DEF ItemSums
    <3> QED BY <3>3 DEF FieldLen
  <2>4. ASSUME ~ Present(f) PROVE FieldLen(f, r) = FieldLen(f, s)
    BY <2>4 DEF FieldLen, Present
  <2>5. FieldLen(f, r) = FieldLen(f, s)
    BY <2>3, <2>4
  <2> QED BY <2>5 DEF f
<1>2. FieldLens(m, r) = FieldLens(m, s)
  BY <1>1 DEF FieldLens
<1> QED BY <1>2 DEF Total, FieldSums

-----------------------------------------------------------------------------
(* The size of a message: messages may name one another, so it is the least  *)
(* relation that holds of a message when it holds of those it encodes.       *)

\* No field of m is refused, and E holds of its submessages with sizes r.
SizedBy(m, r, E) ==
    \A i \in 1 .. Len(Msg[m]) :
        Fine(Msg[m][i]) /\ \A x \in Needs(Msg[m][i]) : <<x, r[x]>> \in E
Closed(E) ==
    \A m \in Messages : \A r \in [Messages -> Nat] :
        SizedBy(m, r, E) => <<m, Total(m, r)>> \in E
SizePairs ==
    {p \in Messages \X Nat : \A E \in SUBSET (Messages \X Nat) : Closed(E) => p \in E}

\* The messages that have a size, and which.
Sizable == {m \in Messages : \E n \in Nat : <<m, n>> \in SizePairs}
Size == [m \in Messages |->
            IF m \in Sizable THEN CHOOSE n \in Nat : <<m, n>> \in SizePairs ELSE 0]

\* And the message.
LEMMA TotalType ==
    ASSUME NEW m \in Messages, NEW r \in [Messages -> Nat]
    PROVE  Total(m, r) \in Nat
<1>1. Len(Msg[m]) \in 0 .. Len(Msg[m])
  BY FieldsProper
<1> QED BY <1>1, FieldTotals DEF Total

\* The relation is closed.
LEMMA PairsClosed == Closed(SizePairs)
<1> SUFFICES ASSUME NEW m \in Messages, NEW r \in [Messages -> Nat],
                    SizedBy(m, r, SizePairs)
             PROVE  <<m, Total(m, r)>> \in SizePairs
  BY DEF Closed
<1>1. ASSUME NEW E \in SUBSET (Messages \X Nat), Closed(E)
      PROVE  <<m, Total(m, r)>> \in E
  <2>1. SizePairs \subseteq E
    BY <1>1 DEF SizePairs
  <2>2. SizedBy(m, r, E)
    BY <2>1 DEF SizedBy
  <2> QED BY <1>1, <2>2 DEF Closed
<1>2. <<m, Total(m, r)>> \in Messages \X Nat
  BY TotalType
<1> QED BY <1>1, <1>2 DEF SizePairs

\* What it holds of, it holds of for that reason.
LEMMA PairsReason ==
    ASSUME NEW m, NEW n, <<m, n>> \in SizePairs
    PROVE  /\ m \in Messages /\ n \in Nat
           /\ \E r \in [Messages -> Nat] : SizedBy(m, r, SizePairs) /\ n = Total(m, r)
<1> DEFINE E == {p \in SizePairs : \E r \in [Messages -> Nat] :
                    SizedBy(p[1], r, SizePairs) /\ p[2] = Total(p[1], r)}
<1>1. SizePairs \in SUBSET (Messages \X Nat)
  BY DEF SizePairs
<1>2. E \in SUBSET (Messages \X Nat) /\ E \subseteq SizePairs
  BY <1>1
<1>3. Closed(E)
  <2> SUFFICES ASSUME NEW k \in Messages, NEW r \in [Messages -> Nat], SizedBy(k, r, E)
               PROVE  <<k, Total(k, r)>> \in E
    BY DEF Closed
  <2>1. SizedBy(k, r, SizePairs)
    <3> HIDE DEF E
    <3> QED BY <1>2 DEF SizedBy
  <2>2. <<k, Total(k, r)>> \in SizePairs
    BY <2>1, PairsClosed DEF Closed
  <2> DEFINE p == <<k, Total(k, r)>>
  <2>3. p[1] = k /\ p[2] = Total(k, r) /\ p \in SizePairs
    BY <2>2
  <2> HIDE DEF p
  <2>4. p \in E
    BY <2>1, <2>3
  <2> QED BY <2>4 DEF p
<1>4. <<m, n>> \in E
  <2> HIDE DEF E
  <2> QED BY <1>2, <1>3 DEF SizePairs
<1> DEFINE p == <<m, n>>
<1>5. p[1] = m /\ p[2] = n
  OBVIOUS
<1>6. \E r \in [Messages -> Nat] : SizedBy(p[1], r, SizePairs) /\ p[2] = Total(p[1], r)
  BY <1>4
<1> QED BY <1>1, <1>5, <1>6

\* A message has one size.
LEMMA PairsUnique ==
    ASSUME NEW m, NEW n, NEW k, <<m, n>> \in SizePairs, <<m, k>> \in SizePairs
    PROVE  k = n
<1> DEFINE E == {p \in SizePairs : \A j \in Nat : <<p[1], j>> \in SizePairs => j = p[2]}
<1>1. SizePairs \in SUBSET (Messages \X Nat)
  BY DEF SizePairs
<1>2. E \in SUBSET (Messages \X Nat) /\ E \subseteq SizePairs
  BY <1>1
<1>3. Closed(E)
  <2> SUFFICES ASSUME NEW q \in Messages, NEW r \in [Messages -> Nat], SizedBy(q, r, E)
               PROVE  <<q, Total(q, r)>> \in E
    BY DEF Closed
  <2>1. SizedBy(q, r, SizePairs)
    <3> HIDE DEF E
    <3> QED BY <1>2 DEF SizedBy
  <2>2. <<q, Total(q, r)>> \in SizePairs
    BY <2>1, PairsClosed DEF Closed
  <2>3. ASSUME NEW j \in Nat, <<q, j>> \in SizePairs PROVE j = Total(q, r)
    <3>1. PICK s \in [Messages -> Nat] : SizedBy(q, s, SizePairs) /\ j = Total(q, s)
      BY <2>3, PairsReason
    <3>2. ASSUME NEW i \in 1 .. Len(Msg[q]), NEW x \in Needs(Msg[q][i]) PROVE r[x] = s[x]
      <4>1. <<x, r[x]>> \in E /\ <<x, s[x]>> \in SizePairs /\ x \in Messages
        <5> HIDE DEF E
        <5> QED BY <3>1 DEF SizedBy, Needs
      <4> DEFINE a == r[x]
                 b == s[x]
                 p == <<x, a>>
      <4>2. a \in Nat /\ b \in Nat /\ p[1] = x /\ p[2] = a
        BY <4>1
      <4>3. p \in E /\ <<x, b>> \in SizePairs
        BY <4>1
      <4> HIDE DEF a, b, p
      <4>4. b = a
        BY <4>2, <4>3
      <4> QED BY <4>4 DEF a, b
    <3>3. Total(q, r) = Total(q, s)
      BY <3>2, TotalAgrees
    <3> QED BY <3>1, <3>3
  <2> DEFINE p == <<q, Total(q, r)>>
  <2>4. p[1] = q /\ p[2] = Total(q, r) /\ p \in SizePairs
    BY <2>2
  <2> HIDE DEF p
  <2>5. p \in E
    BY <2>3, <2>4
  <2> QED BY <2>5 DEF p
<1>4. <<m, n>> \in E
  <2> HIDE DEF E
  <2> QED BY <1>2, <1>3 DEF SizePairs
<1>5. k \in Nat
  BY PairsReason
<1> DEFINE p == <<m, n>>
<1>6. p[1] = m /\ p[2] = n /\ p \in E
  BY <1>4
<1> HIDE DEF p
<1> QED BY <1>5, <1>6

\* A message of the relation has its size.
LEMMA SizeIs ==
    ASSUME NEW m, NEW n, <<m, n>> \in SizePairs
    PROVE  m \in Sizable /\ Size[m] = n
<1>1. m \in Messages /\ n \in Nat
  BY PairsReason
<1>2. m \in Sizable
  BY <1>1 DEF Sizable
<1> DEFINE k == CHOOSE j \in Nat : <<m, j>> \in SizePairs
<1>3. <<m, k>> \in SizePairs
  BY <1>1
<1>4. Size[m] = k
  BY <1>1, <1>2 DEF Size
<1> HIDE DEF k
<1> QED BY <1>2, <1>3, <1>4, PairsUnique

\* And has it in the relation.
LEMMA SizableSize ==
    ASSUME NEW m \in Sizable
    PROVE  m \in Messages /\ <<m, Size[m]>> \in SizePairs
<1>1. PICK n \in Nat : <<m, n>> \in SizePairs
  BY DEF Sizable
<1> QED BY <1>1, SizeIs DEF Sizable

\* Sizes are numbers.
LEMMA SizeType == Size \in [Messages -> Nat] /\ Sizable \subseteq Messages
<1>1. ASSUME NEW m \in Messages
      PROVE  (IF m \in Sizable THEN CHOOSE n \in Nat : <<m, n>> \in SizePairs ELSE 0) \in Nat
  <2>1. m \in Sizable => \E n \in Nat : <<m, n>> \in SizePairs
    BY DEF Sizable
  <2>2. m \in Sizable => (CHOOSE n \in Nat : <<m, n>> \in SizePairs) \in Nat
    BY <2>1
  <2> QED BY <2>2
<1>2. Size \in [Messages -> Nat]
  BY <1>1 DEF Size
<1> QED BY <1>2 DEF Sizable

\* A message has a size when no field of it is refused and its submessages
\* have sizes, and then its size is the sum of its fields'.
LEMMA SizeLaw ==
    ASSUME NEW m \in Messages
    PROVE  /\ m \in Sizable <=> \A i \in 1 .. Len(Msg[m]) :
                                    Fine(Msg[m][i]) /\ Needs(Msg[m][i]) \subseteq Sizable
           /\ m \in Sizable => Size[m] = Total(m, Size)
<1>1. ASSUME \A i \in 1 .. Len(Msg[m]) : Fine(Msg[m][i]) /\ Needs(Msg[m][i]) \subseteq Sizable
      PROVE  m \in Sizable /\ Size[m] = Total(m, Size)
  <2>1. SizedBy(m, Size, SizePairs)
    BY <1>1, SizableSize DEF SizedBy
  <2>2. <<m, Total(m, Size)>> \in SizePairs
    BY <2>1, SizeType, PairsClosed DEF Closed
  <2> QED BY <2>2, SizeIs
<1>2. ASSUME m \in Sizable
      PROVE  \A i \in 1 .. Len(Msg[m]) : Fine(Msg[m][i]) /\ Needs(Msg[m][i]) \subseteq Sizable
  <2>1. <<m, Size[m]>> \in SizePairs
    BY <1>2, SizableSize
  <2>2. PICK r \in [Messages -> Nat] : SizedBy(m, r, SizePairs)
    BY <2>1, PairsReason
  <2> TAKE i \in 1 .. Len(Msg[m])
  <2>3. Fine(Msg[m][i]) /\ \A x \in Needs(Msg[m][i]) : <<x, r[x]>> \in SizePairs
    BY <2>2 DEF SizedBy
  <2>4. \A x \in Needs(Msg[m][i]) : x \in Sizable
    BY <2>3, SizeIs
  <2> QED BY <2>3, <2>4
<1> QED BY <1>1, <1>2

-----------------------------------------------------------------------------
(* What a step makes of a frame. *)

\* y is t, n bytes further on, and all that may have changed in it.
Made(y, t, n, pos, item, phase, size, mark) ==
    /\ y.msg = t.msg /\ y.sizing = t.sizing /\ y.max = t.max
    /\ y.written = t.written + n /\ y.state = (IF t.sizing THEN t.state ELSE t.state + n)
    /\ y.pos = pos /\ y.item = item /\ y.phase = phase
    /\ y.size = size /\ y.mark = mark

\* The changes the steps make.
LEMMA Remade ==
    ASSUME NEW w \in Frame, NEW t, NEW n, NEW p, NEW i, NEW h, NEW s, NEW m,
           Made(w, t, n, p, i, h, s, m),
           NEW ph, NEW sz, NEW k
    PROVE  /\ Made([w EXCEPT !.phase = ph], t, n, p, i, ph, s, m)
           /\ Made([w EXCEPT !.phase = ph, !.size = sz], t, n, p, i, ph, sz, m)
           /\ Made([w EXCEPT !.size = sz, !.phase = ph], t, n, p, i, ph, sz, m)
           /\ Made([w EXCEPT !.size = sz], t, n, p, i, h, sz, m)
           /\ Made([w EXCEPT !.mark = k], t, n, p, i, h, s, k)
           /\ Made([w EXCEPT !.item = k, !.phase = ph], t, n, p, k, ph, s, m)
           /\ Made([w EXCEPT !.item = k], t, n, p, k, h, s, m)
           /\ Made(NextField(w), t, n, p + 1, 1, "field", s, m)
<1>1. w.pos = p
  BY DEF Made
<1>2. NextField(w) = [w EXCEPT !.pos = p + 1, !.item = 1, !.phase = "field"]
  BY <1>1 DEF NextField
<1>3. Made([w EXCEPT !.phase = ph], t, n, p, i, ph, s, m)
  BY DEF Made, Frame
<1>4. Made([w EXCEPT !.phase = ph, !.size = sz], t, n, p, i, ph, sz, m)
  BY DEF Made, Frame
<1>5. Made([w EXCEPT !.size = sz, !.phase = ph], t, n, p, i, ph, sz, m)
  BY DEF Made, Frame
<1>6. Made([w EXCEPT !.size = sz], t, n, p, i, h, sz, m)
  BY DEF Made, Frame
<1>7. Made([w EXCEPT !.mark = k], t, n, p, i, h, s, k)
  BY DEF Made, Frame
<1>8. Made([w EXCEPT !.item = k, !.phase = ph], t, n, p, k, ph, s, m)
  BY DEF Made, Frame
<1>9. Made([w EXCEPT !.item = k], t, n, p, k, h, s, m)
  BY DEF Made, Frame
<1>10. Made(NextField(w), t, n, p + 1, 1, "field", s, m)
  <2> DEFINE q == p + 1
  <2> HIDE DEF q
  <2>1. Made([w EXCEPT !.pos = q, !.item = 1, !.phase = "field"], t, n, q, 1, "field", s, m)
    BY DEF Made, Frame
  <2> QED BY <1>2, <2>1 DEF q
<1> QED BY <1>3, <1>4, <1>5, <1>6, <1>7, <1>8, <1>9, <1>10

\* A stream that does not move, and one that pb_write moves.
LEMMA MadeWrote ==
    ASSUME NEW t \in Frame, NEW n \in Nat
    PROVE  /\ Made(t, t, 0, t.pos, t.item, t.phase, t.size, t.mark)
           /\ Wrote(t, n) \in Frame
           /\ Made(Wrote(t, n), t, n, t.pos, t.item, t.phase, t.size, t.mark)
<1>1. t.written \in Nat /\ t.state \in Nat
  BY DEF Frame
<1>2. t.written + 0 = t.written /\ t.state + 0 = t.state
  BY <1>1
<1>3. Made(t, t, 0, t.pos, t.item, t.phase, t.size, t.mark)
  BY <1>2 DEF Made
<1>4. Made(Wrote(t, n), t, n, t.pos, t.item, t.phase, t.size, t.mark)
  BY WroteMoves DEF Made, Moved
<1> QED BY <1>3, <1>4, WroteMoves DEF Moved

\* The stack after a step that leaves y at e, the innermost.
LEMMA Placed ==
    ASSUME IInv, NEW e \in 1 .. depth, NEW y, frames' = [frames EXCEPT ![e] = y]
    PROVE  /\ frames'[e] = y /\ \A d \in 1 .. depth : d # e => frames'[d] = frames[d]
           /\ e \in Nat /\ depth \in Nat
<1>1. /\ frames \in [1 .. MaxDepth -> Frame] /\ depth \in 1 .. MaxDepth
      /\ MaxDepth \in Nat /\ e \in 1 .. MaxDepth
  BY MessageAssumption DEF IInv, TypeOK
<1> QED BY <1>1

\* The step leaves y on top of the stack, at e.
Lands(y, e) == frames' = [frames EXCEPT ![e] = y] /\ depth' = e

\* What a skipped field leaves: the frame at the next one.
LEMMA SkipEffect ==
    ASSUME IInv, SkipField
    PROVE  \E y : /\ Lands(y, depth) /\ ret' = ret
                  /\ Made(y, Top, 0, Top.pos + 1, 1, "field", Top.size, Top.mark)
<1> DEFINE t == Top
           y == NextField(t)
<1>1. t \in Frame
  BY TopType
<1>2. Made(t, t, 0, t.pos, t.item, t.phase, t.size, t.mark)
  <2>1. 0 \in Nat
    OBVIOUS
  <2> HIDE DEF t
  <2> QED BY <1>1, <2>1, MadeWrote
<1>3. Made(y, t, 0, t.pos + 1, 1, "field", t.size, t.mark)
  <2> HIDE DEF t
  <2> QED BY <1>1, <1>2, Remade
<1>4. Lands(y, depth) /\ ret' = ret
  BY DEF SkipField, Goto, Lands
<1> HIDE DEF y
<1> QED BY <1>3, <1>4

\* What pb_encode leaves when it begins a field.
LEMMA BeginEffect ==
    ASSUME IInv, BeginField
    PROVE  \E y : /\ Lands(y, depth) /\ ret' = ret
                  /\ Made(y, Top, 0, Top.pos, Top.item,
                          IF Field.type = "delimited" THEN "measure" ELSE "tag",
                          Top.size, Top.mark)
<1> DEFINE t == Top
           ph == IF Field.type = "delimited" THEN "measure" ELSE "tag"
           y == [t EXCEPT !.phase = ph]
<1>1. t \in Frame
  BY TopType
<1>2. Made(t, t, 0, t.pos, t.item, t.phase, t.size, t.mark)
  <2>1. 0 \in Nat
    OBVIOUS
  <2> HIDE DEF t
  <2> QED BY <1>1, <2>1, MadeWrote
<1>3. Made(y, t, 0, t.pos, t.item, ph, t.size, t.mark)
  <2> HIDE DEF t, ph
  <2> QED BY <1>1, <1>2, Remade
<1>4. Lands(y, depth) /\ ret' = ret
  BY DEF BeginField, Goto, Lands
<1> HIDE DEF y
<1> QED BY <1>3, <1>4

\* What a callback leaves: its bytes, or a call that failed for want of room.
LEMMA CallbackEffect ==
    ASSUME IInv, Callback
    PROVE  \E n \in Field.writes :
              /\ n \in Nat /\ wild' = (wild \/ Field.writes # {n})
              /\ \/ /\ Room(Top, n) /\ ret' = ret
                    /\ \E y : /\ Lands(y, depth)
                              /\ Made(y, Top, n, Top.pos + 1, 1, "field", Top.size, Top.mark)
                 \/ /\ ~ Room(Top, n) /\ ret' = "fail" /\ UNCHANGED <<frames, depth>>
<1>1. PICK n \in Field.writes :
         /\ wild' = (wild \/ Field.writes # {n})
         /\ \/ Room(Top, n) /\ Goto(NextField(Wrote(Top, n)))
            \/ ~ Room(Top, n) /\ Return("fail")
  BY DEF Callback
<1>2. n \in Nat
  <2> DEFINE t == Top
  <2>1. t \in Frame /\ t.pos >= 1 /\ t.pos <= Len(Msg[t.msg]) /\ Field = Msg[t.msg][t.pos]
    BY TopType DEF Callback, AtField, Running, Fields, Field, InRange
  <2> HIDE DEF t
  <2>2. t.pos \in Nat /\ Msg[t.msg] \in Seq(FieldType)
    BY <2>1, FieldsType DEF Frame
  <2>3. t.pos \in 1 .. Len(Msg[t.msg])
    BY <2>1, <2>2
  <2> QED BY <2>1, <2>3, FieldsType DEF Frame
<1>3. CASE ~ Room(Top, n) /\ Return("fail")
  <2>1. ret' = "fail" /\ UNCHANGED <<frames, depth>>
    BY <1>3 DEF Return
  <2> QED BY <1>1, <1>2, <1>3, <2>1
<1>4. CASE Room(Top, n) /\ Goto(NextField(Wrote(Top, n)))
  <2> DEFINE t == Top
             w == Wrote(Top, n)
             y == NextField(w)
  <2>1. w \in Frame /\ Made(w, t, n, t.pos, t.item, t.phase, t.size, t.mark)
    BY <1>2, TopType, MadeWrote
  <2>2. Made(y, t, n, t.pos + 1, 1, "field", t.size, t.mark)
    <3> HIDE DEF t, w
    <3> QED BY <2>1, Remade
  <2>3. Lands(y, depth) /\ ret' = ret
    BY <1>4 DEF Goto, Lands
  <2> HIDE DEF y
  <2> QED BY <1>1, <1>2, <1>4, <2>2, <2>3
<1> QED BY <1>1, <1>3, <1>4

\* What a tag leaves: the field goes on by its type, or a string is refused.
LEMMA TagEffect ==
    ASSUME IInv, PutTag
    PROVE  /\ Chunk \in Nat /\ Chunk = VarintLen(Field.tag)
           /\ Top.phase = "tag" /\ Room(Top, Chunk) /\ ret = "none"
           /\ \E y, ph, s :
                 /\ Lands(y, depth)
                 /\ Made(y, Top, Chunk, Top.pos, Top.item, ph, s, Top.mark)
                 /\ \/ /\ Packed(Field) /\ Field.type = "varint" /\ ph = "count" /\ s = 0
                       /\ ret' = ret
                    \/ /\ Packed(Field) /\ Field.type = "fixed" /\ ph = "len"
                       /\ s = Field.width * Len(Field.items) /\ ret' = ret
                    \/ /\ ~ Packed(Field) /\ Field.type \in {"varint", "fixed"} /\ ph = "body"
                       /\ s = Top.size /\ ret' = ret
                    \/ /\ Text(Field) /\ ~ Oversize(Field, Item) /\ ph = "len"
                       /\ s = TextLen(Field, Item) /\ ret' = ret
                    \/ Text(Field) /\ Oversize(Field, Item) /\ ret' = "fail"
                    \/ Whole(Field) /\ ph = "measure" /\ s = Top.size /\ ret' = ret
<1>1. Top.phase = "tag" /\ Top.phase # "field" /\ Room(Top, Chunk) /\ ret = "none"
  BY DEF PutTag, Running
<1>2. Chunk \in Nat /\ Chunk = VarintLen(Field.tag)
  BY <1>1, ChunkType DEF Writing, Chunk
<1> DEFINE t == Top
           w == Wrote(Top, Chunk)
<1>3. w \in Frame /\ Made(w, t, Chunk, t.pos, t.item, t.phase, t.size, t.mark)
  BY <1>2, TopType, MadeWrote
<1>4. ASSUME NEW ph, NEW s
      PROVE  /\ Made([w EXCEPT !.phase = ph], t, Chunk, t.pos, t.item, ph, t.size, t.mark)
             /\ Made([w EXCEPT !.phase = ph, !.size = s], t, Chunk, t.pos, t.item, ph, s, t.mark)
  <2> HIDE DEF t, w
  <2> QED BY <1>3, Remade
<1>5. ASSUME NEW y, Goto(y) PROVE Lands(y, depth) /\ ret' = ret
  BY <1>5 DEF Goto, Lands
<1>6. CASE Packed(Field) /\ Field.type = "varint" /\ Goto([w EXCEPT !.phase = "count", !.size = 0])
  <2> HIDE DEF t, w
  <2> QED BY <1>1, <1>2, <1>4, <1>5, <1>6 DEF t
<1>7. CASE Packed(Field) /\ Field.type = "fixed"
           /\ Goto([w EXCEPT !.phase = "len", !.size = Field.width * Len(Field.items)])
  <2> DEFINE s == Field.width * Len(Field.items)
             y == [w EXCEPT !.phase = "len", !.size = s]
  <2>1. Made(y, t, Chunk, t.pos, t.item, "len", s, t.mark)
    <3> HIDE DEF s, w, t
    <3> QED BY <1>4
  <2>2. Lands(y, depth) /\ ret' = ret
    BY <1>5, <1>7
  <2> HIDE DEF y
  <2> QED BY <1>1, <1>2, <1>7, <2>1, <2>2
<1>8. CASE Field.type \in {"varint", "fixed"} /\ ~ Packed(Field) /\ Goto([w EXCEPT !.phase = "body"])
  <2> HIDE DEF t, w
  <2> QED BY <1>1, <1>2, <1>4, <1>5, <1>8 DEF t
<1>9. CASE Text(Field) /\ ~ Oversize(Field, Item)
           /\ Goto([w EXCEPT !.phase = "len", !.size = TextLen(Field, Item)])
  <2> HIDE DEF t, w
  <2> QED BY <1>1, <1>2, <1>4, <1>5, <1>9 DEF t
<1>10. CASE Text(Field) /\ Oversize(Field, Item) /\ ret' = "fail"
            /\ frames' = [frames EXCEPT ![depth] = w] /\ depth' = depth
  <2> HIDE DEF w
  <2>1. Lands(w, depth)
    BY <1>10 DEF Lands
  <2> QED BY <1>1, <1>2, <1>3, <1>10, <2>1
<1>11. CASE Whole(Field) /\ Goto([w EXCEPT !.phase = "measure"])
  <2> HIDE DEF t, w
  <2> QED BY <1>1, <1>2, <1>4, <1>5, <1>11 DEF t
<1> QED BY <1>6, <1>7, <1>8, <1>9, <1>10, <1>11 DEF PutTag, Text

\* What an item counted leaves.
LEMMA CountEffect ==
    ASSUME IInv, CountItem
    PROVE  /\ Top.phase = "count" /\ ret' = ret
           /\ \E y : /\ Lands(y, depth)
                     /\ \/ /\ Top.item < Len(Field.items)
                           /\ Made(y, Top, 0, Top.pos, Top.item + 1, "count",
                                   Top.size + ScalarLen(Field, Item), Top.mark)
                        \/ /\ ~ (Top.item < Len(Field.items))
                           /\ Made(y, Top, 0, Top.pos, 1, "len",
                                   Top.size + ScalarLen(Field, Item), Top.mark)
<1>1. Top.phase = "count" /\ Top.phase # "field" /\ ret' = ret
  BY DEF CountItem, Running, Goto
<1> DEFINE t == Top
           s == t.size + ScalarLen(Field, Item)
           i == t.item + 1
           w == [t EXCEPT !.size = s]
           x == [w EXCEPT !.item = i]
           y == [w EXCEPT !.item = 1, !.phase = "len"]
<1>2. t \in Frame /\ t.phase = "count"
  BY <1>1, TopType
<1>3. IF t.item < Len(Field.items) THEN Goto(x) ELSE Goto(y)
  <2>1. w = [t EXCEPT !.size = @ + ScalarLen(Field, Item)]
    BY <1>2 DEF Frame
  <2>2. x = [w EXCEPT !.item = @ + 1]
    BY <1>2 DEF Frame
  <2>3. IF t.item < Len(Field.items) THEN Goto([w EXCEPT !.item = @ + 1]) ELSE Goto(y)
    BY <2>1 DEF CountItem
  <2> HIDE DEF y, x, w
  <2> QED BY <2>2, <2>3
<1>4. s \in Nat
  <2>1. t.size \in Nat /\ ScalarLen(Field, Item) \in Nat
    BY <1>1, InField, SizeTypes
  <2> HIDE DEF t
  <2> QED BY <2>1
<1>5. Made(t, t, 0, t.pos, t.item, "count", t.size, t.mark)
  <2>1. 0 \in Nat
    OBVIOUS
  <2> HIDE DEF t
  <2> QED BY <1>2, <2>1, MadeWrote
<1>6. w \in Frame /\ Made(w, t, 0, t.pos, t.item, "count", s, t.mark)
  <2> HIDE DEF s
  <2>1. w \in Frame
    BY <1>2, <1>4 DEF Frame
  <2> HIDE DEF t
  <2> QED BY <1>2, <1>5, <2>1, Remade
<1>7. /\ Made(x, t, 0, t.pos, i, "count", s, t.mark)
      /\ Made(y, t, 0, t.pos, 1, "len", s, t.mark)
  <2> HIDE DEF s, i, w, t
  <2>1. Made(x, t, 0, t.pos, i, "count", s, t.mark)
    BY <1>6, Remade
  <2>2. Made(y, t, 0, t.pos, 1, "len", s, t.mark)
    BY <1>6, Remade
  <2> QED BY <2>1, <2>2
<1>8. (Goto(x) => Lands(x, depth)) /\ (Goto(y) => Lands(y, depth))
  BY DEF Goto, Lands
<1> HIDE DEF x, y
<1> QED BY <1>1, <1>3, <1>7, <1>8

\* What a length leaves: a string, a counted submessage or a call into a substream.
LEMMA LengthEffect ==
    ASSUME IInv, PutLength
    PROVE  /\ Chunk \in Nat /\ Chunk = VarintLen(Top.size)
           /\ Top.phase = "len" /\ Room(Top, Chunk) /\ ret = "none"
           /\ \E y, k :
                 /\ k = (IF Top.sizing THEN Top.state ELSE Top.state + Chunk)
                 /\ \/ /\ ~ Whole(Field) \/ Top.sizing
                       /\ Lands(y, depth) /\ ret' = ret
                       /\ Made(y, Top, Chunk, Top.pos, Top.item, "body", Top.size, k)
                    \/ /\ Whole(Field) /\ ~ Top.sizing
                       /\ depth' = depth + 1 /\ depth < MaxDepth /\ ret' = ret
                       /\ frames' = [frames EXCEPT ![depth] = y,
                                                   ![depth + 1] = Writer(Item, Top.size, k)]
                       /\ Made(y, Top, Chunk, Top.pos, Top.item, "inside", Top.size, k)
                    \/ /\ Whole(Field) /\ ~ Top.sizing
                       /\ ~ (Top.written + Chunk + Top.size <= Top.max)
                       /\ Lands(y, depth) /\ ret' = "fail"
                       /\ Made(y, Top, Chunk, Top.pos, Top.item, "len", Top.size, k)
<1>1. Top.phase = "len" /\ Top.phase # "field" /\ Room(Top, Chunk) /\ ret = "none"
  BY DEF PutLength, Running
<1>2. Chunk \in Nat /\ Chunk = VarintLen(Top.size)
  BY <1>1, ChunkType DEF Writing, Chunk
<1> DEFINE t == Top
           w == Wrote(Top, Chunk)
           k == w.state
           fr == [w EXCEPT !.mark = k]
           x == [fr EXCEPT !.phase = "body"]
           y == [fr EXCEPT !.phase = "inside"]
<1>3. w \in Frame /\ Made(w, t, Chunk, t.pos, t.item, "len", t.size, t.mark)
  BY <1>1, <1>2, TopType, MadeWrote
<1>4. k = (IF t.sizing THEN t.state ELSE t.state + Chunk) /\ k \in Nat
  <2> HIDE DEF t, w
  <2> QED BY <1>3 DEF Made, Frame
<1>5. fr \in Frame /\ Made(fr, t, Chunk, t.pos, t.item, "len", t.size, k)
  <2> HIDE DEF k, w, t
  <2>1. Made(fr, t, Chunk, t.pos, t.item, "len", t.size, k)
    BY <1>3, Remade
  <2>2. fr \in Frame
    BY <1>3, <1>4 DEF Frame
  <2> QED BY <2>1, <2>2
<1>6. /\ Made(x, t, Chunk, t.pos, t.item, "body", t.size, k)
      /\ Made(y, t, Chunk, t.pos, t.item, "inside", t.size, k)
  <2> HIDE DEF k, t, fr
  <2> QED BY <1>5, Remade
<1>7. fr.size = t.size /\ fr.state = k /\ fr.sizing = t.sizing /\ fr.max = t.max
      /\ fr.written = t.written + Chunk
  <2> HIDE DEF fr, k, w, t
  <2>1. fr.state = k
    BY <1>5, <1>4 DEF Made
  <2> QED BY <1>5, <2>1 DEF Made
<1>8. fr = [Wrote(Top, Chunk) EXCEPT !.mark = Wrote(Top, Chunk).state]
  OBVIOUS
<1>9. \/ /\ ~ Whole(Field) \/ Top.sizing
         /\ Goto(x)
      \/ Whole(Field) /\ ~ Top.sizing /\ Push(Writer(Item, fr.size, fr.state), y)
      \/ /\ Whole(Field) /\ ~ Top.sizing /\ ~ Room(fr, fr.size)
         /\ frames' = [frames EXCEPT ![depth] = fr] /\ ret' = "fail" /\ depth' = depth
  <2> HIDE DEF fr
  <2> QED BY <1>8 DEF PutLength
<1> HIDE DEF x, y, fr, k, w
<1>10. CASE (~ Whole(Field) \/ Top.sizing) /\ Goto(x)
  <2>1. Lands(x, depth) /\ ret' = ret
    BY <1>10 DEF Goto, Lands
  <2> QED BY <1>1, <1>2, <1>4, <1>6, <1>10, <2>1
<1>11. CASE Whole(Field) /\ ~ Top.sizing /\ Push(Writer(Item, fr.size, fr.state), y)
  <2>1. /\ depth' = depth + 1 /\ depth < MaxDepth /\ ret' = ret
        /\ frames' = [frames EXCEPT ![depth] = y, ![depth + 1] = Writer(Item, Top.size, k)]
    BY <1>7, <1>11 DEF Push
  <2> QED BY <1>1, <1>2, <1>4, <1>6, <1>11, <2>1
<1>12. CASE /\ Whole(Field) /\ ~ Top.sizing /\ ~ Room(fr, fr.size)
            /\ frames' = [frames EXCEPT ![depth] = fr] /\ ret' = "fail" /\ depth' = depth
  <2>1. Lands(fr, depth)
    BY <1>12 DEF Lands
  <2>2. ~ (t.written + Chunk + t.size <= t.max)
    <3> HIDE DEF t
    <3> QED BY <1>7, <1>12 DEF Room
  <2> QED BY <1>1, <1>2, <1>4, <1>5, <1>12, <2>1, <2>2
<1> QED BY <1>9, <1>10, <1>11, <1>12

\* What a value leaves, and the length it completes.
LEMMA BodyEffect ==
    ASSUME IInv, PutBody
    PROVE  /\ Chunk \in Nat /\ Top.phase = "body" /\ Room(Top, Chunk) /\ ret' = ret
           /\ whole' = (IF Text(Field) \/ (Packed(Field) /\ Top.item = Len(Field.items))
                        THEN IF Top.sizing THEN whole
                             ELSE whole \cup {[prefix |-> Top.size,
                                               body |-> (Top.state + Chunk) - Top.mark]}
                        ELSE whole)
           /\ \E y :
                 /\ Lands(y, depth)
                 /\ \/ /\ (Packed(Field) /\ Top.sizing) \/ ~ (Top.item < Len(Field.items))
                       /\ Made(y, Top, Chunk, Top.pos + 1, 1, "field", Top.size, Top.mark)
                    \/ /\ ~ (Packed(Field) /\ Top.sizing) /\ Top.item < Len(Field.items)
                       /\ Made(y, Top, Chunk, Top.pos, Top.item + 1,
                               IF Packed(Field) THEN "body" ELSE "tag", Top.size, Top.mark)
<1>1. Top.phase = "body" /\ Top.phase # "field" /\ Room(Top, Chunk) /\ ret' = ret
  BY DEF PutBody, Running, Goto
<1>2. Chunk \in Nat
  BY <1>1, ChunkType DEF Writing
<1> DEFINE t == Top
           w == Wrote(Top, Chunk)
           i == t.item + 1
           ph == IF Packed(Field) THEN "body" ELSE "tag"
           x == NextField(w)
           y == [w EXCEPT !.item = i, !.phase = ph]
<1>3. w \in Frame /\ Made(w, t, Chunk, t.pos, t.item, t.phase, t.size, t.mark)
  BY <1>2, TopType, MadeWrote
<1>4. /\ Made(x, t, Chunk, t.pos + 1, 1, "field", t.size, t.mark)
      /\ Made(y, t, Chunk, t.pos, i, ph, t.size, t.mark)
  <2> HIDE DEF w, t, i, ph
  <2> QED BY <1>3, Remade
<1>5. w.item = t.item /\ w.size = t.size /\ w.mark = t.mark /\ w.sizing = t.sizing
      /\ (~ t.sizing => w.state = t.state + Chunk)
  <2> HIDE DEF w, t
  <2> QED BY <1>3 DEF Made
<1>6. NextItem(w) = IF t.item < Len(Field.items) THEN y ELSE x
  BY <1>5 DEF NextItem
<1>7. whole' = (IF Text(Field) \/ (Packed(Field) /\ t.item = Len(Field.items))
                        THEN IF t.sizing THEN whole
                             ELSE whole \cup {[prefix |-> t.size,
                                               body |-> (t.state + Chunk) - t.mark]}
                        ELSE whole)
  <2>1. whole' = IF Text(Field) \/ (Packed(Field) /\ Top.item = Len(Field.items))
                 THEN Complete(w) ELSE whole
    BY DEF PutBody, Text
  <2>2. Complete(w) = IF t.sizing THEN whole
                     ELSE whole \cup {[prefix |-> t.size, body |-> (t.state + Chunk) - t.mark]}
    <3>1. CASE t.sizing
      <4> HIDE DEF w, t
      <4> QED BY <1>5, <3>1 DEF Complete
    <3>2. CASE ~ t.sizing
      <4> HIDE DEF w, t
      <4>1. w.size = t.size /\ w.mark = t.mark /\ w.sizing = t.sizing
        BY <1>5
      <4>2. w.state = t.state + Chunk
        BY <1>5, <3>2
      <4>3. ~ w.sizing
        BY <3>2, <4>1
      <4> QED BY <3>2, <4>1, <4>2, <4>3 DEF Complete
    <3> QED BY <3>1, <3>2
  <2> QED BY <2>1, <2>2
<1>8. Goto(IF Packed(Field) /\ t.sizing THEN x ELSE NextItem(w))
  BY DEF PutBody
<1>9. (Goto(x) => Lands(x, depth)) /\ (Goto(y) => Lands(y, depth))
  BY DEF Goto, Lands
<1> HIDE DEF x, y, w
<1>10. CASE (Packed(Field) /\ t.sizing) \/ ~ (t.item < Len(Field.items))
  <2>1. Goto(x)
    BY <1>6, <1>8, <1>10
  <2> QED BY <1>1, <1>2, <1>4, <1>7, <1>9, <1>10, <2>1
<1>11. CASE ~ (Packed(Field) /\ t.sizing) /\ t.item < Len(Field.items)
  <2>1. Goto(y)
    BY <1>6, <1>8, <1>11
  <2> QED BY <1>1, <1>2, <1>4, <1>7, <1>9, <1>11, <2>1
<1> QED BY <1>10, <1>11

\* What the return of a nested call leaves of the one it was made from.
LEMMA MeasuredEffect ==
    ASSUME IInv, Measured
    PROVE  /\ depth > 1 /\ Parent.phase = "measure" /\ ret # "none"
           /\ \/ /\ ret = "ok" /\ ret' = "none"
                 /\ \E y : /\ Lands(y, depth - 1)
                           /\ Made(y, Parent, 0, Parent.pos, Parent.item, "len",
                                   Top.written, Parent.mark)
              \/ ret = "fail" /\ ret' = "fail" /\ Lands(Parent, depth - 1)
<1>1. depth > 1 /\ Parent.phase = "measure" /\ ret # "none" /\ ret \in {"none", "ok", "fail"}
  BY DEF Measured, Returning, IInv, TypeOK
<1> DEFINE p == Parent
           n == Top.written
           y == [p EXCEPT !.size = n, !.phase = "len"]
<1>2. p \in Frame
  BY <1>1, ParentType
<1>3. \/ ret = "ok" /\ ret' = "none" /\ Lands(y, depth - 1)
      \/ ret = "fail" /\ ret' = "fail" /\ Lands(p, depth - 1)
  BY <1>1 DEF Measured, Pop, Lands
<1>4. Made(y, p, 0, p.pos, p.item, "len", n, p.mark)
  <2>1. 0 \in Nat
    OBVIOUS
  <2> HIDE DEF p, n
  <2>2. Made(p, p, 0, p.pos, p.item, p.phase, p.size, p.mark)
    BY <1>2, <2>1, MadeWrote
  <2> QED BY <1>2, <2>2, Remade
<1> HIDE DEF y
<1> QED BY <1>1, <1>3, <1>4

\* What a submessage leaves: its bytes are the parent's, and its length is complete.
LEMMA EncodedEffect ==
    ASSUME IInv, Encoded
    PROVE  /\ depth > 1 /\ Parent.phase = "inside" /\ ret # "none"
           /\ \/ /\ Top.written # Parent.size \/ ret = "fail"
                 /\ ret' = "fail" /\ whole' = whole
                 /\ \E y : Lands(y, depth - 1)
              \/ /\ Top.written = Parent.size /\ ret = "ok" /\ ret' = "none"
                 /\ whole' = whole \cup {[prefix |-> Parent.size,
                                          body |-> (Parent.state + Parent.size) - Parent.mark]}
                 /\ \E y :
                       /\ Lands(y, depth - 1)
                       /\ \/ /\ Parent.item < Len(Msg[Parent.msg][Parent.pos].items)
                             /\ Made(y, Parent, Parent.size, Parent.pos, Parent.item + 1,
                                     "tag", Parent.size, Parent.mark)
                          \/ /\ ~ (Parent.item < Len(Msg[Parent.msg][Parent.pos].items))
                             /\ Made(y, Parent, Parent.size, Parent.pos + 1, 1, "field",
                                     Parent.size, Parent.mark)
<1>1. depth > 1 /\ Parent.phase = "inside" /\ ret # "none" /\ ret \in {"none", "ok", "fail"}
  BY DEF Encoded, Returning, IInv, TypeOK
<1> DEFINE p == Parent
           n == Top.written
           a == Top.state
           fr == [p EXCEPT !.written = p.written + n, !.state = a]
           f == Msg[p.msg][p.pos]
           i == p.item + 1
           x == [fr EXCEPT !.item = i, !.phase = "tag"]
           y == NextField(fr)
<1>2. p \in Frame /\ Link(p, Top) /\ Top \in Frame /\ n \in Nat /\ a \in Nat /\ ~ p.sizing
  BY <1>1, ParentType DEF Link, Frame
<1>3. a = p.state + n /\ p.written \in Nat /\ p.state \in Nat /\ p.size \in Nat
  <2>1. a = p.state + n
    BY <1>1, <1>2 DEF Link
  <2> HIDE DEF p, n, a
  <2> QED BY <1>2, <2>1 DEF Frame
<1>4. fr \in Frame /\ Made(fr, p, n, p.pos, p.item, p.phase, p.size, p.mark)
  <2> DEFINE u == p.written + n
  <2>1. u \in Nat /\ fr = [p EXCEPT !.written = u, !.state = a]
    BY <1>2, <1>3
  <2> HIDE DEF n, a, u, fr, p
  <2>2. /\ fr \in Frame /\ fr.written = u /\ fr.state = a
        /\ fr.msg = p.msg /\ fr.sizing = p.sizing /\ fr.max = p.max
        /\ fr.pos = p.pos /\ fr.item = p.item /\ fr.phase = p.phase
        /\ fr.size = p.size /\ fr.mark = p.mark
    BY <1>2, <2>1 DEF Frame
  <2> QED BY <1>2, <1>3, <2>2 DEF Made, u
<1>5. /\ Made(x, p, n, p.pos, i, "tag", p.size, p.mark)
      /\ Made(y, p, n, p.pos + 1, 1, "field", p.size, p.mark)
  <2> HIDE DEF fr, p, n, a, i
  <2> QED BY <1>4, Remade
<1>6. /\ fr.msg = p.msg /\ fr.pos = p.pos /\ fr.item = p.item /\ fr.sizing = p.sizing
      /\ fr.size = p.size /\ fr.state = p.state + n /\ fr.mark = p.mark
  <2> HIDE DEF fr, p, n, a
  <2> QED BY <1>2, <1>4 DEF Made
<1>7. Complete(fr) = whole \cup {[prefix |-> p.size, body |-> (p.state + n) - p.mark]}
  <2> HIDE DEF fr, p, n, a
  <2> QED BY <1>2, <1>6 DEF Complete
<1>8. \/ /\ n # p.size \/ ret = "fail"
         /\ ret' = "fail" /\ whole' = whole /\ Lands(fr, depth - 1)
      \/ /\ n = p.size /\ ret # "fail" /\ ret' = "none" /\ whole' = Complete(fr)
         /\ Lands(IF fr.item < Len(Msg[fr.msg][fr.pos].items)
                  THEN [fr EXCEPT !.item = @ + 1, !.phase = "tag"] ELSE y, depth - 1)
  BY DEF Encoded, Pop, Lands
<1>9. [fr EXCEPT !.item = @ + 1, !.phase = "tag"] = x
  BY <1>4, <1>6 DEF Frame
<1> HIDE DEF fr, x, y, n, a
<1>10. CASE /\ n # p.size \/ ret = "fail"
            /\ ret' = "fail" /\ whole' = whole /\ Lands(fr, depth - 1)
  BY <1>1, <1>10 DEF n
<1>11. CASE /\ n = p.size /\ ret # "fail" /\ ret' = "none" /\ whole' = Complete(fr)
            /\ Lands(IF fr.item < Len(Msg[fr.msg][fr.pos].items)
                     THEN [fr EXCEPT !.item = @ + 1, !.phase = "tag"] ELSE y, depth - 1)
  <2>1. Lands(IF p.item < Len(f.items) THEN x ELSE y, depth - 1)
    BY <1>6, <1>9, <1>11
  <2>2. Top.written = p.size /\ ret = "ok"
    BY <1>1, <1>11 DEF n
  <2>3. whole' = whole \cup {[prefix |-> p.size, body |-> (p.state + p.size) - p.mark]}
    BY <1>7, <1>11
  <2>4. /\ Made(x, p, p.size, p.pos, p.item + 1, "tag", p.size, p.mark)
        /\ Made(y, p, p.size, p.pos + 1, 1, "field", p.size, p.mark)
    BY <1>5, <1>11
  <2>5. CASE p.item < Len(f.items)
    BY <1>1, <1>11, <2>1, <2>2, <2>3, <2>4, <2>5
  <2>6. CASE ~ (p.item < Len(f.items))
    BY <1>1, <1>11, <2>1, <2>2, <2>3, <2>4, <2>6
  <2> QED BY <2>5, <2>6
<1> QED BY <1>8, <1>10, <1>11

\* What the zero of pb_encode_nullterminated leaves.
LEMMA TerminateEffect ==
    ASSUME IInv, Terminate
    PROVE  /\ depth = 1 /\ ret = "ok" /\ whole' = whole
           /\ \/ ret' = "fail" /\ UNCHANGED <<frames, depth>>
              \/ /\ ret' = ret
                 /\ \E y : /\ Lands(y, depth)
                           /\ Made(y, Top, 1, Top.pos, Top.item, Top.phase, Top.size, Top.mark)
<1>1. depth = 1 /\ depth' = depth /\ ret = "ok" /\ whole' = whole
  BY DEF Terminate, Over
<1>2. CASE ret' = "fail" /\ UNCHANGED frames
  BY <1>1, <1>2
<1>3. CASE frames' = [frames EXCEPT ![1] = Wrote(Top, 1)] /\ ret' = ret
  <2> DEFINE t == Top
             y == Wrote(t, 1)
  <2>1. t \in Frame /\ 1 \in Nat
    BY TopType
  <2>2. Made(y, t, 1, t.pos, t.item, t.phase, t.size, t.mark)
    <3> HIDE DEF t
    <3> QED BY <2>1, MadeWrote
  <2>3. Lands(y, depth)
    BY <1>1, <1>3 DEF Lands
  <2> HIDE DEF y
  <2> QED BY <1>1, <1>3, <2>2, <2>3
<1> QED BY <1>2, <1>3 DEF Terminate

\* What a new call of the user's starts with.
LEMMA EntryEffect ==
    ASSUME IInv, Fresh \/ EncodeMeasured \/ Finished
    PROVE  /\ depth' = 1 /\ whole' = {} /\ ret' = "none"
           /\ \E m \in Messages, n \in Nat, s \in BOOLEAN :
                 /\ frames'[1] = NewFrame(m, s, n, 0)
                 /\ frames' \in [1 .. MaxDepth -> {NewFrame(m, s, n, 0)}]
<1>1. 1 \in 1 .. MaxDepth
  BY MessageAssumption
<1>2. ASSUME NEW m \in Messages, NEW n \in Nat, NEW s \in BOOLEAN,
             frames' = [d \in 1 .. MaxDepth |-> NewFrame(m, s, n, 0)]
      PROVE  \E k \in Messages, j \in Nat, z \in BOOLEAN :
                /\ frames'[1] = NewFrame(k, z, j, 0)
                /\ frames' \in [1 .. MaxDepth -> {NewFrame(k, z, j, 0)}]
  BY <1>1, <1>2
<1>3. ASSUME NEW m \in Roots, GetSize(m)
      PROVE  /\ depth' = 1 /\ whole' = {} /\ ret' = "none"
             /\ frames' = [d \in 1 .. MaxDepth |-> NewFrame(m, TRUE, 0, 0)]
  BY <1>3 DEF GetSize, Start, Counting
<1>4. ASSUME NEW m \in Roots, NEW n \in BufSizes, NEW c, Encode(m, c, n)
      PROVE  /\ depth' = 1 /\ whole' = {} /\ ret' = "none"
             /\ frames' = [d \in 1 .. MaxDepth |-> NewFrame(m, FALSE, n, 0)]
  BY <1>4 DEF Encode, Start, Writer
<1>5. CASE EncodeMeasured
  <2>1. root \in Messages /\ sized \in Nat /\ FALSE \in BOOLEAN
    BY DEF IInv, TypeOK
  <2>2. /\ depth' = 1 /\ whole' = {} /\ ret' = "none"
        /\ frames' = [d \in 1 .. MaxDepth |-> NewFrame(root, FALSE, sized, 0)]
    BY <1>5 DEF EncodeMeasured, Start, Writer
  <2> QED BY <1>2, <2>1, <2>2
<1>6. CASE Finished
  <2>1. root \in Messages /\ 0 \in Nat /\ TRUE \in BOOLEAN
    BY DEF IInv, TypeOK
  <2>2. /\ depth' = 1 /\ whole' = {} /\ ret' = "none"
        /\ frames' = [d \in 1 .. MaxDepth |-> NewFrame(root, TRUE, 0, 0)]
    BY <1>6 DEF Finished, Over, Counting
  <2> QED BY <1>2, <2>1, <2>2
<1>7. CASE Fresh
  <2>1. CASE \E m \in Roots : GetSize(m)
    <3>1. PICK m \in Roots : GetSize(m)
      BY <2>1
    <3>2. m \in Messages /\ 0 \in Nat /\ TRUE \in BOOLEAN
      BY MessageAssumption
    <3> QED BY <1>2, <1>3, <3>1, <3>2
  <2>2. CASE \E m \in Roots, n \in BufSizes, c \in {"encode", "terminate"} : Encode(m, c, n)
    <3>1. PICK m \in Roots, n \in BufSizes, c \in {"encode", "terminate"} : Encode(m, c, n)
      BY <2>2
    <3>2. m \in Messages /\ n \in Nat /\ FALSE \in BOOLEAN
      BY MessageAssumption
    <3> QED BY <1>2, <1>4, <3>1, <3>2
  <2> QED BY <1>7, <2>1, <2>2 DEF Fresh
<1> QED BY <1>5, <1>6, <1>7

-----------------------------------------------------------------------------
(* The length in front of a field, from its first pass to its last byte. *)

\* The numbers of a fixed width take as many times that width.
LEMMA FixedSums ==
    ASSUME NEW f, Proper(f), f.type = "fixed"
    PROVE  PackedSums(f)[Len(f.items)] = f.width * Len(f.items)
<1> DEFINE g == PackedSums(f)
           n == Len(f.items)
           w == f.width
           T == {k \in 0 .. n : g[k] # w * k}
<1>1. /\ g \in [0 .. n -> Nat] /\ g[0] = 0
      /\ \A k \in 1 .. n : g[k] = g[k - 1] + w
      /\ n \in Nat /\ w \in Nat
  <2>1. n \in Nat /\ w \in Nat
    BY DEF Proper
  <2>2. \A x : ScalarLen(f, x) = w
    BY DEF ScalarLen
  <2> QED BY <2>1, <2>2, PackedTotals
<1> HIDE DEF g, n, w
<1>2. ASSUME T # {} PROVE FALSE
  <2>1. T \in SUBSET Nat
    OBVIOUS
  <2>2. PICK k \in T : \A m \in T : k <= m
    BY <1>2, <2>1, LeastNumber
  <2>3. k \in Nat /\ k <= n /\ g[k] # w * k
    BY <1>1, <2>2
  <2>4. k # 0
    <3>1. w * 0 = 0
      BY <1>1
    <3> QED BY <1>1, <2>3, <3>1
  <2>5. k - 1 \in 0 .. n /\ k \in 1 .. n /\ ~ (k <= k - 1)
    BY <1>1, <2>3, <2>4
  <2>6. g[k - 1] = w * (k - 1)
    BY <2>2, <2>5
  <2>7. w * (k - 1) + w = w * k
    BY <1>1, <2>3
  <2> QED BY <1>1, <2>3, <2>5, <2>6, <2>7
<1>3. n \in 0 .. n
  BY <1>1
<1> QED BY <1>2, <1>3 DEF g, n, w

At(fr) == Msg[fr.msg][fr.pos]

\* size is the length of what follows it, as far as the frame has found it, and
\* mark is where the bytes behind it begin.
Measures(fr) ==
    /\ fr.phase \in {"tag", "len"} /\ Packed(At(fr)) => fr.item = 1
    /\ fr.phase = "count" =>
          Packed(At(fr)) /\ fr.size = PackedSums(At(fr))[fr.item - 1]
    /\ fr.phase \in {"len", "body"} =>
          /\ Packed(At(fr)) => fr.size = PackedSums(At(fr))[Len(At(fr).items)]
          /\ Text(At(fr)) => fr.size = TextLen(At(fr), At(fr).items[fr.item])
    /\ fr.phase = "body" /\ ~ fr.sizing =>
          /\ Packed(At(fr)) => fr.state - fr.mark = PackedSums(At(fr))[fr.item - 1]
          /\ Text(At(fr)) => fr.mark = fr.state
    /\ fr.phase = "inside" => fr.mark = fr.state
    /\ fr.phase = "len" => Whole(At(fr)) \/ Text(At(fr)) \/ Packed(At(fr))

\* A stream that failed is not asked again.
MeasuresInv ==
    /\ \A d \in 1 .. depth : (d = depth => ret # "fail") => Measures(frames[d])
    /\ ret = "ok" => Top.phase = "field"

\* A frame inside a field is at a proper one.
LEMMA AtProper ==
    ASSUME NEW t \in Frame, InRange(t), t.phase # "field"
    PROVE  /\ Proper(At(t)) /\ t.item \in 1 .. Len(At(t).items)
           /\ At(t).items \in Seq(Nat) /\ Len(At(t).items) \in Nat /\ t.item \in Nat
           /\ t.pos \in 1 .. Len(Msg[t.msg]) /\ t.msg \in Messages
           /\ t.size \in Nat /\ t.state \in Nat /\ t.mark \in Nat /\ t.written \in Nat
           /\ t.max \in Nat /\ t.sizing \in BOOLEAN
<1>1. t.msg \in Messages /\ t.pos \in 1 .. Len(Msg[t.msg])
  BY DEF Frame, InRange
<1>2. Proper(At(t))
  BY <1>1, FieldsProper DEF At
<1>3. t.item \in 1 .. Len(At(t).items)
  BY DEF InRange, At
<1>4. At(t).items \in Seq(Nat)
  BY <1>2 DEF Proper
<1> QED BY <1>1, <1>2, <1>3, <1>4 DEF Frame

\* Only one kind of field has the phases of its kind.
LEMMA Kinds ==
    ASSUME NEW f
    PROVE  /\ Text(f) => ~ Packed(f) /\ ~ Whole(f)
           /\ Whole(f) => ~ Packed(f) /\ ~ Text(f)
           /\ Packed(f) => ~ Whole(f) /\ ~ Text(f)
           /\ f.type \in {"varint", "fixed"} => ~ Whole(f) /\ ~ Text(f)
  BY DEF Text, Packed, Whole

\* A tag leads to a length that is right.
LEMMA TagMeasures ==
    ASSUME NEW t \in Frame, InRange(t), Measures(t), t.phase = "tag",
           NEW f, f = At(t), NEW n, NEW y, NEW ph, NEW s,
           Made(y, t, n, t.pos, t.item, ph, s, t.mark),
           \/ Packed(f) /\ f.type = "varint" /\ ph = "count" /\ s = 0
           \/ Packed(f) /\ f.type = "fixed" /\ ph = "len" /\ s = f.width * Len(f.items)
           \/ ~ Packed(f) /\ f.type \in {"varint", "fixed"} /\ ph = "body"
           \/ Text(f) /\ ph = "len" /\ s = TextLen(f, f.items[t.item])
           \/ Whole(f) /\ ph = "measure"
    PROVE  Measures(y)
<1>1. t.phase # "field"
  OBVIOUS
<1>2. Proper(f) /\ t.item \in 1 .. Len(f.items)
  BY <1>1, AtProper
<1>3. At(y) = f /\ y.item = t.item /\ y.phase = ph /\ y.size = s
  BY DEF Made, At
<1>4. CASE Packed(f) /\ f.type = "varint" /\ ph = "count" /\ s = 0
  <2>1. t.item = 1
    BY <1>4 DEF Measures
  <2>2. PackedSums(f)[t.item - 1] = 0
    BY <1>2, <2>1, PackedTotals
  <2> QED BY <1>3, <1>4, <2>1, <2>2 DEF Measures
<1>5. CASE Packed(f) /\ f.type = "fixed" /\ ph = "len" /\ s = f.width * Len(f.items)
  <2>1. t.item = 1
    BY <1>5 DEF Measures
  <2>2. PackedSums(f)[Len(f.items)] = s
    BY <1>2, <1>5, FixedSums
  <2> QED BY <1>3, <1>5, <2>1, <2>2, Kinds DEF Measures
<1>6. CASE ~ Packed(f) /\ f.type \in {"varint", "fixed"} /\ ph = "body"
  BY <1>3, <1>6, Kinds DEF Measures
<1>7. CASE Text(f) /\ ph = "len" /\ s = TextLen(f, f.items[t.item])
  BY <1>3, <1>7, Kinds DEF Measures
<1>8. CASE Whole(f) /\ ph = "measure"
  BY <1>3, <1>8 DEF Measures
<1> QED BY <1>4, <1>5, <1>6, <1>7, <1>8

\* The sizing pass adds the next item.
LEMMA CountMeasures ==
    ASSUME NEW t \in Frame, InRange(t), Measures(t), t.phase = "count",
           NEW f, f = At(t), NEW y,
           \/ /\ t.item < Len(f.items)
              /\ Made(y, t, 0, t.pos, t.item + 1, "count",
                      t.size + ScalarLen(f, f.items[t.item]), t.mark)
           \/ /\ ~ (t.item < Len(f.items))
              /\ Made(y, t, 0, t.pos, 1, "len",
                      t.size + ScalarLen(f, f.items[t.item]), t.mark)
    PROVE  Measures(y)
<1>1. t.phase # "field"
  OBVIOUS
<1>2. Proper(f) /\ t.item \in 1 .. Len(f.items) /\ Len(f.items) \in Nat /\ t.item \in Nat
  BY <1>1, AtProper
<1>3. Packed(f) /\ t.size = PackedSums(f)[t.item - 1]
  BY DEF Measures
<1>4. PackedSums(f)[t.item] = t.size + ScalarLen(f, f.items[t.item])
  BY <1>2, <1>3, PackedTotals
<1>5. CASE /\ t.item < Len(f.items)
           /\ Made(y, t, 0, t.pos, t.item + 1, "count",
                      t.size + ScalarLen(f, f.items[t.item]), t.mark)
  <2>1. /\ At(y) = f /\ y.item = t.item + 1 /\ y.phase = "count"
        /\ y.size = PackedSums(f)[t.item]
    BY <1>4, <1>5 DEF Made, At
  <2>2. y.item - 1 = t.item
    BY <1>2, <2>1
  <2> QED BY <1>3, <2>1, <2>2 DEF Measures
<1>6. CASE /\ ~ (t.item < Len(f.items))
           /\ Made(y, t, 0, t.pos, 1, "len",
                      t.size + ScalarLen(f, f.items[t.item]), t.mark)
  <2>1. At(y) = f /\ y.item = 1 /\ y.phase = "len" /\ y.size = PackedSums(f)[t.item]
    BY <1>4, <1>6 DEF Made, At
  <2>2. t.item = Len(f.items)
    BY <1>2, <1>6
  <2> QED BY <1>3, <2>1, <2>2, Kinds DEF Measures
<1> QED BY <1>5, <1>6

\* Behind a length nothing is put yet.
LEMMA LengthMeasures ==
    ASSUME NEW t \in Frame, InRange(t), Measures(t), t.phase = "len",
           NEW n \in Nat, NEW y, NEW k, NEW ph \in {"body", "inside"},
           k = (IF t.sizing THEN t.state ELSE t.state + n),
           Made(y, t, n, t.pos, t.item, ph, t.size, k)
    PROVE  Measures(y)
<1> DEFINE f == At(t)
<1>1. t.phase # "field"
  OBVIOUS
<1>2. Proper(f) /\ t.item \in 1 .. Len(f.items) /\ t.state \in Nat
  BY <1>1, AtProper
<1>3. /\ At(y) = f /\ y.item = t.item /\ y.phase = ph /\ y.size = t.size
      /\ y.mark = k /\ y.state = k
  BY DEF Made, At
<1> HIDE DEF f
<1>4. k \in Nat
  BY <1>2
<1>5. Packed(f) => t.item = 1 /\ PackedSums(f)[t.item - 1] = 0
  <2> SUFFICES ASSUME Packed(f) PROVE t.item = 1 /\ PackedSums(f)[t.item - 1] = 0
    OBVIOUS
  <2>1. t.item = 1
    BY DEF Measures, f
  <2> QED BY <1>2, <2>1, PackedTotals
<1>6. /\ Packed(f) => t.size = PackedSums(f)[Len(f.items)]
      /\ Text(f) => t.size = TextLen(f, f.items[t.item])
  BY DEF Measures, f
<1>7. y.state - y.mark = 0
  BY <1>3, <1>4
<1> QED BY <1>3, <1>5, <1>6, <1>7 DEF Measures

\* The values of an array go behind its length one by one.
LEMMA BodyMeasures ==
    ASSUME NEW t \in Frame, InRange(t), Measures(t), t.phase = "body",
           NEW f, f = At(t), NEW n \in Nat, NEW y,
           ~ (Packed(f) /\ t.sizing),
           Packed(f) => n = ScalarLen(f, f.items[t.item]),
           Made(y, t, n, t.pos, t.item + 1, IF Packed(f) THEN "body" ELSE "tag",
                t.size, t.mark)
    PROVE  Measures(y)
<1>1. t.phase # "field"
  OBVIOUS
<1>2. /\ Proper(f) /\ t.item \in 1 .. Len(f.items) /\ t.item \in Nat /\ t.state \in Nat
      /\ t.mark \in Nat
  BY <1>1, AtProper
<1>3. At(y) = f /\ y.item = t.item + 1 /\ y.phase = (IF Packed(f) THEN "body" ELSE "tag")
      /\ y.size = t.size /\ y.mark = t.mark /\ y.sizing = t.sizing
      /\ (~ t.sizing => y.state = t.state + n)
  BY DEF Made, At
<1>4. CASE ~ Packed(f)
  BY <1>3, <1>4 DEF Measures
<1>5. CASE Packed(f)
  <2>1. t.size = PackedSums(f)[Len(f.items)] /\ t.state - t.mark = PackedSums(f)[t.item - 1]
        /\ ~ t.sizing
    BY <1>5 DEF Measures
  <2>2. PackedSums(f)[t.item] = PackedSums(f)[t.item - 1] + n
    BY <1>2, <1>5, PackedTotals
  <2>3. y.state - y.mark = PackedSums(f)[y.item - 1]
    <3>1. y.item - 1 = t.item
      BY <1>2, <1>3
    <3>2. y.state - y.mark = (t.state - t.mark) + n
      BY <1>2, <1>3, <2>1
    <3> QED BY <2>1, <2>2, <3>1, <3>2
  <2> QED BY <1>3, <1>5, <2>1, <2>3, Kinds DEF Measures
<1> QED BY <1>4, <1>5

\* Between fields there is nothing to measure.
LEMMA FieldMeasures ==
    ASSUME NEW y, y.phase \in {"field", "measure"}
    PROVE  Measures(y)
  BY DEF Measures

\* A submessage is no array and no string.
LEMMA WholeMeasures ==
    ASSUME NEW y, Whole(At(y)), y.phase \in {"tag", "len", "measure"}
    PROVE  Measures(y)
  BY Kinds DEF Measures

\* A step that leaves a right frame on top keeps the lengths right.
LEMMA MeasuresLands ==
    ASSUME IInv, MeasuresInv, NEW e \in 1 .. depth, NEW y, Lands(y, e),
           ret' # "fail" => Measures(y), ret' = "ok" => y.phase = "field"
    PROVE  MeasuresInv'
<1>1. /\ frames'[e] = y /\ depth' = e /\ e \in Nat /\ depth \in Nat
      /\ \A d \in 1 .. depth : d # e => frames'[d] = frames[d]
  BY Placed DEF Lands
<1>2. ASSUME NEW d \in 1 .. e, d = e => ret' # "fail" PROVE Measures(frames'[d])
  <2>1. CASE d = e
    BY <1>1, <1>2, <2>1
  <2>2. CASE d # e
    <3>1. d \in 1 .. depth /\ d # depth
      BY <1>1, <2>2
    <3>2. Measures(frames[d])
      BY <3>1 DEF MeasuresInv
    <3> QED BY <1>1, <2>2, <3>1, <3>2
  <2> QED BY <2>1, <2>2
<1>3. Top' = y
  BY <1>1 DEF Top
<1> QED BY <1>1, <1>2, <1>3 DEF MeasuresInv

\* So does one that leaves the frames alone, when a running call returns or a
\* returned one stays.
LEMMA MeasuresStays ==
    ASSUME MeasuresInv, UNCHANGED <<frames, depth>>,
           ret' = "fail" \/ ret' = ret \/ (ret = "none" /\ Top.phase = "field")
    PROVE  MeasuresInv'
<1>1. Top' = Top
  BY DEF Top
<1>2. ret' = "ok" => Top.phase = "field"
  BY DEF MeasuresInv
<1>3. ASSUME NEW d \in 1 .. depth, d = depth => ret' # "fail" PROVE Measures(frames[d])
  BY <1>3 DEF MeasuresInv
<1> QED BY <1>1, <1>2, <1>3 DEF MeasuresInv

\* The running call, at its field.
LEMMA TopMeasures ==
    ASSUME IInv, MeasuresInv, ret # "fail"
    PROVE  /\ Top \in Frame /\ InRange(Top) /\ Measures(Top) /\ depth \in 1 .. depth
           /\ depth \in Nat /\ Field = At(Top) /\ Item = At(Top).items[Top.item]
<1>1. depth \in 1 .. depth /\ depth \in Nat
  BY TopType, MessageAssumption
<1> QED BY <1>1, TopType DEF MeasuresInv, Top, Field, Fields, Item, At

\* Returning keeps the lengths right.
LEMMA ReturnMeasures ==
    ASSUME MeasuresInv, EndOfMessage \/ MissingRequired \/ ArrayTooLong \/ CallbackFails
                              \/ StreamFull \/ SizeKnown
    PROVE  MeasuresInv'
<1>1. CASE EndOfMessage
  BY <1>1, MeasuresStays DEF EndOfMessage, Return, Running
<1>2. CASE MissingRequired \/ ArrayTooLong \/ CallbackFails \/ StreamFull
  <2>1. ret' = "fail" /\ UNCHANGED <<frames, depth>>
    BY <1>2 DEF MissingRequired, ArrayTooLong, CallbackFails, StreamFull, Return
  <2> QED BY <2>1, MeasuresStays
<1>3. CASE SizeKnown
  BY <1>3, MeasuresStays DEF SizeKnown
<1> QED BY <1>1, <1>2, <1>3

\* So do the steps that begin or skip a field.
LEMMA FieldStepMeasures ==
    ASSUME IInv, MeasuresInv, SkipField \/ BeginField \/ Callback
    PROVE  MeasuresInv'
<1>1. ret = "none" /\ Top.phase = "field"
  BY DEF SkipField, BeginField, Callback, AtField, Running
<1>2. Top \in Frame /\ InRange(Top) /\ depth \in 1 .. depth /\ Field = At(Top)
  BY <1>1, TopMeasures
<1>3. CASE SkipField
  <2>1. PICK y : /\ Lands(y, depth) /\ ret' = ret
                 /\ Made(y, Top, 0, Top.pos + 1, 1, "field", Top.size, Top.mark)
    BY <1>3, SkipEffect
  <2>2. y.phase = "field"
    BY <2>1 DEF Made
  <2> QED BY <1>1, <1>2, <2>1, <2>2, FieldMeasures, MeasuresLands
<1>4. CASE BeginField
  <2>1. PICK y : /\ Lands(y, depth) /\ ret' = ret
                 /\ Made(y, Top, 0, Top.pos, Top.item,
                         IF Field.type = "delimited" THEN "measure" ELSE "tag",
                         Top.size, Top.mark)
    BY <1>4, BeginEffect
  <2>2. /\ y.phase = (IF Field.type = "delimited" THEN "measure" ELSE "tag")
        /\ y.item = Top.item /\ Top.item = 1
    BY <1>1, <1>2, <2>1 DEF Made, InRange
  <2>3. Measures(y)
    BY <2>2 DEF Measures
  <2> QED BY <1>1, <1>2, <2>1, <2>3, MeasuresLands
<1>5. CASE Callback
  <2>1. PICK n \in Field.writes :
           \/ /\ ret' = ret
              /\ \E y : /\ Lands(y, depth)
                        /\ Made(y, Top, n, Top.pos + 1, 1, "field", Top.size, Top.mark)
           \/ ret' = "fail" /\ UNCHANGED <<frames, depth>>
    BY <1>5, CallbackEffect
  <2>2. CASE ret' = "fail" /\ UNCHANGED <<frames, depth>>
    BY <2>2, MeasuresStays
  <2>3. CASE /\ ret' = ret
             /\ \E y : /\ Lands(y, depth)
                       /\ Made(y, Top, n, Top.pos + 1, 1, "field", Top.size, Top.mark)
    <3>1. PICK y : /\ Lands(y, depth)
                   /\ Made(y, Top, n, Top.pos + 1, 1, "field", Top.size, Top.mark)
      BY <2>3
    <3>2. y.phase = "field"
      BY <3>1 DEF Made
    <3> QED BY <1>1, <1>2, <2>3, <3>1, <3>2, FieldMeasures, MeasuresLands
  <2> QED BY <2>1, <2>2, <2>3
<1> QED BY <1>3, <1>4, <1>5

\* A tag keeps the lengths right.
LEMMA TagStepMeasures ==
    ASSUME IInv, MeasuresInv, PutTag
    PROVE  MeasuresInv'
<1>1. PICK y, ph, s :
         /\ Lands(y, depth)
         /\ Made(y, Top, Chunk, Top.pos, Top.item, ph, s, Top.mark)
         /\ \/ /\ Packed(Field) /\ Field.type = "varint" /\ ph = "count" /\ s = 0
               /\ ret' = ret
            \/ /\ Packed(Field) /\ Field.type = "fixed" /\ ph = "len"
               /\ s = Field.width * Len(Field.items) /\ ret' = ret
            \/ /\ ~ Packed(Field) /\ Field.type \in {"varint", "fixed"} /\ ph = "body"
               /\ s = Top.size /\ ret' = ret
            \/ /\ Text(Field) /\ ~ Oversize(Field, Item) /\ ph = "len"
               /\ s = TextLen(Field, Item) /\ ret' = ret
            \/ Text(Field) /\ Oversize(Field, Item) /\ ret' = "fail"
            \/ Whole(Field) /\ ph = "measure" /\ s = Top.size /\ ret' = ret
  BY TagEffect
<1>2. Top.phase = "tag" /\ ret = "none"
  BY TagEffect
<1>3. /\ Top \in Frame /\ InRange(Top) /\ Measures(Top) /\ depth \in 1 .. depth
      /\ Field = At(Top) /\ Item = At(Top).items[Top.item]
  BY <1>2, TopMeasures
<1>4. CASE ret' = "fail"
  BY <1>1, <1>3, <1>4, MeasuresLands
<1>5. CASE ret' = ret
  <2>1. CASE Text(Field) /\ Oversize(Field, Item) /\ ret' = "fail"
    BY <1>4, <2>1
  <2>2. CASE ~ (Text(Field) /\ Oversize(Field, Item) /\ ret' = "fail")
    <3> DEFINE t == Top
               f == Field
    <3>1. \/ Packed(f) /\ f.type = "varint" /\ ph = "count" /\ s = 0
          \/ Packed(f) /\ f.type = "fixed" /\ ph = "len" /\ s = f.width * Len(f.items)
          \/ ~ Packed(f) /\ f.type \in {"varint", "fixed"} /\ ph = "body"
          \/ Text(f) /\ ph = "len" /\ s = TextLen(f, f.items[t.item])
          \/ Whole(f) /\ ph = "measure"
      BY <1>1, <1>3, <2>2
    <3>2. /\ t \in Frame /\ InRange(t) /\ Measures(t) /\ t.phase = "tag" /\ f = At(t)
          /\ Made(y, t, Chunk, t.pos, t.item, ph, s, t.mark)
      BY <1>1, <1>2, <1>3
    <3> HIDE DEF t, f
    <3>3. Measures(y)
      BY <3>1, <3>2, TagMeasures
    <3> QED BY <1>1, <1>2, <1>3, <1>5, <3>3, MeasuresLands
  <2> QED BY <2>1, <2>2
<1> QED BY <1>1, <1>4, <1>5

\* So does an item counted.
LEMMA CountStepMeasures ==
    ASSUME IInv, MeasuresInv, CountItem
    PROVE  MeasuresInv'
<1>1. ret = "none" /\ ret' = ret /\ Top.phase = "count"
  BY CountEffect DEF CountItem, Running
<1>2. /\ Top \in Frame /\ InRange(Top) /\ Measures(Top) /\ depth \in 1 .. depth
      /\ Field = At(Top) /\ Item = At(Top).items[Top.item]
  BY <1>1, TopMeasures
<1>3. PICK y : /\ Lands(y, depth)
               /\ \/ /\ Top.item < Len(Field.items)
                     /\ Made(y, Top, 0, Top.pos, Top.item + 1, "count",
                             Top.size + ScalarLen(Field, Item), Top.mark)
                  \/ /\ ~ (Top.item < Len(Field.items))
                     /\ Made(y, Top, 0, Top.pos, 1, "len",
                             Top.size + ScalarLen(Field, Item), Top.mark)
  BY CountEffect
<1>4. Measures(y)
  <2> DEFINE t == Top
             f == Field
  <2>1. /\ t \in Frame /\ InRange(t) /\ Measures(t) /\ t.phase = "count" /\ f = At(t)
        /\ \/ /\ t.item < Len(f.items)
              /\ Made(y, t, 0, t.pos, t.item + 1, "count",
                      t.size + ScalarLen(f, f.items[t.item]), t.mark)
           \/ /\ ~ (t.item < Len(f.items))
              /\ Made(y, t, 0, t.pos, 1, "len",
                      t.size + ScalarLen(f, f.items[t.item]), t.mark)
    BY <1>1, <1>2, <1>3
  <2> HIDE DEF t, f
  <2> QED BY <2>1, CountMeasures
<1> QED BY <1>1, <1>2, <1>3, <1>4, MeasuresLands

\* A nested call begins with nothing to measure.
LEMMA MeasuresNests ==
    ASSUME IInv, MeasuresInv, depth < MaxDepth, NEW p, Measures(p),
           NEW c, c.phase = "field", ret' # "ok",
           frames' = [frames EXCEPT ![depth] = p, ![depth + 1] = c], depth' = depth + 1
    PROVE  MeasuresInv'
<1>1. /\ frames \in [1 .. MaxDepth -> Frame] /\ depth \in 1 .. MaxDepth
      /\ MaxDepth \in Nat /\ depth + 1 \in 1 .. MaxDepth
  BY MessageAssumption DEF IInv, TypeOK
<1>2. /\ frames'[depth] = p /\ frames'[depth + 1] = c
      /\ \A d \in 1 .. depth - 1 : frames'[d] = frames[d]
  BY <1>1
<1>3. ASSUME NEW d \in 1 .. depth + 1 PROVE Measures(frames'[d])
  <2>1. CASE d = depth + 1
    BY <1>2, <2>1, FieldMeasures
  <2>2. CASE d = depth
    BY <1>2, <2>2
  <2>3. CASE d \in 1 .. depth - 1
    <3>1. d \in 1 .. depth /\ d # depth
      BY <1>1, <2>3
    <3> QED BY <1>2, <2>3, <3>1 DEF MeasuresInv
  <2> QED BY <1>1, <2>1, <2>2, <2>3
<1>4. \A d \in 1 .. depth' : (d = depth' => ret' # "fail") => Measures(frames'[d])
  BY <1>3
<1> QED BY <1>4 DEF MeasuresInv

\* A length keeps the lengths right.
LEMMA LengthStepMeasures ==
    ASSUME IInv, MeasuresInv, PutLength
    PROVE  MeasuresInv'
<1>1. Top.phase = "len" /\ ret = "none" /\ Chunk \in Nat
  BY LengthEffect
<1>2. /\ Top \in Frame /\ InRange(Top) /\ Measures(Top) /\ depth \in 1 .. depth
      /\ Field = At(Top)
  BY <1>1, TopMeasures
<1>3. PICK y, k :
         /\ k = (IF Top.sizing THEN Top.state ELSE Top.state + Chunk)
         /\ \/ /\ Lands(y, depth) /\ ret' = ret
               /\ Made(y, Top, Chunk, Top.pos, Top.item, "body", Top.size, k)
            \/ /\ depth' = depth + 1 /\ depth < MaxDepth /\ ret' = ret
               /\ frames' = [frames EXCEPT ![depth] = y,
                                           ![depth + 1] = Writer(Item, Top.size, k)]
               /\ Made(y, Top, Chunk, Top.pos, Top.item, "inside", Top.size, k)
            \/ Lands(y, depth) /\ ret' = "fail"
  BY LengthEffect
<1>4. ASSUME NEW ph \in {"body", "inside"},
             Made(y, Top, Chunk, Top.pos, Top.item, ph, Top.size, k)
      PROVE  Measures(y)
  <2> DEFINE t == Top
             n == Chunk
  <2>1. /\ t \in Frame /\ InRange(t) /\ Measures(t) /\ t.phase = "len" /\ n \in Nat
        /\ k = (IF t.sizing THEN t.state ELSE t.state + n)
        /\ Made(y, t, n, t.pos, t.item, ph, t.size, k)
    BY <1>1, <1>2, <1>3, <1>4
  <2> HIDE DEF t, n
  <2> QED BY <2>1, LengthMeasures
<1>5. CASE /\ Lands(y, depth) /\ ret' = ret
           /\ Made(y, Top, Chunk, Top.pos, Top.item, "body", Top.size, k)
  BY <1>1, <1>2, <1>4, <1>5, MeasuresLands
<1>6. CASE /\ depth' = depth + 1 /\ depth < MaxDepth /\ ret' = ret
           /\ frames' = [frames EXCEPT ![depth] = y,
                                       ![depth + 1] = Writer(Item, Top.size, k)]
           /\ Made(y, Top, Chunk, Top.pos, Top.item, "inside", Top.size, k)
  <2> DEFINE c == Writer(Item, Top.size, k)
  <2>1. c.phase = "field"
    BY DEF Writer, NewFrame
  <2>2. frames' = [frames EXCEPT ![depth] = y, ![depth + 1] = c]
    BY <1>6
  <2>3. Measures(y)
    BY <1>4, <1>6
  <2> HIDE DEF c
  <2> QED BY <1>1, <1>6, <2>1, <2>2, <2>3, MeasuresNests
<1>7. CASE Lands(y, depth) /\ ret' = "fail"
  BY <1>2, <1>7, MeasuresLands
<1> QED BY <1>3, <1>5, <1>6, <1>7

\* What pb_write is given of an array or a string.
LEMMA BodyChunk ==
    ASSUME Top.phase = "body"
    PROVE  /\ Text(Field) => Chunk = TextLen(Field, Item)
           /\ Whole(Field) => Chunk = Top.size
           /\ Packed(Field) /\ Top.sizing => Chunk = Top.size
           /\ ~ Text(Field) /\ ~ Whole(Field) /\ ~ (Packed(Field) /\ Top.sizing) =>
                 Chunk = ScalarLen(Field, Item)
  BY Kinds DEF Chunk, Text

\* A value keeps the lengths right.
LEMMA BodyStepMeasures ==
    ASSUME IInv, MeasuresInv, PutBody
    PROVE  MeasuresInv'
<1>1. Top.phase = "body" /\ ret' = ret /\ ret = "none" /\ Chunk \in Nat
  BY BodyEffect DEF PutBody, Running
<1>2. /\ Top \in Frame /\ InRange(Top) /\ Measures(Top) /\ depth \in 1 .. depth
      /\ Field = At(Top) /\ Item = Field.items[Top.item]
  BY <1>1, TopMeasures
<1>3. PICK y :
         /\ Lands(y, depth)
         /\ \/ Made(y, Top, Chunk, Top.pos + 1, 1, "field", Top.size, Top.mark)
            \/ /\ ~ (Packed(Field) /\ Top.sizing)
               /\ Made(y, Top, Chunk, Top.pos, Top.item + 1,
                       IF Packed(Field) THEN "body" ELSE "tag", Top.size, Top.mark)
  BY BodyEffect
<1>4. CASE Made(y, Top, Chunk, Top.pos + 1, 1, "field", Top.size, Top.mark)
  <2>1. y.phase = "field"
    BY <1>4 DEF Made
  <2> QED BY <1>1, <1>2, <1>3, <2>1, FieldMeasures, MeasuresLands
<1>5. CASE /\ ~ (Packed(Field) /\ Top.sizing)
           /\ Made(y, Top, Chunk, Top.pos, Top.item + 1,
                   IF Packed(Field) THEN "body" ELSE "tag", Top.size, Top.mark)
  <2> DEFINE t == Top
             f == Field
             n == Chunk
  <2>1. Packed(f) => n = ScalarLen(f, f.items[t.item])
    BY <1>1, <1>2, <1>5, BodyChunk, Kinds
  <2>2. /\ t \in Frame /\ InRange(t) /\ Measures(t) /\ t.phase = "body" /\ f = At(t)
        /\ n \in Nat /\ ~ (Packed(f) /\ t.sizing)
        /\ Made(y, t, n, t.pos, t.item + 1, IF Packed(f) THEN "body" ELSE "tag",
                t.size, t.mark)
    BY <1>1, <1>2, <1>5
  <2> HIDE DEF t, f, n
  <2>3. Measures(y)
    BY <2>1, <2>2, BodyMeasures
  <2> QED BY <1>1, <1>2, <1>3, <2>3, MeasuresLands
<1> QED BY <1>3, <1>4, <1>5

\* A submessage, measured and put, keeps the lengths right.
LEMMA NestedStepMeasures ==
    ASSUME IInv, MeasuresInv, Measure \/ Measured \/ Encoded
    PROVE  MeasuresInv'
<1>1. CASE Measure
  <2> DEFINE c == Counting(Item)
  <2>1. /\ ret = "none" /\ ret' = ret /\ depth < MaxDepth /\ depth' = depth + 1
        /\ frames' = [frames EXCEPT ![depth] = Top, ![depth + 1] = c]
    BY <1>1 DEF Measure, Running, Push
  <2>2. Measures(Top)
    BY <2>1, TopMeasures
  <2>3. c.phase = "field"
    BY DEF Counting, NewFrame
  <2> HIDE DEF c
  <2> QED BY <2>1, <2>2, <2>3, MeasuresNests
<1>2. ASSUME depth > 1
      PROVE  /\ Parent \in Frame /\ InRange(Parent) /\ Measures(Parent)
             /\ depth - 1 \in 1 .. depth
  <2>1. depth \in Nat /\ Parent = frames[depth - 1] /\ depth - 1 \in 1 .. depth
    BY <1>2, TopType, ParentType, MessageAssumption
  <2>2. depth - 1 # depth
    BY <2>1
  <2> QED BY <1>2, <2>1, <2>2, ParentType DEF MeasuresInv
<1>3. CASE Measured
  <2>1. depth > 1 /\ Parent.phase = "measure"
    BY <1>3, MeasuredEffect
  <2>2. \/ /\ ret' = "none"
           /\ \E y : /\ Lands(y, depth - 1)
                     /\ Made(y, Parent, 0, Parent.pos, Parent.item, "len",
                             Top.written, Parent.mark)
        \/ ret' = "fail" /\ Lands(Parent, depth - 1)
    BY <1>3, MeasuredEffect
  <2>3. CASE ret' = "fail" /\ Lands(Parent, depth - 1)
    BY <1>2, <2>1, <2>3, MeasuresLands
  <2>4. CASE /\ ret' = "none"
             /\ \E y : /\ Lands(y, depth - 1)
                       /\ Made(y, Parent, 0, Parent.pos, Parent.item, "len",
                               Top.written, Parent.mark)
    <3>1. PICK y : /\ Lands(y, depth - 1)
                   /\ Made(y, Parent, 0, Parent.pos, Parent.item, "len",
                           Top.written, Parent.mark)
      BY <2>4
    <3>2. Whole(At(y)) /\ y.phase = "len"
      BY <1>2, <2>1, <3>1 DEF Made, At, InRange
    <3> QED BY <1>2, <2>1, <2>4, <3>1, <3>2, WholeMeasures, MeasuresLands
  <2> QED BY <2>2, <2>3, <2>4
<1>4. CASE Encoded
  <2>1. depth > 1 /\ Parent.phase = "inside"
    BY <1>4, EncodedEffect
  <2>2. \/ ret' = "fail" /\ \E y : Lands(y, depth - 1)
        \/ /\ ret' = "none"
           /\ \E y :
                 /\ Lands(y, depth - 1)
                 /\ \/ Made(y, Parent, Parent.size, Parent.pos, Parent.item + 1,
                            "tag", Parent.size, Parent.mark)
                    \/ Made(y, Parent, Parent.size, Parent.pos + 1, 1, "field",
                            Parent.size, Parent.mark)
    BY <1>4, EncodedEffect
  <2>3. CASE ret' = "fail" /\ \E y : Lands(y, depth - 1)
    BY <1>2, <2>1, <2>3, MeasuresLands
  <2>4. CASE /\ ret' = "none"
             /\ \E y :
                 /\ Lands(y, depth - 1)
                 /\ \/ Made(y, Parent, Parent.size, Parent.pos, Parent.item + 1,
                            "tag", Parent.size, Parent.mark)
                    \/ Made(y, Parent, Parent.size, Parent.pos + 1, 1, "field",
                            Parent.size, Parent.mark)
    <3>1. PICK y :
             /\ Lands(y, depth - 1)
             /\ \/ Made(y, Parent, Parent.size, Parent.pos, Parent.item + 1,
                        "tag", Parent.size, Parent.mark)
                \/ Made(y, Parent, Parent.size, Parent.pos + 1, 1, "field",
                        Parent.size, Parent.mark)
      BY <2>4
    <3>2. y.phase = "field" \/ (y.phase = "tag" /\ Whole(At(y)))
      BY <1>2, <2>1, <3>1 DEF Made, At, InRange
    <3>3. Measures(y)
      BY <3>2, FieldMeasures, WholeMeasures
    <3> QED BY <1>2, <2>1, <2>4, <3>1, <3>3, MeasuresLands
  <2> QED BY <2>2, <2>3, <2>4
<1> QED BY <1>1, <1>3, <1>4

\* The user's calls keep them.
LEMMA CallStepMeasures ==
    ASSUME IInv, MeasuresInv, Fresh \/ EncodeMeasured \/ Finished \/ Terminate
    PROVE  MeasuresInv'
<1>1. CASE Fresh \/ EncodeMeasured \/ Finished
  <2>1. depth' = 1 /\ ret' = "none"
    BY <1>1, EntryEffect
  <2>2. PICK m \in Messages, n \in Nat, s \in BOOLEAN : frames'[1] = NewFrame(m, s, n, 0)
    BY <1>1, EntryEffect
  <2>3. frames'[1].phase = "field"
    BY <2>2 DEF NewFrame
  <2>4. \A d \in 1 .. depth' : Measures(frames'[d])
    BY <2>1, <2>3, FieldMeasures
  <2> QED BY <2>1, <2>4 DEF MeasuresInv
<1>2. CASE Terminate
  <2>1. /\ ret = "ok"
        /\ \/ ret' = "fail" /\ UNCHANGED <<frames, depth>>
           \/ /\ ret' = ret
              /\ \E y : /\ Lands(y, depth)
                        /\ Made(y, Top, 1, Top.pos, Top.item, Top.phase, Top.size, Top.mark)
    BY <1>2, TerminateEffect
  <2>2. CASE ret' = "fail" /\ UNCHANGED <<frames, depth>>
    BY <2>2, MeasuresStays
  <2>3. CASE /\ ret' = ret
             /\ \E y : /\ Lands(y, depth)
                       /\ Made(y, Top, 1, Top.pos, Top.item, Top.phase, Top.size, Top.mark)
    <3>1. PICK y : /\ Lands(y, depth)
                   /\ Made(y, Top, 1, Top.pos, Top.item, Top.phase, Top.size, Top.mark)
      BY <2>3
    <3>2. y.phase = "field"
      BY <2>1, <3>1 DEF Made, MeasuresInv
    <3>3. depth \in 1 .. depth
      BY TopType, MessageAssumption
    <3> QED BY <3>1, <3>2, <3>3, FieldMeasures, MeasuresLands
  <2> QED BY <2>1, <2>2, <2>3
<1> QED BY <1>1, <1>2

\* Every step keeps the lengths right.
LEMMA MeasuresNext == IInv /\ MeasuresInv /\ [Next]_vars => MeasuresInv'
<1> SUFFICES ASSUME IInv, MeasuresInv, [Next]_vars PROVE MeasuresInv'
  OBVIOUS
<1>1. CASE UNCHANGED vars
  BY <1>1, MeasuresStays DEF vars
<1> QED BY <1>1, ReturnMeasures, FieldStepMeasures, TagStepMeasures, CountStepMeasures,
           LengthStepMeasures, BodyStepMeasures, NestedStepMeasures, CallStepMeasures
        DEF Next, Walk

\* What a step adds to the lengths is right.
LEMMA LengthsNext == IInv /\ MeasuresInv /\ LengthsTrue /\ [Next]_vars => LengthsTrue'
<1> SUFFICES ASSUME IInv, MeasuresInv, LengthsTrue, [Next]_vars PROVE LengthsTrue'
  OBVIOUS
<1>1. CASE whole' = whole \/ whole' = {}
  BY <1>1 DEF LengthsTrue
<1>2. ASSUME NEW a, NEW b, a = b, whole' = whole \cup {[prefix |-> a, body |-> b]}
      PROVE  LengthsTrue'
  BY <1>2 DEF LengthsTrue
<1>3. CASE PutBody
  <2>1. Top.phase = "body" /\ ret = "none" /\ Chunk \in Nat
    BY <1>3, BodyEffect DEF PutBody, Running
  <2>2. /\ Top \in Frame /\ InRange(Top) /\ Measures(Top)
        /\ Field = At(Top) /\ Item = Field.items[Top.item]
    BY <2>1, TopMeasures
  <2>3. whole' = (IF Text(Field) \/ (Packed(Field) /\ Top.item = Len(Field.items))
                  THEN IF Top.sizing THEN whole
                       ELSE whole \cup {[prefix |-> Top.size,
                                         body |-> (Top.state + Chunk) - Top.mark]}
                  ELSE whole)
    BY <1>3, BodyEffect
  <2> DEFINE t == Top
             f == Field
             n == Chunk
  <2>4. CASE Text(Field) /\ ~ Top.sizing
    <3>1. n = TextLen(f, f.items[t.item]) /\ f = At(t) /\ t.phase = "body" /\ ~ t.sizing
          /\ Text(f) /\ Measures(t) /\ t \in Frame /\ n \in Nat
      BY <2>1, <2>2, <2>4, BodyChunk
    <3> HIDE DEF t, f, n
    <3>2. t.size = n /\ t.mark = t.state /\ t.state \in Nat
      BY <3>1 DEF Measures, Frame
    <3>3. t.size = (t.state + n) - t.mark
      BY <3>1, <3>2
    <3> QED BY <1>2, <2>3, <2>4, <3>3 DEF t, n
  <2>5. CASE Packed(Field) /\ Top.item = Len(Field.items) /\ ~ Top.sizing
    <3>1. /\ n = ScalarLen(f, f.items[t.item]) /\ f = At(t) /\ t.phase = "body" /\ ~ t.sizing
          /\ Packed(f) /\ Measures(t) /\ t \in Frame /\ n \in Nat /\ InRange(t)
          /\ t.item = Len(f.items)
      BY <2>1, <2>2, <2>5, BodyChunk, Kinds
    <3> HIDE DEF t, f, n
    <3>2. /\ t.size = PackedSums(f)[Len(f.items)]
          /\ t.state - t.mark = PackedSums(f)[t.item - 1]
      BY <3>1 DEF Measures
    <3>3. PackedSums(f)[t.item] = PackedSums(f)[t.item - 1] + n
      <4>1. Proper(f) /\ t.item \in 1 .. Len(f.items)
        BY <3>1, AtProper
      <4> QED BY <3>1, <4>1, PackedTotals
    <3>4. t.state \in Nat /\ t.mark \in Nat
      BY <3>1 DEF Frame
    <3>5. (t.state + n) - t.mark = (t.state - t.mark) + n
      BY <3>1, <3>4
    <3>6. t.size = (t.state + n) - t.mark
      BY <3>1, <3>2, <3>3, <3>5
    <3> QED BY <1>2, <2>3, <2>5, <3>6 DEF t, n
  <2>6. CASE /\ ~ (Text(Field) /\ ~ Top.sizing)
             /\ ~ (Packed(Field) /\ Top.item = Len(Field.items) /\ ~ Top.sizing)
    BY <1>1, <2>3, <2>6
  <2> QED BY <2>4, <2>5, <2>6
<1>4. CASE Encoded
  <2>1. depth > 1 /\ Parent.phase = "inside"
    BY <1>4, EncodedEffect
  <2>2. /\ Parent \in Frame /\ Measures(Parent)
    <3>1. depth \in Nat /\ Parent = frames[depth - 1] /\ depth - 1 \in 1 .. depth
      BY <2>1, TopType, ParentType, MessageAssumption
    <3>2. depth - 1 # depth
      BY <3>1
    <3> QED BY <2>1, <3>1, <3>2, ParentType DEF MeasuresInv
  <2> DEFINE p == Parent
  <2>3. \/ whole' = whole
        \/ whole' = whole \cup {[prefix |-> p.size, body |-> (p.state + p.size) - p.mark]}
    BY <1>4, EncodedEffect
  <2>4. p.mark = p.state /\ p.state \in Nat /\ p.size \in Nat
    BY <2>1, <2>2 DEF Measures, Frame
  <2> HIDE DEF p
  <2>5. p.size = (p.state + p.size) - p.mark
    BY <2>4
  <2> QED BY <1>1, <1>2, <2>3, <2>5
<1>5. CASE Fresh \/ EncodeMeasured \/ Finished
  BY <1>1, <1>5, EntryEffect
<1>6. CASE Terminate
  BY <1>1, <1>6, TerminateEffect
<1>7. CASE UNCHANGED vars
  BY <1>1, <1>7 DEF vars
<1>8. CASE EndOfMessage \/ SkipField \/ MissingRequired \/ ArrayTooLong \/ BeginField
           \/ CallbackFails \/ StreamFull \/ Callback
  BY <1>1, <1>8 DEF EndOfMessage, SkipField, MissingRequired, ArrayTooLong, BeginField,
         CallbackFails, StreamFull, Callback, Return, Goto
<1>9. CASE PutTag
  BY <1>1, <1>9 DEF PutTag
<1>10. CASE PutLength
  BY <1>1, <1>10 DEF PutLength, Push
<1>11. CASE CountItem \/ Measure \/ Measured
  BY <1>1, <1>11 DEF CountItem, Measure, Measured, Push
<1>12. CASE SizeKnown
  BY <1>1, <1>12 DEF SizeKnown
<1> QED BY <1>3, <1>4, <1>5, <1>6, <1>7, <1>8, <1>9, <1>10, <1>11, <1>12 DEF Next, Walk

\* The length in front of a submessage, a string or a packed array is the
\* number of bytes behind it, whatever the callbacks did between the passes.
THEOREM LengthsAreTrue == Spec => []LengthsTrue
<1> DEFINE Inv == IInv /\ MeasuresInv /\ LengthsTrue
<1>1. Init => Inv
  <2> SUFFICES ASSUME Init PROVE Inv
    OBVIOUS
  <2>1. IInv
    BY InvInit
  <2>2. 1 \in 1 .. MaxDepth
    BY MessageAssumption
  <2>3. frames[1].phase = "field" /\ depth = 1 /\ ret = "none" /\ whole = {}
    BY <2>2 DEF Init, Counting, NewFrame
  <2>4. MeasuresInv
    BY <2>3, FieldMeasures DEF MeasuresInv
  <2> QED BY <2>1, <2>3, <2>4 DEF LengthsTrue
<1>2. Inv /\ [Next]_vars => Inv'
  <2> SUFFICES ASSUME Inv, [Next]_vars PROVE Inv'
    OBVIOUS
  <2>1. IInv'
    BY StackNext, RestNext, WholeNext DEF IInv, TypeOK, StackOK, RestOK
  <2> QED BY <2>1, MeasuresNext, LengthsNext
<1>3. Inv => LengthsTrue
  OBVIOUS
<1> HIDE DEF Inv
<1> QED BY <1>1, <1>2, <1>3, PTL DEF Spec

-----------------------------------------------------------------------------
(* How far a frame is in a message whose size is known. *)

\* The bytes of the fields before the frame's, and of the items before its item.
Before(t) == FieldSums(t.msg, Size)[t.pos - 1]
Upto(t) == Before(t) + ItemSums(At(t), Size)[t.item - 1]

\* An item that is refused by nobody.
Passed(f, k) == ~ Oversize(f, f.items[k]) /\ (Whole(f) => f.items[k] \in Sizable)

\* What a frame has written within an array, and within another field.
PackedTracks(t) ==
    /\ t.phase = "tag" => t.written = Before(t)
    /\ t.phase \in {"count", "len"} => t.written = Before(t) + VarintLen(At(t).tag)
    /\ t.phase = "body" =>
          t.written = Before(t) + VarintLen(At(t).tag) + VarintLen(t.size)
                          + (IF t.sizing THEN 0 ELSE PackedSums(At(t))[t.item - 1])
ItemTracks(t) ==
    /\ \A k \in 1 .. t.item - 1 : Passed(At(t), k)
    /\ t.phase = "tag" => t.written = Upto(t) /\ TagLen(At(t), t.item) = VarintLen(At(t).tag)
    /\ t.phase \in {"measure", "len"} => t.written = Upto(t) + TagLen(At(t), t.item)
    /\ t.phase = "inside" \/ (t.phase = "body" /\ (Whole(At(t)) \/ Text(At(t)))) =>
          t.written = Upto(t) + TagLen(At(t), t.item) + VarintLen(t.size)
    /\ t.phase = "body" /\ ~ Whole(At(t)) /\ ~ Text(At(t)) =>
          t.written = Upto(t) + TagLen(At(t), t.item)
    /\ t.phase \in {"len", "body", "inside"} =>
          /\ Passed(At(t), t.item)
          /\ Whole(At(t)) => t.size = Size[At(t).items[t.item]]

\* The fields behind a frame were not refused, and it wrote what they take.
Tracks(t) ==
    /\ t.pos <= Len(Msg[t.msg]) + 1
    /\ \A i \in 1 .. t.pos - 1 :
          Fine(Msg[t.msg][i]) /\ Needs(Msg[t.msg][i]) \subseteq Sizable
    /\ t.phase = "field" => t.written = Before(t)
    /\ t.phase # "field" => Present(At(t)) /\ ~ TooMany(At(t))
    /\ t.phase # "field" /\ Packed(At(t)) => PackedTracks(t)
    /\ t.phase # "field" /\ ~ Packed(At(t)) => ItemTracks(t)

\* A frame that has a field to go: the totals at its ends.
LEMMA BeforeField ==
    ASSUME NEW t \in Frame, t.pos \in 1 .. Len(Msg[t.msg])
    PROVE  /\ Before(t) \in Nat /\ FieldLen(At(t), Size) \in Nat
           /\ FieldSums(t.msg, Size)[t.pos] = Before(t) + FieldLen(At(t), Size)
           /\ t.msg \in Messages /\ t.pos \in Nat /\ Len(Msg[t.msg]) \in Nat
           /\ Proper(At(t))
<1>1. t.msg \in Messages /\ t.pos \in Nat
  BY DEF Frame
<1>2. Len(Msg[t.msg]) \in Nat /\ Proper(At(t))
  BY <1>1, FieldsProper DEF At
<1> DEFINE m == t.msg
           g == FieldSums(m, Size)
           n == Len(Msg[m])
           p == t.pos
<1>3. /\ g \in [0 .. n -> Nat]
      /\ g[p] = g[p - 1] + FieldLen(At(t), Size) /\ FieldLen(At(t), Size) \in Nat
  BY <1>1, SizeType, FieldTotals DEF At
<1>4. p - 1 \in 0 .. n
  BY <1>1, <1>2
<1> HIDE DEF m, g, n, p
<1>5. g[p - 1] \in Nat
  BY <1>3, <1>4
<1> QED BY <1>1, <1>2, <1>3, <1>5 DEF g, m, n, p, Before

\* The same within a field.
LEMMA BeforeItem ==
    ASSUME NEW t \in Frame, InRange(t), t.phase # "field", NEW f, f = At(t)
    PROVE  /\ ItemSums(f, Size)[t.item - 1] \in Nat /\ ItemLen(f, t.item, Size) \in Nat
           /\ ItemSums(f, Size)[t.item] = ItemSums(f, Size)[t.item - 1] + ItemLen(f, t.item, Size)
           /\ PackedSums(f)[t.item - 1] \in Nat /\ ScalarLen(f, f.items[t.item]) \in Nat
           /\ PackedSums(f)[t.item] = PackedSums(f)[t.item - 1] + ScalarLen(f, f.items[t.item])
           /\ Upto(t) \in Nat /\ Upto(t) = Before(t) + ItemSums(f, Size)[t.item - 1]
           /\ TagLen(f, t.item) \in Nat /\ VarintLen(f.tag) \in Nat /\ VarintLen(t.size) \in Nat
<1>1. Proper(f) /\ t.item \in 1 .. Len(f.items) /\ t.pos \in 1 .. Len(Msg[t.msg])
      /\ t.item \in Nat /\ Len(f.items) \in Nat
  BY AtProper
<1>2. t.item - 1 \in 0 .. Len(f.items)
  BY <1>1
<1>3. /\ ItemSums(f, Size)[t.item - 1] \in Nat /\ ItemLen(f, t.item, Size) \in Nat
      /\ ItemSums(f, Size)[t.item] = ItemSums(f, Size)[t.item - 1] + ItemLen(f, t.item, Size)
  BY <1>1, <1>2, SizeType, ItemTotals
<1>4. /\ PackedSums(f)[t.item - 1] \in Nat /\ ScalarLen(f, f.items[t.item]) \in Nat
      /\ PackedSums(f)[t.item] = PackedSums(f)[t.item - 1] + ScalarLen(f, f.items[t.item])
  BY <1>1, <1>2, PackedTotals
<1>5. Before(t) \in Nat
  BY <1>1, BeforeField
<1>6. TagLen(f, t.item) \in Nat /\ VarintLen(f.tag) \in Nat /\ VarintLen(t.size) \in Nat
  BY VarintLenType DEF TagLen
<1> QED BY <1>3, <1>4, <1>5, <1>6 DEF Upto

\* A field is behind the frame.
LEMMA FieldDone ==
    ASSUME NEW t \in Frame, Tracks(t), t.pos \in 1 .. Len(Msg[t.msg]),
           Fine(At(t)), Needs(At(t)) \subseteq Sizable,
           NEW n \in Nat, NEW y, NEW s, NEW m,
           Made(y, t, n, t.pos + 1, 1, "field", s, m),
           t.written + n = Before(t) + FieldLen(At(t), Size)
    PROVE  Tracks(y)
<1>1. /\ y.msg = t.msg /\ y.pos = t.pos + 1 /\ y.phase = "field"
      /\ y.written = t.written + n
  BY DEF Made
<1>2. t.pos \in Nat /\ Len(Msg[t.msg]) \in Nat
  BY BeforeField
<1>3. (t.pos + 1) - 1 = t.pos /\ t.pos + 1 <= Len(Msg[t.msg]) + 1
  BY <1>2
<1>4. y.written = Before(y)
  BY <1>1, <1>3, BeforeField DEF Before
<1>5. ASSUME NEW i \in 1 .. t.pos
      PROVE  Fine(Msg[t.msg][i]) /\ Needs(Msg[t.msg][i]) \subseteq Sizable
  <2>1. CASE i = t.pos
    BY <2>1 DEF At
  <2>2. CASE i # t.pos
    <3>1. i \in 1 .. t.pos - 1
      BY <1>2, <2>2
    <3> QED BY <3>1 DEF Tracks
  <2> QED BY <2>1, <2>2
<1> QED BY <1>1, <1>3, <1>4, <1>5 DEF Tracks

\* A field the encoder skips.
LEMMA SkipTracks ==
    ASSUME NEW t \in Frame, Tracks(t), t.phase = "field", t.pos \in 1 .. Len(Msg[t.msg]),
           NEW f, f = At(t), f.alloc # "callback", ~ Has(f), f.rule # "required",
           NEW y, NEW s, NEW m, Made(y, t, 0, t.pos + 1, 1, "field", s, m)
    PROVE  Tracks(y)
<1>1. FieldLen(f, Size) = 0 /\ Fine(f) /\ Needs(f) = {}
  BY DEF FieldLen, Fine, Needs, Present
<1>2. t.written + 0 = Before(t) + FieldLen(f, Size) /\ 0 \in Nat
  BY <1>1 DEF Tracks
<1> QED BY <1>1, <1>2, FieldDone

\* A field the user's callback writes, when it cannot choose.
LEMMA CallbackTracks ==
    ASSUME NEW t \in Frame, Tracks(t), t.phase = "field", t.pos \in 1 .. Len(Msg[t.msg]),
           NEW f, f = At(t), f.alloc = "callback", NEW n \in Nat, f.writes = {n}
    PROVE  /\ FieldLen(f, Size) = n
           /\ \A y, s, m : Made(y, t, n, t.pos + 1, 1, "field", s, m) => Tracks(y)
<1>1. FieldLen(f, Size) = n
  <2> DEFINE k == CHOOSE j \in Nat : f.writes = {j}
  <2>1. f.writes = {k}
    OBVIOUS
  <2> HIDE DEF k
  <2>2. k = n
    BY <2>1
  <2> QED BY <2>2 DEF FieldLen, k
<1>2. Fine(f) /\ Needs(f) = {}
  BY DEF Fine, Needs, Present
<1>3. t.written + n = Before(t) + FieldLen(f, Size)
  BY <1>1 DEF Tracks
<1> QED BY <1>1, <1>2, <1>3, FieldDone

\* A field is begun.
LEMMA BeginTracks ==
    ASSUME NEW t \in Frame, InRange(t), Tracks(t), t.phase = "field",
           t.pos \in 1 .. Len(Msg[t.msg]),
           NEW f, f = At(t), Present(f), ~ TooMany(f), NEW y, NEW s, NEW m,
           Made(y, t, 0, t.pos, t.item, IF f.type = "delimited" THEN "measure" ELSE "tag", s, m)
    PROVE  Tracks(y)
<1>1. /\ At(y) = f /\ y.pos = t.pos /\ y.item = 1 /\ y.msg = t.msg
      /\ y.written = t.written + 0 /\ t.written = Before(t)
      /\ y.phase = (IF f.type = "delimited" THEN "measure" ELSE "tag")
  BY DEF Made, At, InRange, Tracks
<1>2. Proper(f) /\ Before(t) \in Nat
  BY BeforeField
<1>3. Before(y) = Before(t) /\ y.written = Before(t)
  BY <1>1, <1>2 DEF Before
<1>4. 1 - 1 = 0 /\ ItemSums(f, Size)[0] = 0
  BY <1>2, SizeType, ItemTotals
<1>5. Upto(y) = Before(t)
  <2>1. y.item - 1 = 0
    BY <1>1
  <2> QED BY <1>1, <1>2, <1>3, <1>4, <2>1 DEF Upto
<1>6. /\ t.pos <= Len(Msg[t.msg]) + 1
      /\ \A i \in 1 .. t.pos - 1 :
            Fine(Msg[t.msg][i]) /\ Needs(Msg[t.msg][i]) \subseteq Sizable
  BY DEF Tracks
<1>7. CASE f.type = "delimited"
  <2>1. ~ Packed(f) /\ TagLen(f, 1) = 0
    BY <1>7 DEF Packed, TagLen
  <2>2. y.written = Upto(y) + TagLen(f, y.item)
    BY <1>1, <1>2, <1>3, <1>5, <2>1
  <2>3. \A k \in 1 .. y.item - 1 : Passed(At(y), k)
    BY <1>1
  <2>4. ItemTracks(y)
    BY <1>1, <1>7, <2>2, <2>3 DEF ItemTracks
  <2> QED BY <1>1, <1>6, <1>7, <2>1, <2>4 DEF Tracks
<1>8. CASE f.type # "delimited"
  <2>1. TagLen(f, y.item) = VarintLen(f.tag)
    BY <1>1, <1>8 DEF TagLen
  <2>2. \A k \in 1 .. y.item - 1 : Passed(At(y), k)
    BY <1>1
  <2>3. ItemTracks(y) /\ PackedTracks(y)
    BY <1>1, <1>3, <1>5, <1>8, <2>1, <2>2 DEF ItemTracks, PackedTracks
  <2> QED BY <1>1, <1>6, <1>8, <2>3 DEF Tracks
<1> QED BY <1>7, <1>8

\* y is at the field t is at, n bytes further on.
Within(y, t, n, i, ph, s) ==
    /\ At(y) = At(t) /\ Before(y) = Before(t) /\ y.written = t.written + n
    /\ y.item = i /\ y.phase = ph /\ y.size = s /\ y.sizing = t.sizing
    /\ i = t.item => Upto(y) = Upto(t)
    /\ Packed(At(t)) /\ PackedTracks(y) => Tracks(y)
    /\ ~ Packed(At(t)) /\ ItemTracks(y) => Tracks(y)

\* Within a field only the phase, the item and the bytes tell.
LEMMA WithinField ==
    ASSUME NEW t \in Frame, Tracks(t), t.phase # "field",
           NEW n, NEW y, NEW i, NEW ph, NEW s, NEW m,
           Made(y, t, n, t.pos, i, ph, s, m), ph # "field"
    PROVE  Within(y, t, n, i, ph, s)
<1>1. /\ y.msg = t.msg /\ y.pos = t.pos /\ At(y) = At(t) /\ y.written = t.written + n
      /\ y.item = i /\ y.phase = ph /\ y.size = s /\ y.sizing = t.sizing
  BY DEF Made, At
<1>2. Before(y) = Before(t)
  BY <1>1 DEF Before
<1>3. i = t.item => Upto(y) = Upto(t)
  BY <1>1, <1>2 DEF Upto
<1>4. /\ t.pos <= Len(Msg[t.msg]) + 1
      /\ \A j \in 1 .. t.pos - 1 :
            Fine(Msg[t.msg][j]) /\ Needs(Msg[t.msg][j]) \subseteq Sizable
      /\ Present(At(t)) /\ ~ TooMany(At(t))
  BY DEF Tracks
<1>5. /\ Packed(At(t)) /\ PackedTracks(y) => Tracks(y)
      /\ ~ Packed(At(t)) /\ ItemTracks(y) => Tracks(y)
  BY <1>1, <1>4 DEF Tracks
<1> QED BY <1>1, <1>2, <1>3, <1>5 DEF Within

\* A tag is put.
LEMMA TagTracks ==
    ASSUME NEW t \in Frame, InRange(t), Tracks(t), t.phase = "tag",
           NEW f, f = At(t), NEW n, n = VarintLen(f.tag), NEW y, NEW ph, NEW s, NEW m,
           Made(y, t, n, t.pos, t.item, ph, s, m),
           \/ Packed(f) /\ ph \in {"count", "len"}
           \/ ~ Packed(f) /\ f.type \in {"varint", "fixed"} /\ ph = "body"
           \/ Text(f) /\ ~ Oversize(f, f.items[t.item]) /\ ph = "len"
           \/ Whole(f) /\ ph = "measure"
    PROVE  Tracks(y)
<1>1. t.phase # "field" /\ ph # "field"
  OBVIOUS
<1>2. Within(y, t, n, t.item, ph, s)
  BY <1>1, WithinField
<1>3. /\ At(y) = f /\ Before(y) = Before(t) /\ y.written = t.written + n
      /\ y.item = t.item /\ y.phase = ph /\ Upto(y) = Upto(t)
      /\ Packed(f) /\ PackedTracks(y) => Tracks(y)
      /\ ~ Packed(f) /\ ItemTracks(y) => Tracks(y)
  BY <1>2 DEF Within
<1>4. CASE Packed(f)
  <2>1. t.written = Before(t) /\ ph \in {"count", "len"}
    BY <1>1, <1>4, Kinds DEF Tracks, PackedTracks
  <2>2. PackedTracks(y)
    BY <1>3, <2>1 DEF PackedTracks
  <2> QED BY <1>3, <1>4, <2>2
<1>5. CASE ~ Packed(f)
  <2>1. /\ t.written = Upto(t) /\ TagLen(f, t.item) = VarintLen(f.tag)
        /\ \A k \in 1 .. t.item - 1 : Passed(f, k)
    BY <1>1, <1>5 DEF Tracks, ItemTracks
  <2>2. y.written = Upto(y) + TagLen(f, y.item)
    BY <1>3, <2>1
  <2>3. CASE f.type \in {"varint", "fixed"} /\ ph = "body"
    <3>1. Passed(f, t.item) /\ ~ Whole(f) /\ ~ Text(f)
      BY <2>3 DEF Passed, Oversize, Whole, Text
    <3>2. ItemTracks(y)
      BY <1>3, <2>1, <2>2, <2>3, <3>1 DEF ItemTracks
    <3> QED BY <1>3, <1>5, <3>2
  <2>4. CASE Text(f) /\ ~ Oversize(f, f.items[t.item]) /\ ph = "len"
    <3>1. Passed(f, t.item) /\ ~ Whole(f)
      BY <2>4, Kinds DEF Passed
    <3>2. ItemTracks(y)
      BY <1>3, <2>1, <2>2, <2>4, <3>1 DEF ItemTracks
    <3> QED BY <1>3, <1>5, <3>2
  <2>5. CASE Whole(f) /\ ph = "measure"
    <3>1. ItemTracks(y)
      BY <1>3, <2>1, <2>2, <2>5 DEF ItemTracks
    <3> QED BY <1>3, <1>5, <3>1
  <2> QED BY <1>5, <2>3, <2>4, <2>5
<1> QED BY <1>4, <1>5

\* An item is counted.
LEMMA CountTracks ==
    ASSUME NEW t \in Frame, InRange(t), Measures(t), Tracks(t), t.phase = "count",
           NEW y, NEW i, NEW ph \in {"count", "len"}, NEW s, NEW m,
           Made(y, t, 0, t.pos, i, ph, s, m)
    PROVE  Tracks(y)
<1>1. t.phase # "field" /\ ph # "field" /\ Packed(At(t))
  BY DEF Measures
<1>2. Within(y, t, 0, i, ph, s)
  BY <1>1, WithinField
<1>3. /\ At(y) = At(t) /\ Before(y) = Before(t) /\ y.written = t.written + 0
      /\ y.phase = ph
      /\ PackedTracks(y) => Tracks(y)
  BY <1>1, <1>2 DEF Within
<1>4. t.written = Before(t) + VarintLen(At(t).tag)
  BY <1>1 DEF Tracks, PackedTracks
<1>5. y.written = t.written
  BY <1>3 DEF Frame
<1> QED BY <1>3, <1>4, <1>5 DEF PackedTracks

\* A length is put.
LEMMA LengthTracks ==
    ASSUME NEW t \in Frame, InRange(t), Measures(t), Tracks(t), t.phase = "len",
           NEW y, NEW n, n = VarintLen(t.size), NEW k, NEW ph \in {"body", "inside"},
           ph = "inside" <=> Whole(At(t)) /\ ~ t.sizing,
           Whole(At(t)) \/ Text(At(t)) \/ Packed(At(t)),
           Made(y, t, n, t.pos, t.item, ph, t.size, k)
    PROVE  Tracks(y)
<1> DEFINE f == At(t)
<1>1. t.phase # "field" /\ ph # "field"
  OBVIOUS
<1>2. Within(y, t, n, t.item, ph, t.size)
  BY <1>1, WithinField
<1>3. /\ At(y) = f /\ Before(y) = Before(t) /\ y.written = t.written + n
      /\ y.item = t.item /\ y.phase = ph /\ Upto(y) = Upto(t) /\ y.size = t.size
      /\ y.sizing = t.sizing
      /\ Packed(f) /\ PackedTracks(y) => Tracks(y)
      /\ ~ Packed(f) /\ ItemTracks(y) => Tracks(y)
  BY <1>2 DEF Within
<1>4. Proper(f) /\ Before(t) \in Nat /\ VarintLen(f.tag) \in Nat /\ n \in Nat
  BY <1>1, AtProper, BeforeField, VarintLenType
<1>5. CASE Packed(f)
  <2>1. t.written = Before(t) + VarintLen(f.tag) /\ t.item = 1 /\ ph = "body"
    BY <1>1, <1>5, Kinds DEF Tracks, PackedTracks, Measures
  <2>2. PackedSums(f)[t.item - 1] = 0
    BY <1>4, <2>1, PackedTotals
  <2>3. y.written = Before(y) + VarintLen(f.tag) + VarintLen(y.size) + 0
    BY <1>3, <1>4, <2>1
  <2>4. PackedTracks(y)
    BY <1>3, <2>1, <2>2, <2>3 DEF PackedTracks
  <2> QED BY <1>3, <1>5, <2>4
<1>6. CASE ~ Packed(f)
  <2>1. /\ t.written = Upto(t) + TagLen(f, t.item)
        /\ \A j \in 1 .. t.item - 1 : Passed(f, j)
        /\ Passed(f, t.item) /\ (Whole(f) => t.size = Size[f.items[t.item]])
    BY <1>1, <1>6 DEF Tracks, ItemTracks
  <2>2. y.written = Upto(y) + TagLen(f, y.item) + VarintLen(y.size)
    BY <1>3, <2>1
  <2>3. ItemTracks(y)
    BY <1>3, <1>6, <2>1, <2>2 DEF ItemTracks
  <2> QED BY <1>3, <1>6, <2>3
<1> QED BY <1>5, <1>6

\* An item is behind the frame.
LEMMA ItemDone ==
    ASSUME NEW t \in Frame, InRange(t), Tracks(t), t.phase # "field",
           NEW f, f = At(t), ~ Packed(f),
           NEW n \in Nat, NEW y, NEW s, NEW m,
           t.written + n = Upto(t) + ItemLen(f, t.item, Size), Passed(f, t.item),
           \/ t.item < Len(f.items) /\ Made(y, t, n, t.pos, t.item + 1, "tag", s, m)
           \/ /\ ~ (t.item < Len(f.items))
              /\ Made(y, t, n, t.pos + 1, 1, "field", s, m)
    PROVE  Tracks(y)
<1>1. /\ Proper(f) /\ t.item \in 1 .. Len(f.items) /\ t.item \in Nat
      /\ Len(f.items) \in Nat /\ t.pos \in 1 .. Len(Msg[t.msg]) /\ f.items \in Seq(Nat)
  BY AtProper
<1>2. /\ ItemSums(f, Size)[t.item - 1] \in Nat /\ ItemLen(f, t.item, Size) \in Nat
      /\ ItemSums(f, Size)[t.item] = ItemSums(f, Size)[t.item - 1] + ItemLen(f, t.item, Size)
      /\ Upto(t) = Before(t) + ItemSums(f, Size)[t.item - 1] /\ Before(t) \in Nat
  BY <1>1, BeforeItem, BeforeField
<1>3. t.written + n = Before(t) + ItemSums(f, Size)[t.item]
  BY <1>2
<1>4. ASSUME NEW k \in 1 .. t.item PROVE Passed(f, k)
  <2>1. CASE k = t.item
    BY <2>1
  <2>2. CASE k # t.item
    <3>1. k \in 1 .. t.item - 1
      BY <1>1, <2>2
    <3> QED BY <3>1 DEF Tracks, ItemTracks
  <2> QED BY <2>1, <2>2
<1>5. Present(f) /\ ~ TooMany(f)
  BY DEF Tracks
<1>6. CASE t.item < Len(f.items) /\ Made(y, t, n, t.pos, t.item + 1, "tag", s, m)
  <2> DEFINE i == t.item + 1
             ph == "tag"
  <2>1. Made(y, t, n, t.pos, i, ph, s, m) /\ ph # "field"
    BY <1>6
  <2> HIDE DEF i, ph
  <2>2. Within(y, t, n, i, ph, s)
    BY <2>1, WithinField
  <2>3. /\ At(y) = f /\ Before(y) = Before(t) /\ y.written = t.written + n
        /\ y.item = t.item + 1 /\ y.phase = "tag"
        /\ ItemTracks(y) => Tracks(y)
    BY <2>2 DEF Within, i, ph
  <2>4. y.item - 1 = t.item /\ y.item # 1
    <3>1. t.item \in Nat /\ t.item >= 1 /\ y.item = t.item + 1
      BY <1>1, <2>3
    <3> QED BY <3>1
  <2>5. y.written = Upto(y)
    BY <1>3, <2>3, <2>4 DEF Upto
  <2>6. TagLen(f, y.item) = VarintLen(f.tag)
    BY <2>4 DEF TagLen
  <2>7. ItemTracks(y)
    BY <1>4, <2>3, <2>4, <2>5, <2>6 DEF ItemTracks
  <2> QED BY <2>3, <2>7
<1>7. CASE /\ ~ (t.item < Len(f.items))
           /\ Made(y, t, n, t.pos + 1, 1, "field", s, m)
  <2>1. t.item = Len(f.items)
    BY <1>1, <1>7
  <2>2. Has(f) /\ f.alloc # "callback"
    BY <1>5 DEF Present
  <2>3. FieldLen(f, Size) = ItemSums(f, Size)[t.item]
    BY <2>1, <2>2 DEF FieldLen
  <2>4. Fine(f)
    BY <1>4, <1>5, <2>1, <2>2 DEF Fine, Passed
  <2>5. Needs(f) \subseteq Sizable
    BY <1>4, <2>1 DEF Needs, Passed
  <2>6. t.written + n = Before(t) + FieldLen(f, Size)
    BY <1>3, <2>3
  <2> QED BY <1>1, <1>7, <2>4, <2>5, <2>6, FieldDone
<1> QED BY <1>6, <1>7

\* What an item takes, part by part.
LEMMA ItemParts ==
    ASSUME NEW f, Proper(f), NEW k \in 1 .. Len(f.items)
    PROVE  /\ Whole(f) => /\ Size[f.items[k]] \in Nat
                          /\ ItemLen(f, k, Size) =
                                TagLen(f, k) + (VarintLen(Size[f.items[k]]) + Size[f.items[k]])
           /\ Text(f) => /\ TextLen(f, f.items[k]) \in Nat
                         /\ ItemLen(f, k, Size) =
                               TagLen(f, k) + (VarintLen(TextLen(f, f.items[k]))
                                                 + TextLen(f, f.items[k]))
           /\ ~ Whole(f) /\ ~ Text(f) =>
                 ItemLen(f, k, Size) = TagLen(f, k) + ScalarLen(f, f.items[k])
<1>1. f.items[k] \in Nat /\ f.width \in Nat /\ (Whole(f) => f.items[k] \in Messages)
  BY DEF Proper
<1>2. Whole(f) => Size[f.items[k]] \in Nat
  BY <1>1, SizeType
<1>3. TextLen(f, f.items[k]) \in Nat
  BY <1>1 DEF TextLen
<1> QED BY <1>2, <1>3, Kinds DEF ItemLen, Framed

\* The value of a pb_write: what a frame in its body has to put.
Value(t, n) ==
    /\ Text(At(t)) => n = TextLen(At(t), At(t).items[t.item])
    /\ Whole(At(t)) => n = t.size
    /\ Packed(At(t)) /\ t.sizing => n = t.size
    /\ ~ Text(At(t)) /\ ~ Whole(At(t)) /\ ~ (Packed(At(t)) /\ t.sizing) =>
          n = ScalarLen(At(t), At(t).items[t.item])

\* The last bytes of an item complete it.
LEMMA ItemEnds ==
    ASSUME NEW t \in Frame, InRange(t), Measures(t), Tracks(t), t.phase \in {"body", "inside"},
           ~ Packed(At(t)), NEW n \in Nat,
           IF t.phase = "inside" THEN n = t.size ELSE Value(t, n)
    PROVE  t.written + n = Upto(t) + ItemLen(At(t), t.item, Size) /\ Passed(At(t), t.item)
<1> DEFINE f == At(t)
           k == t.item
           u == Upto(t)
           a == TagLen(f, k)
           v == VarintLen(t.size)
<1>1. t.phase # "field" /\ Proper(f) /\ k \in 1 .. Len(f.items)
  BY AtProper
<1>2. u \in Nat /\ a \in Nat /\ v \in Nat /\ t.written \in Nat
  BY <1>1, BeforeItem, AtProper
<1>3. /\ Passed(f, k) /\ (Whole(f) => t.size = Size[f.items[k]])
      /\ Whole(f) \/ Text(f) => t.written = u + a + v
      /\ ~ Whole(f) /\ ~ Text(f) => t.written = u + a
  <2>1. t.phase = "inside" => Whole(f)
    BY DEF InRange, At
  <2> QED BY <1>1, <2>1 DEF Tracks, ItemTracks
<1>4. CASE Whole(f)
  <2>1. n = t.size /\ n = Size[f.items[k]]
    BY <1>3, <1>4 DEF Value
  <2>2. ItemLen(f, k, Size) = a + (v + n)
    BY <1>1, <1>4, <2>1, ItemParts
  <2>3. t.written + n = u + (a + (v + n))
    <3> HIDE DEF u, a, v
    <3> QED BY <1>2, <1>3, <1>4
  <2> QED BY <1>3, <2>2, <2>3
<1>5. CASE Text(f)
  <2>1. t.phase = "body"
    BY <1>5, Kinds DEF InRange, At
  <2>2. n = TextLen(f, f.items[k]) /\ t.size = n
    BY <1>5, <2>1 DEF Value, Measures
  <2>3. ItemLen(f, k, Size) = a + (v + n)
    BY <1>1, <1>5, <2>2, ItemParts
  <2>4. t.written + n = u + (a + (v + n))
    <3> HIDE DEF u, a, v
    <3> QED BY <1>2, <1>3, <1>5
  <2> QED BY <1>3, <2>3, <2>4
<1>6. CASE ~ Whole(f) /\ ~ Text(f)
  <2>1. t.phase = "body"
    BY <1>6 DEF InRange, At
  <2>2. n = ScalarLen(f, f.items[k])
    BY <1>6, <2>1 DEF Value
  <2>3. ItemLen(f, k, Size) = a + n
    BY <1>1, <1>6, <2>2, ItemParts
  <2>4. t.written + n = u + (a + n)
    <3> HIDE DEF u, a, v
    <3> QED BY <1>2, <1>3, <1>6
  <2> QED BY <1>3, <2>3, <2>4
<1> QED BY <1>4, <1>5, <1>6

\* The parts of an array, and where its frame is.
LEMMA ArrayParts ==
    ASSUME NEW t \in Frame, InRange(t), Tracks(t), t.phase # "field", NEW f, f = At(t), Packed(f)
    PROVE  /\ FieldLen(f, Size) =
                 VarintLen(f.tag) + (VarintLen(PackedSums(f)[Len(f.items)])
                                       + PackedSums(f)[Len(f.items)])
           /\ PackedSums(f)[Len(f.items)] \in Nat
           /\ PackedSums(f)[t.item] <= PackedSums(f)[Len(f.items)]
           /\ Fine(f) /\ Needs(f) = {}
<1>1. Present(f) /\ ~ TooMany(f)
  BY DEF Tracks
<1>2. Proper(f) /\ t.item \in 1 .. Len(f.items) /\ Len(f.items) \in Nat
  BY AtProper
<1>3. PackedSums(f)[Len(f.items)] \in Nat
  <2>1. PackedSums(f) \in [0 .. Len(f.items) -> Nat]
    BY <1>2, PackedTotals
  <2> QED BY <1>2, <2>1
<1>4. PackedSums(f)[t.item] <= PackedSums(f)[Len(f.items)]
  <2> DEFINE h == PackedLens(f)
             n == Len(f.items)
             i == t.item
  <2>1. h \in [1 .. n -> Nat] /\ i \in 0 .. n /\ n \in i .. n /\ n \in Nat
    <3>1. \A k \in 1 .. Len(f.items) : ScalarLen(f, f.items[k]) \in Nat
      BY <1>2, PackedTotals
    <3> QED BY <1>2, <3>1 DEF PackedLens
  <2> HIDE DEF h, n, i
  <2>2. Totals(n, h)[i] <= Totals(n, h)[n]
    BY <2>1, TotalsGrow
  <2> QED BY <2>2 DEF PackedSums, h, n, i
<1>5. Fine(f)
  BY <1>1 DEF Fine, Oversize, Packed
<1>6. Needs(f) = {}
  BY Kinds DEF Needs
<1>7. FieldLen(f, Size) =
         VarintLen(f.tag) + (VarintLen(PackedSums(f)[Len(f.items)])
                               + PackedSums(f)[Len(f.items)])
  BY <1>1 DEF FieldLen, Present, Framed
<1> QED BY <1>3, <1>4, <1>5, <1>6, <1>7

\* A value is put.
LEMMA BodyTracks ==
    ASSUME NEW t \in Frame, InRange(t), Measures(t), Tracks(t), t.phase = "body",
           NEW f, f = At(t), NEW n \in Nat, Value(t, n), NEW y, NEW s, NEW m,
           \/ /\ (Packed(f) /\ t.sizing) \/ ~ (t.item < Len(f.items))
              /\ Made(y, t, n, t.pos + 1, 1, "field", s, m)
           \/ /\ ~ (Packed(f) /\ t.sizing) /\ t.item < Len(f.items) /\ s = t.size
              /\ Made(y, t, n, t.pos, t.item + 1, IF Packed(f) THEN "body" ELSE "tag", s, m)
    PROVE  Tracks(y)
<1>1. t.phase # "field"
  OBVIOUS
<1>2. CASE ~ Packed(f)
  <2>1. t.written + n = Upto(t) + ItemLen(f, t.item, Size) /\ Passed(f, t.item)
    BY <1>2, ItemEnds
  <2>2. \/ t.item < Len(f.items) /\ Made(y, t, n, t.pos, t.item + 1, "tag", s, m)
        \/ ~ (t.item < Len(f.items)) /\ Made(y, t, n, t.pos + 1, 1, "field", s, m)
    BY <1>2
  <2> QED BY <1>1, <1>2, <2>1, <2>2, ItemDone
<1>3. CASE Packed(f)
  <2> DEFINE b == Before(t)
             a == VarintLen(f.tag)
             p == PackedSums(f)[Len(f.items)]
             v == VarintLen(p)
             q == PackedSums(f)[t.item - 1]
  <2>1. /\ t.item \in 1 .. Len(f.items) /\ t.item \in Nat /\ Len(f.items) \in Nat
        /\ t.pos \in 1 .. Len(Msg[t.msg])
    BY <1>1, AtProper
  <2>2. /\ b \in Nat /\ a \in Nat /\ v \in Nat /\ p \in Nat /\ q \in Nat
        /\ PackedSums(f)[t.item] = q + ScalarLen(f, f.items[t.item])
        /\ ScalarLen(f, f.items[t.item]) \in Nat
        /\ FieldLen(f, Size) = a + (v + p) /\ Fine(f) /\ Needs(f) = {}
    BY <1>1, <1>3, <2>1, BeforeField, BeforeItem, ArrayParts, VarintLenType
  <2>3. t.size = p
    BY <1>3 DEF Measures
  <2>4. t.written = b + a + v + (IF t.sizing THEN 0 ELSE q)
    BY <1>1, <1>3, <2>3 DEF Tracks, PackedTracks
  <2>5. ~ t.sizing => n = ScalarLen(f, f.items[t.item])
    BY <1>3, Kinds DEF Value
  <2>6. t.sizing => n = p
    BY <1>3, <2>3 DEF Value
  <2>7. CASE Made(y, t, n, t.pos + 1, 1, "field", s, m) /\ (t.sizing \/ ~ (t.item < Len(f.items)))
    <3>1. t.written + n = b + FieldLen(f, Size)
      <4>1. CASE t.sizing
        <5> HIDE DEF b, a, v, p, q
        <5>1. t.written + n = b + (a + (v + p))
          BY <2>2, <2>4, <2>6, <4>1
        <5> QED BY <2>2, <5>1
      <4>2. CASE ~ t.sizing
        <5>1. t.item = Len(f.items) /\ q + n = p
          <6>1. t.item = Len(f.items)
            BY <2>1, <2>7, <4>2
          <6>2. q + n = PackedSums(f)[t.item]
            BY <2>2, <2>5, <4>2
          <6> QED BY <6>1, <6>2
        <5> HIDE DEF b, a, v, p, q
        <5>2. t.written + n = b + (a + (v + p))
          BY <2>2, <2>4, <4>2, <5>1
        <5> QED BY <2>2, <5>2
      <4> QED BY <4>1, <4>2
    <3>2. Fine(f) /\ Needs(f) \subseteq Sizable
      BY <2>2
    <3> QED BY <2>1, <2>7, <3>1, <3>2, FieldDone
  <2>8. CASE /\ ~ t.sizing /\ t.item < Len(f.items) /\ s = t.size
             /\ Made(y, t, n, t.pos, t.item + 1, "body", s, m)
    <3> DEFINE i == t.item + 1
               ph == "body"
    <3>1. Made(y, t, n, t.pos, i, ph, s, m) /\ ph # "field"
      BY <2>8
    <3> HIDE DEF i, ph
    <3>2. Within(y, t, n, i, ph, s)
      BY <1>1, <3>1, WithinField
    <3>3. /\ At(y) = f /\ Before(y) = b /\ y.written = t.written + n /\ y.item = t.item + 1
          /\ y.phase = "body" /\ y.size = p /\ y.sizing = t.sizing
          /\ PackedTracks(y) => Tracks(y)
      BY <1>3, <2>3, <2>8, <3>2 DEF Within, i, ph
    <3>4. y.item - 1 = t.item
      BY <2>1, <3>3
    <3>5. PackedSums(f)[y.item - 1] = q + n
      BY <2>2, <2>5, <2>8, <3>4
    <3>6. t.written + n = b + a + v + (q + n)
      <4> HIDE DEF b, a, v, p, q
      <4> QED BY <2>2, <2>4, <2>8
    <3>7. PackedTracks(y)
      BY <2>8, <3>3, <3>5, <3>6 DEF PackedTracks
    <3> QED BY <3>3, <3>7
  <2> QED BY <1>3, <2>7, <2>8
<1> QED BY <1>2, <1>3

\* A measured submessage has its size.
LEMMA MeasuredTracks ==
    ASSUME NEW t \in Frame, InRange(t), Tracks(t), t.phase = "measure",
           NEW f, f = At(t), f.items[t.item] \in Sizable, NEW y, NEW m, NEW s,
           s = Size[f.items[t.item]], Made(y, t, 0, t.pos, t.item, "len", s, m)
    PROVE  Tracks(y)
<1> DEFINE ph == "len"
           i == t.item
<1>1. t.phase # "field" /\ ph # "field" /\ Whole(f) /\ ~ Packed(f)
  BY Kinds DEF InRange, At
<1>2. Made(y, t, 0, t.pos, i, ph, s, m)
  OBVIOUS
<1> HIDE DEF ph
<1>3. Within(y, t, 0, i, ph, s)
  BY <1>1, <1>2, WithinField
<1>4. /\ At(y) = f /\ y.written = t.written + 0 /\ y.item = t.item /\ y.phase = "len"
      /\ y.size = s /\ Upto(y) = Upto(t)
      /\ ItemTracks(y) => Tracks(y)
  BY <1>1, <1>3 DEF Within, ph
<1>5. /\ t.written = Upto(t) + TagLen(f, t.item) /\ \A k \in 1 .. t.item - 1 : Passed(f, k)
  BY <1>1 DEF Tracks, ItemTracks
<1>6. t.written + 0 = t.written
  BY DEF Frame
<1>7. Passed(f, t.item)
  BY <1>1 DEF Passed, Oversize, Whole
<1>8. ItemTracks(y)
  BY <1>4, <1>5, <1>6, <1>7 DEF ItemTracks
<1> QED BY <1>4, <1>8

\* A field ends where the message does, or before.
LEMMA FieldFits ==
    ASSUME NEW t \in Frame, t.pos \in 1 .. Len(Msg[t.msg]), t.msg \in Sizable
    PROVE  /\ Before(t) + FieldLen(At(t), Size) <= Size[t.msg] /\ Size[t.msg] \in Nat
<1> DEFINE m == t.msg
           h == FieldLens(m, Size)
           n == Len(Msg[m])
           i == t.pos
<1>1. m \in Messages /\ n \in Nat /\ i \in Nat
  BY BeforeField
<1>2. h \in [1 .. n -> Nat]
  BY <1>1, SizeType, FieldTotals
<1>3. Size[m] = FieldSums(m, Size)[n]
  BY <1>1, SizeLaw DEF Total
<1>4. i \in 0 .. n /\ n \in i .. n
  BY <1>1
<1>5. Totals(n, h)[i] <= Totals(n, h)[n]
  <2> HIDE DEF h, n, i
  <2> QED BY <1>1, <1>2, <1>4, TotalsGrow
<1>6. FieldSums(m, Size)[i] = Before(t) + FieldLen(At(t), Size)
  BY BeforeField
<1>7. Size[m] \in Nat
  BY <1>1, SizeType
<1> QED BY <1>3, <1>5, <1>6, <1>7 DEF FieldSums

\* An item ends where its field does, or before.
LEMMA ItemFits ==
    ASSUME NEW t \in Frame, InRange(t), Tracks(t), t.phase # "field", ~ Packed(At(t)),
           t.msg \in Sizable
    PROVE  Upto(t) + ItemLen(At(t), t.item, Size) <= Size[t.msg]
<1> DEFINE f == At(t)
           h == ItemLens(f, Size)
           n == Len(f.items)
           i == t.item
<1>1. /\ Proper(f) /\ i \in 1 .. n /\ n \in Nat /\ i \in Nat
      /\ t.pos \in 1 .. Len(Msg[t.msg])
  BY AtProper
<1>2. h \in [1 .. n -> Nat]
  BY <1>1, SizeType, ItemTotals
<1>3. i \in 0 .. n /\ n \in i .. n
  BY <1>1
<1>4. Totals(n, h)[i] <= Totals(n, h)[n]
  <2> HIDE DEF h, n, i
  <2> QED BY <1>1, <1>2, <1>3, TotalsGrow
<1>5. FieldLen(f, Size) = ItemSums(f, Size)[n]
  BY DEF Tracks, Present, FieldLen
<1>6. /\ ItemSums(f, Size)[i - 1] \in Nat /\ ItemLen(f, i, Size) \in Nat
      /\ ItemSums(f, Size)[i] = ItemSums(f, Size)[i - 1] + ItemLen(f, i, Size)
      /\ Upto(t) = Before(t) + ItemSums(f, Size)[i - 1]
  BY BeforeItem
<1>7. /\ Before(t) \in Nat /\ Before(t) + FieldLen(f, Size) <= Size[t.msg]
      /\ Size[t.msg] \in Nat /\ FieldLen(f, Size) \in Nat
  BY <1>1, FieldFits, BeforeField
<1>8. ItemSums(f, Size)[i] <= FieldLen(f, Size)
  BY <1>4, <1>5 DEF ItemSums
<1> DEFINE b == Before(t)
           c == ItemSums(f, Size)[i - 1]
           d == ItemLen(f, i, Size)
           e == FieldLen(f, Size)
           z == Size[t.msg]
           u == Upto(t)
<1>9. /\ b \in Nat /\ c \in Nat /\ d \in Nat /\ e \in Nat /\ z \in Nat
      /\ u = b + c /\ c + d <= e /\ b + e <= z
  BY <1>6, <1>7, <1>8
<1> HIDE DEF b, c, d, e, z, u
<1>10. u + d <= z
  BY <1>9
<1> QED BY <1>10 DEF u, d, z

\* A message of known size leaves room for its tags.
LEMMA TagFits ==
    ASSUME NEW t \in Frame, InRange(t), Tracks(t), t.phase = "tag", t.msg \in Sizable
    PROVE  t.written + VarintLen(At(t).tag) <= Size[t.msg]
<1> DEFINE f == At(t)
           a == VarintLen(f.tag)
           z == Size[t.msg]
<1>1. t.phase # "field"
  OBVIOUS
<1>2. /\ Proper(f) /\ t.item \in 1 .. Len(f.items) /\ t.pos \in 1 .. Len(Msg[t.msg])
      /\ a \in Nat /\ z \in Nat
  BY <1>1, AtProper, FieldFits, VarintLenType
<1>3. CASE Packed(f)
  <2> DEFINE b == Before(t)
             p == PackedSums(f)[Len(f.items)]
             v == VarintLen(p)
  <2>1. /\ b \in Nat /\ p \in Nat /\ v \in Nat /\ FieldLen(f, Size) = a + (v + p)
        /\ b + FieldLen(f, Size) <= z /\ t.written = b
    BY <1>1, <1>2, <1>3, BeforeField, ArrayParts, FieldFits, VarintLenType
       DEF Tracks, PackedTracks
  <2> HIDE DEF a, z, b, p, v
  <2>2. t.written + a <= z
    BY <1>2, <2>1
  <2> QED BY <2>2 DEF a, z
<1>4. CASE ~ Packed(f)
  <2> DEFINE u == Upto(t)
             d == ItemLen(f, t.item, Size)
  <2>1. u \in Nat /\ d \in Nat /\ u + d <= z /\ t.written = u /\ TagLen(f, t.item) = a
    BY <1>1, <1>4, BeforeItem, ItemFits DEF Tracks, ItemTracks
  <2>2. \E r \in Nat : d = a + r
    <3>1. f.items[t.item] \in Nat
      BY <1>2 DEF Proper
    <3>2. ScalarLen(f, f.items[t.item]) \in Nat
      BY <1>1, BeforeItem
    <3>3. CASE Whole(f)
      <4> DEFINE r == VarintLen(Size[f.items[t.item]]) + Size[f.items[t.item]]
      <4>1. d = a + r /\ Size[f.items[t.item]] \in Nat
        BY <1>2, <2>1, <3>3, ItemParts
      <4>2. r \in Nat
        BY <4>1, VarintLenType
      <4> QED BY <4>1, <4>2
    <3>4. CASE Text(f)
      <4> DEFINE r == VarintLen(TextLen(f, f.items[t.item])) + TextLen(f, f.items[t.item])
      <4>1. d = a + r /\ TextLen(f, f.items[t.item]) \in Nat
        BY <1>2, <2>1, <3>4, ItemParts
      <4>2. r \in Nat
        BY <4>1, VarintLenType
      <4> QED BY <4>1, <4>2
    <3>5. CASE ~ Whole(f) /\ ~ Text(f)
      BY <1>2, <2>1, <3>2, <3>5, ItemParts
    <3> QED BY <3>3, <3>4, <3>5
  <2> HIDE DEF a, z, u, d
  <2>3. t.written + a <= z
    BY <1>2, <2>1, <2>2
  <2> QED BY <2>3 DEF a, z
<1> QED BY <1>3, <1>4

\* It leaves room for a length and all that is to follow it.
LEMMA LengthFits ==
    ASSUME NEW t \in Frame, InRange(t), Measures(t), Tracks(t), t.phase = "len",
           Whole(At(t)) \/ Text(At(t)) \/ Packed(At(t)), t.msg \in Sizable
    PROVE  t.written + VarintLen(t.size) + t.size <= Size[t.msg]
<1> DEFINE f == At(t)
           v == VarintLen(t.size)
           n == t.size
           z == Size[t.msg]
<1>1. t.phase # "field"
  OBVIOUS
<1>2. /\ Proper(f) /\ t.item \in 1 .. Len(f.items) /\ t.pos \in 1 .. Len(Msg[t.msg])
      /\ v \in Nat /\ z \in Nat /\ n \in Nat
  BY <1>1, AtProper, FieldFits, VarintLenType
<1>3. CASE Packed(f)
  <2> DEFINE b == Before(t)
             a == VarintLen(f.tag)
  <2>1. /\ b \in Nat /\ a \in Nat /\ t.size = PackedSums(f)[Len(f.items)]
        /\ b + FieldLen(f, Size) <= z /\ t.written = b + a
    BY <1>1, <1>2, <1>3, BeforeField, FieldFits, VarintLenType
       DEF Tracks, PackedTracks, Measures
  <2>2. FieldLen(f, Size) = a + (v + n)
    BY <1>1, <1>3, <2>1, ArrayParts
  <2> HIDE DEF a, z, b, v, n
  <2>3. t.written + v + n <= z
    BY <1>2, <2>1, <2>2
  <2> QED BY <2>3 DEF v, n, z
<1>4. CASE ~ Packed(f)
  <2> DEFINE u == Upto(t)
             a == TagLen(f, t.item)
             d == ItemLen(f, t.item, Size)
  <2>1. u \in Nat /\ a \in Nat /\ u + d <= z /\ t.written = u + a
    BY <1>1, <1>4, BeforeItem, ItemFits DEF Tracks, ItemTracks
  <2>2. d = a + (v + n)
    <3>1. CASE Whole(f)
      <4>1. n = Size[f.items[t.item]]
        BY <1>1, <1>4, <3>1 DEF Tracks, ItemTracks
      <4> QED BY <1>2, <3>1, <4>1, ItemParts
    <3>2. CASE Text(f)
      <4>1. n = TextLen(f, f.items[t.item])
        BY <3>2 DEF Measures
      <4> QED BY <1>2, <3>2, <4>1, ItemParts
    <3> QED BY <1>4, <3>1, <3>2
  <2> HIDE DEF a, z, u, d, v, n
  <2>3. t.written + v + n <= z
    BY <1>2, <2>1, <2>2
  <2> QED BY <2>3 DEF v, n, z
<1> QED BY <1>3, <1>4

\* And for the values of a writer.
LEMMA BodyFits ==
    ASSUME NEW t \in Frame, InRange(t), Measures(t), Tracks(t), t.phase = "body",
           ~ t.sizing, NEW n \in Nat, Value(t, n), t.msg \in Sizable
    PROVE  t.written + n <= Size[t.msg]
<1> DEFINE f == At(t)
           z == Size[t.msg]
<1>1. t.phase # "field"
  OBVIOUS
<1>2. t.pos \in 1 .. Len(Msg[t.msg]) /\ z \in Nat
  BY <1>1, AtProper, FieldFits
<1>3. CASE Packed(f)
  <2> DEFINE b == Before(t)
             a == VarintLen(f.tag)
             p == PackedSums(f)[Len(f.items)]
             v == VarintLen(p)
             q == PackedSums(f)[t.item - 1]
  <2>1. n = ScalarLen(f, f.items[t.item])
    BY <1>3, Kinds DEF Value
  <2>2. /\ b \in Nat /\ a \in Nat /\ p \in Nat /\ v \in Nat /\ q \in Nat
        /\ q + n <= p /\ FieldLen(f, Size) = a + (v + p) /\ b + FieldLen(f, Size) <= z
    BY <1>1, <1>2, <1>3, <2>1, BeforeField, BeforeItem, ArrayParts, FieldFits, VarintLenType
  <2>3. t.size = p
    BY <1>3 DEF Measures
  <2>4. t.written = b + a + v + q
    BY <1>1, <1>3, <2>3 DEF Tracks, PackedTracks
  <2> HIDE DEF b, a, p, v, q, z
  <2>5. t.written + n <= z
    BY <1>2, <2>2, <2>4
  <2> QED BY <2>5 DEF z
<1>4. CASE ~ Packed(f)
  BY <1>1, <1>4, ItemEnds, ItemFits
<1> QED BY <1>3, <1>4

\* What a callback must write fits.
LEMMA CallbackFits ==
    ASSUME NEW t \in Frame, Tracks(t), t.phase = "field", t.pos \in 1 .. Len(Msg[t.msg]),
           At(t).alloc = "callback", NEW n \in Nat, At(t).writes = {n}, t.msg \in Sizable
    PROVE  t.written + n <= Size[t.msg]
<1>1. FieldLen(At(t), Size) = n
  BY CallbackTracks
<1> QED BY <1>1, FieldFits DEF Tracks

-----------------------------------------------------------------------------
(* The two passes over a message. *)

\* Why a stream fails: the message has no size, or no room for it.
Refused(t) ==
    IF t.sizing THEN t.msg \notin Sizable ELSE ~ (t.msg \in Sizable /\ Size[t.msg] <= t.max)
Done(t) == t.phase = "field" /\ t.pos > Len(Msg[t.msg])

\* A nested call works on the item of the one it is made from.
Names(p, c) == c.msg = At(p).items[p.item]

StackTracked ==
    /\ \A d \in 1 .. depth : (d = depth => ret # "fail") => Tracks(frames[d])
    /\ ret = "ok" => Done(Top)
    /\ ret = "fail" => Refused(Top)
    /\ \A d \in 1 .. depth - 1 : Names(frames[d], frames[d + 1])

\* The caller's message and what the measuring of it found.
Outer ==
    /\ frames[1].msg = root
    /\ frames[1].sizing = (call \in {"measure", "measured"})
    /\ first = "ok" => root \in Sizable /\ sized = Size[root]
    /\ first = "fail" => root \notin Sizable
    /\ call = "encode" /\ first # "none" => frames[1].max = sized

Tracked == StackTracked /\ Outer

\* A message is followed as long as the callbacks have written what they must,
\* but not behind the zero that pb_encode_nullterminated adds.
TracksInv ==
    /\ first # "none" => call \in {"measured", "encode"}
    /\ call # "idle" /\ ~ wild /\ ~ (Over /\ call = "encode" /\ first = "none") => Tracked

\* The same stream.
Same(y, t) == y.msg = t.msg /\ y.sizing = t.sizing /\ y.max = t.max

\* A step that leaves a frame on top keeps the two passes followed.
LEMMA TracksLands ==
    ASSUME IInv, Tracked, NEW e \in 1 .. depth, NEW y, Lands(y, e), Same(y, frames[e]),
           ret' # "fail" => Tracks(y), ret' = "ok" => Done(y), ret' = "fail" => Refused(y),
           UNCHANGED <<call, root, sized, first>>
    PROVE  Tracked'
<1>1. /\ frames'[e] = y /\ depth' = e /\ e \in Nat /\ depth \in Nat
      /\ \A d \in 1 .. depth : d # e => frames'[d] = frames[d]
  BY Placed DEF Lands
<1>2. ASSUME NEW d \in 1 .. e, d = e => ret' # "fail" PROVE Tracks(frames'[d])
  <2>1. CASE d = e
    BY <1>1, <1>2, <2>1
  <2>2. CASE d # e
    <3>1. d \in 1 .. depth /\ d # depth
      BY <1>1, <2>2
    <3>2. Tracks(frames[d])
      BY <3>1 DEF Tracked, StackTracked
    <3> QED BY <1>1, <2>2, <3>1, <3>2
  <2> QED BY <2>1, <2>2
<1>3. ASSUME NEW d \in 1 .. e - 1 PROVE Names(frames'[d], frames'[d + 1])
  <2>1. d \in 1 .. depth - 1 /\ d \in 1 .. depth /\ d + 1 \in 1 .. depth /\ d # e
    BY <1>1
  <2>2. Names(frames[d], frames[d + 1]) /\ frames'[d] = frames[d]
    BY <1>1, <2>1 DEF Tracked, StackTracked
  <2>3. frames'[d + 1].msg = frames[d + 1].msg
    BY <1>1, <2>1 DEF Same
  <2> QED BY <2>2, <2>3 DEF Names
<1>4. Top' = y
  BY <1>1 DEF Top
<1>5. StackTracked'
  BY <1>1, <1>2, <1>3, <1>4 DEF StackTracked
<1>6. Same(frames'[1], frames[1])
  <2>1. 1 \in 1 .. depth
    BY <1>1
  <2> QED BY <1>1, <2>1 DEF Same
<1>7. Outer'
  BY <1>6 DEF Outer, Tracked, Same
<1> QED BY <1>5, <1>7 DEF Tracked

\* So does a return.
LEMMA TracksStays ==
    ASSUME Tracked, UNCHANGED <<frames, depth, call, root, sized, first>>,
           ret = "none" \/ ret' = ret,
           ret = "none" => (ret' = "ok" => Done(Top)) /\ (ret' = "fail" => Refused(Top))
    PROVE  Tracked'
<1>1. Top' = Top
  BY DEF Top
<1>2. ret' # "fail" => ret # "fail"
  OBVIOUS
<1>3. StackTracked'
  BY <1>1, <1>2 DEF StackTracked, Tracked
<1>4. Outer'
  BY DEF Outer, Tracked
<1> QED BY <1>3, <1>4 DEF Tracked

\* And a nested call.
LEMMA TracksNests ==
    ASSUME IInv, Tracked, depth < MaxDepth, NEW p, Same(p, Top), Tracks(p),
           NEW c, Tracks(c), Names(p, c), ret' = "none",
           frames' = [frames EXCEPT ![depth] = p, ![depth + 1] = c], depth' = depth + 1,
           UNCHANGED <<call, root, sized, first>>
    PROVE  Tracked'
<1>1. /\ frames \in [1 .. MaxDepth -> Frame] /\ depth \in 1 .. MaxDepth
      /\ MaxDepth \in Nat /\ depth + 1 \in 1 .. MaxDepth
  BY MessageAssumption DEF IInv, TypeOK
<1>2. /\ frames'[depth] = p /\ frames'[depth + 1] = c
      /\ \A d \in 1 .. depth - 1 : frames'[d] = frames[d]
  BY <1>1
<1>3. ASSUME NEW d \in 1 .. depth + 1 PROVE Tracks(frames'[d])
  <2>1. CASE d = depth + 1
    BY <1>2, <2>1
  <2>2. CASE d = depth
    BY <1>2, <2>2
  <2>3. CASE d \in 1 .. depth - 1
    <3>1. d \in 1 .. depth /\ d # depth
      BY <1>1, <2>3
    <3> QED BY <1>2, <2>3, <3>1 DEF Tracked, StackTracked
  <2> QED BY <1>1, <2>1, <2>2, <2>3
<1>4. ASSUME NEW d \in 1 .. depth PROVE Names(frames'[d], frames'[d + 1])
  <2>1. CASE d = depth
    BY <1>2, <2>1
  <2>2. CASE d \in 1 .. depth - 1
    <3>1. Names(frames[d], frames[d + 1]) /\ frames'[d] = frames[d]
      BY <1>2, <2>2 DEF Tracked, StackTracked
    <3>2. frames'[d + 1].msg = frames[d + 1].msg
      <4>1. CASE d + 1 = depth
        BY <1>2, <4>1 DEF Same, Top
      <4>2. CASE d + 1 # depth
        <5>1. d + 1 \in 1 .. depth - 1
          BY <1>1, <2>2, <4>2
        <5> QED BY <1>2, <5>1
      <4> QED BY <4>1, <4>2
    <3> QED BY <3>1, <3>2 DEF Names
  <2> QED BY <1>1, <2>1, <2>2
<1>5. StackTracked'
  <2>1. \A d \in 1 .. depth' - 1 : Names(frames'[d], frames'[d + 1])
    BY <1>1, <1>4
  <2>2. \A d \in 1 .. depth' : Tracks(frames'[d])
    BY <1>3
  <2> QED BY <2>1, <2>2 DEF StackTracked
<1>6. Same(frames'[1], frames[1])
  <2>1. CASE depth = 1
    BY <1>2, <2>1 DEF Same, Top
  <2>2. CASE depth # 1
    <3>1. 1 \in 1 .. depth - 1
      BY <1>1, <2>2
    <3> QED BY <1>2, <3>1 DEF Same
  <2> QED BY <2>1, <2>2
<1>7. Outer'
  BY <1>6 DEF Outer, Tracked, Same
<1> QED BY <1>5, <1>7 DEF Tracked

\* A new frame has nothing behind it.
LEMMA NewTracks ==
    ASSUME NEW m \in Messages, NEW s, NEW n, NEW a
    PROVE  Tracks(NewFrame(m, s, n, a))
<1> DEFINE c == NewFrame(m, s, n, a)
<1>1. c.msg = m /\ c.pos = 1 /\ c.phase = "field" /\ c.written = 0
  BY DEF NewFrame
<1> HIDE DEF c
<1>2. Len(Msg[m]) \in Nat /\ FieldSums(m, Size)[0] = 0
  BY FieldsProper, SizeType, FieldTotals
<1>3. c.pos - 1 = 0 /\ c.pos <= Len(Msg[c.msg]) + 1
  BY <1>1, <1>2
<1>4. Tracks(c)
  BY <1>1, <1>2, <1>3 DEF Tracks, Before
<1> QED BY <1>4 DEF c

\* The running call, followed.
LEMMA TopTracks ==
    ASSUME IInv, MeasuresInv, Tracked, ret # "fail"
    PROVE  /\ Top \in Frame /\ InRange(Top) /\ Measures(Top) /\ Tracks(Top)
           /\ depth \in 1 .. depth /\ Top = frames[depth]
           /\ Field = At(Top) /\ Item = Field.items[Top.item] /\ Fields = Msg[Top.msg]
<1>1. depth \in 1 .. depth
  BY TopType, MessageAssumption
<1>2. Tracks(Top)
  BY <1>1 DEF Tracked, StackTracked, Top
<1> QED BY <1>1, <1>2, TopMeasures DEF Fields, Top

\* A frame at a field of its message.
LEMMA AtFieldPos ==
    ASSUME NEW t \in Frame, InRange(t), t.pos <= Len(Msg[t.msg])
    PROVE  t.pos \in 1 .. Len(Msg[t.msg])
<1>1. t.msg \in Messages /\ t.pos \in Nat /\ t.pos >= 1
  BY DEF Frame, InRange
<1>2. Len(Msg[t.msg]) \in Nat
  BY <1>1, FieldsProper
<1> QED BY <1>1, <1>2

\* A stream without room for what its message needs has none for the message.
LEMMA NoRoom ==
    ASSUME NEW t \in Frame, NEW n \in Nat, ~ Room(t, n),
           t.msg \in Sizable => t.written + n <= Size[t.msg]
    PROVE  Refused(t)
<1>1. /\ t.msg \in Messages /\ t.written \in Nat /\ t.max \in Nat
      /\ ~ t.sizing /\ ~ (t.written + n <= t.max)
  BY DEF Frame, Room
<1>2. Size[t.msg] \in Nat
  BY <1>1, SizeType
<1>3. t.msg \in Sizable => ~ (Size[t.msg] <= t.max)
  BY <1>1, <1>2
<1> QED BY <1>1, <1>3 DEF Refused

\* A refused field leaves its message without a size.
LEMMA FieldRefused ==
    ASSUME NEW t \in Frame, t.pos \in 1 .. Len(Msg[t.msg]),
           ~ Fine(At(t)) \/ ~ (Needs(At(t)) \subseteq Sizable)
    PROVE  t.msg \notin Sizable /\ Refused(t)
<1>1. t.msg \in Messages
  BY DEF Frame
<1>2. t.msg \notin Sizable
  BY <1>1, SizeLaw DEF At
<1> QED BY <1>2 DEF Refused

\* A value is what pb_write is given.
LEMMA ChunkValue ==
    ASSUME Top.phase = "body", Field = At(Top), Item = Field.items[Top.item]
    PROVE  Value(Top, Chunk)
  BY BodyChunk DEF Value

\* The ends of a call.
LEMMA EndTracks ==
    ASSUME IInv, MeasuresInv, Tracked, EndOfMessage \/ MissingRequired \/ ArrayTooLong
    PROVE  Tracked'
<1>1. /\ ret = "none" /\ Top.phase = "field"
      /\ UNCHANGED <<frames, depth, call, root, sized, first>>
  BY DEF EndOfMessage, MissingRequired, ArrayTooLong, AtField, Running, Return
<1>2. /\ Top \in Frame /\ InRange(Top) /\ Field = At(Top) /\ Fields = Msg[Top.msg]
  BY <1>1, TopTracks
<1>3. CASE EndOfMessage
  <2>1. ret' = "ok" /\ Done(Top)
    BY <1>1, <1>2, <1>3 DEF EndOfMessage, Return, Done
  <2> QED BY <1>1, <2>1, TracksStays
<1>4. CASE MissingRequired \/ ArrayTooLong
  <2>1. ret' = "fail" /\ ~ Fine(Field) /\ Top.pos <= Len(Msg[Top.msg])
    BY <1>2, <1>4 DEF MissingRequired, ArrayTooLong, Return, AtField, Fine
  <2>2. Refused(Top)
    BY <1>2, <2>1, AtFieldPos, FieldRefused
  <2> QED BY <1>1, <2>1, <2>2, TracksStays
<1> QED BY <1>3, <1>4

\* A stream that is full has not the size of its message.
LEMMA FullTracks ==
    ASSUME IInv, MeasuresInv, Tracked, StreamFull
    PROVE  Tracked'
<1>1. /\ ret = "none" /\ Top.phase \in Writing /\ ~ Room(Top, Chunk)
      /\ ret' = "fail" /\ UNCHANGED <<frames, depth, call, root, sized, first>>
  BY DEF StreamFull, Running, Return
<1>2. /\ Top \in Frame /\ InRange(Top) /\ Measures(Top) /\ Tracks(Top)
      /\ Field = At(Top) /\ Item = Field.items[Top.item]
  BY <1>1, TopTracks
<1>3. Chunk \in Nat
  BY <1>1, ChunkType
<1> DEFINE t == Top
           n == Chunk
<1>4. ASSUME t.msg \in Sizable PROVE t.written + n <= Size[t.msg]
  <2>1. CASE t.phase = "tag"
    <3>1. n = VarintLen(At(t).tag)
      BY <1>2, <2>1 DEF Chunk
    <3> HIDE DEF t, n
    <3> QED BY <1>2, <1>4, <2>1, <3>1, TagFits DEF t
  <2>2. CASE t.phase = "len"
    <3>1. n = VarintLen(t.size)
      BY <2>2 DEF Chunk
    <3>2. /\ t \in Frame /\ InRange(t) /\ Measures(t) /\ Tracks(t) /\ t.phase = "len"
          /\ Whole(At(t)) \/ Text(At(t)) \/ Packed(At(t))
      BY <1>2, <2>2 DEF Measures
    <3> HIDE DEF t, n
    <3>3. t.written + VarintLen(t.size) + t.size <= Size[t.msg]
      BY <1>4, <3>2, LengthFits
    <3>4. /\ t.written \in Nat /\ t.size \in Nat /\ n \in Nat /\ Size[t.msg] \in Nat
      BY <1>3, <3>2, SizeType DEF Frame, n
    <3> QED BY <3>1, <3>3, <3>4
  <2>3. CASE t.phase = "body"
    <3>1. /\ Value(t, n) /\ ~ t.sizing
      BY <1>1, <1>2, <2>3, ChunkValue DEF Room
    <3>2. t \in Frame /\ InRange(t) /\ Measures(t) /\ Tracks(t) /\ n \in Nat
      BY <1>2, <1>3
    <3> HIDE DEF t, n
    <3> QED BY <1>4, <2>3, <3>1, <3>2, BodyFits
  <2> QED BY <1>1, <2>1, <2>2, <2>3 DEF Writing
<1>5. Refused(Top)
  BY <1>1, <1>2, <1>3, <1>4, NoRoom
<1> QED BY <1>1, <1>5, TracksStays

\* The fields, begun or passed.
LEMMA FieldStepTracks ==
    ASSUME IInv, MeasuresInv, Tracked, SkipField \/ BeginField
    PROVE  Tracked'
<1>1. /\ ret = "none" /\ Top.phase = "field" /\ Top.pos <= Len(Fields)
      /\ UNCHANGED <<call, root, sized, first>>
  BY DEF SkipField, BeginField, AtField, Running, Goto
<1>2. /\ Top \in Frame /\ InRange(Top) /\ Tracks(Top) /\ Field = At(Top)
      /\ Fields = Msg[Top.msg] /\ depth \in 1 .. depth /\ Top = frames[depth]
  BY <1>1, TopTracks
<1>3. Top.pos \in 1 .. Len(Msg[Top.msg])
  BY <1>1, <1>2, AtFieldPos
<1> DEFINE t == Top
           f == Field
<1>4. CASE SkipField
  <2>1. PICK y : /\ Lands(y, depth) /\ ret' = ret
                 /\ Made(y, Top, 0, Top.pos + 1, 1, "field", Top.size, Top.mark)
    BY <1>4, SkipEffect
  <2>2. /\ t \in Frame /\ Tracks(t) /\ t.phase = "field" /\ t.pos \in 1 .. Len(Msg[t.msg])
        /\ f = At(t) /\ f.alloc # "callback" /\ ~ Has(f) /\ f.rule # "required"
        /\ Made(y, t, 0, t.pos + 1, 1, "field", t.size, t.mark)
    BY <1>1, <1>2, <1>3, <1>4, <2>1 DEF SkipField
  <2>3. Same(y, t)
    BY <2>2 DEF Made, Same
  <2> HIDE DEF t, f
  <2>4. Tracks(y)
    BY <2>2, SkipTracks
  <2> QED BY <1>1, <1>2, <2>1, <2>3, <2>4, TracksLands DEF t
<1>5. CASE BeginField
  <2>1. PICK y : /\ Lands(y, depth) /\ ret' = ret
                 /\ Made(y, Top, 0, Top.pos, Top.item,
                         IF Field.type = "delimited" THEN "measure" ELSE "tag",
                         Top.size, Top.mark)
    BY <1>5, BeginEffect
  <2>2. /\ t \in Frame /\ InRange(t) /\ Tracks(t) /\ t.phase = "field"
        /\ t.pos \in 1 .. Len(Msg[t.msg])
        /\ f = At(t) /\ Present(f) /\ ~ TooMany(f)
        /\ Made(y, t, 0, t.pos, t.item, IF f.type = "delimited" THEN "measure" ELSE "tag",
                t.size, t.mark)
    BY <1>1, <1>2, <1>3, <1>5, <2>1 DEF BeginField, Present
  <2>3. Same(y, t)
    BY <2>2 DEF Made, Same
  <2> HIDE DEF t, f
  <2>4. Tracks(y)
    BY <2>2, BeginTracks
  <2> QED BY <1>1, <1>2, <2>1, <2>3, <2>4, TracksLands DEF t
<1> QED BY <1>4, <1>5

\* A callback, unless it has a choice of what to write.
LEMMA CallbackStepTracks ==
    ASSUME IInv, MeasuresInv, Tracked, Callback, ~ wild'
    PROVE  Tracked'
<1>1. /\ ret = "none" /\ Top.phase = "field" /\ Top.pos <= Len(Fields)
      /\ Field.alloc = "callback"
      /\ UNCHANGED <<call, root, sized, first>>
  BY DEF Callback, AtField, Running, Goto, Return
<1>2. /\ Top \in Frame /\ InRange(Top) /\ Tracks(Top) /\ Field = At(Top)
      /\ Fields = Msg[Top.msg] /\ depth \in 1 .. depth /\ Top = frames[depth]
  BY <1>1, TopTracks
<1>3. Top.pos \in 1 .. Len(Msg[Top.msg])
  BY <1>1, <1>2, AtFieldPos
<1>4. PICK n \in Field.writes :
         /\ n \in Nat /\ wild' = (wild \/ Field.writes # {n})
         /\ \/ /\ Room(Top, n) /\ ret' = ret
               /\ \E y : /\ Lands(y, depth)
                         /\ Made(y, Top, n, Top.pos + 1, 1, "field", Top.size, Top.mark)
            \/ /\ ~ Room(Top, n) /\ ret' = "fail" /\ UNCHANGED <<frames, depth>>
  BY CallbackEffect
<1>5. Field.writes = {n} /\ n \in Nat
  BY <1>4
<1> DEFINE t == Top
<1>6. /\ t \in Frame /\ Tracks(t) /\ t.phase = "field" /\ t.pos \in 1 .. Len(Msg[t.msg])
      /\ At(t).alloc = "callback" /\ At(t).writes = {n} /\ n \in Nat
  BY <1>1, <1>2, <1>3, <1>5
<1>7. CASE ~ Room(Top, n) /\ ret' = "fail" /\ UNCHANGED <<frames, depth>>
  <2>1. t.msg \in Sizable => t.written + n <= Size[t.msg]
    <3> HIDE DEF t
    <3> QED BY <1>6, CallbackFits
  <2>2. Refused(Top)
    BY <1>2, <1>5, <1>7, <2>1, NoRoom
  <2> QED BY <1>1, <1>7, <2>2, TracksStays
<1>8. CASE /\ ret' = ret
           /\ \E y : /\ Lands(y, depth)
                     /\ Made(y, Top, n, Top.pos + 1, 1, "field", Top.size, Top.mark)
  <2>1. PICK y : /\ Lands(y, depth)
                 /\ Made(y, Top, n, Top.pos + 1, 1, "field", Top.size, Top.mark)
    BY <1>8
  <2>2. Same(y, t)
    BY <2>1 DEF Made, Same
  <2>3. Made(y, t, n, t.pos + 1, 1, "field", t.size, t.mark)
    BY <2>1
  <2> HIDE DEF t
  <2>4. Tracks(y)
    BY <1>6, <2>3, CallbackTracks
  <2> QED BY <1>1, <1>2, <1>8, <2>1, <2>2, <2>4, TracksLands DEF t
<1> QED BY <1>4, <1>7, <1>8

\* A tag is put, and a string that is too long refused.
LEMMA TagStepTracks ==
    ASSUME IInv, MeasuresInv, Tracked, PutTag
    PROVE  Tracked'
<1>1. PICK y, ph, s :
         /\ Lands(y, depth)
         /\ Made(y, Top, Chunk, Top.pos, Top.item, ph, s, Top.mark)
         /\ \/ /\ Packed(Field) /\ Field.type = "varint" /\ ph = "count" /\ s = 0
               /\ ret' = ret
            \/ /\ Packed(Field) /\ Field.type = "fixed" /\ ph = "len"
               /\ s = Field.width * Len(Field.items) /\ ret' = ret
            \/ /\ ~ Packed(Field) /\ Field.type \in {"varint", "fixed"} /\ ph = "body"
               /\ s = Top.size /\ ret' = ret
            \/ /\ Text(Field) /\ ~ Oversize(Field, Item) /\ ph = "len"
               /\ s = TextLen(Field, Item) /\ ret' = ret
            \/ Text(Field) /\ Oversize(Field, Item) /\ ret' = "fail"
            \/ Whole(Field) /\ ph = "measure" /\ s = Top.size /\ ret' = ret
  BY TagEffect
<1>2. Top.phase = "tag" /\ ret = "none" /\ Chunk = VarintLen(Field.tag)
      /\ UNCHANGED <<call, root, sized, first>>
  BY TagEffect DEF PutTag, Goto
<1>3. /\ Top \in Frame /\ InRange(Top) /\ Tracks(Top) /\ depth \in 1 .. depth
      /\ Field = At(Top) /\ Item = Field.items[Top.item] /\ Top = frames[depth]
  BY <1>2, TopTracks
<1> DEFINE t == Top
           f == Field
           n == Chunk
<1>4. /\ t \in Frame /\ InRange(t) /\ Tracks(t) /\ t.phase = "tag" /\ t.phase # "field"
      /\ f = At(t) /\ n = VarintLen(f.tag) /\ Made(y, t, n, t.pos, t.item, ph, s, t.mark)
  BY <1>1, <1>2, <1>3
<1>5. Same(y, t)
  BY <1>4 DEF Made, Same
<1>6. CASE Text(Field) /\ Oversize(Field, Item) /\ ret' = "fail"
  <2>1. Oversize(f, f.items[t.item])
    BY <1>3, <1>6
  <2> HIDE DEF t, f
  <2>2. t.item \in 1 .. Len(f.items) /\ t.pos \in 1 .. Len(Msg[t.msg])
    BY <1>4, AtProper
  <2>3. ~ Fine(f)
    <3>1. Present(f)
      BY <1>4 DEF Tracks
    <3> QED BY <2>1, <2>2, <3>1 DEF Fine, Present
  <2>4. t.msg \notin Sizable
    BY <1>4, <2>2, <2>3, FieldRefused
  <2>5. Refused(y)
    BY <1>5, <2>4 DEF Refused, Same
  <2> QED BY <1>1, <1>2, <1>3, <1>5, <1>6, <2>5, TracksLands DEF t
<1>7. CASE ~ (Text(Field) /\ Oversize(Field, Item) /\ ret' = "fail")
  <2>1. /\ ret' = ret
        /\ \/ Packed(f) /\ ph \in {"count", "len"}
           \/ ~ Packed(f) /\ f.type \in {"varint", "fixed"} /\ ph = "body"
           \/ Text(f) /\ ~ Oversize(f, f.items[t.item]) /\ ph = "len"
           \/ Whole(f) /\ ph = "measure"
    BY <1>1, <1>3, <1>7
  <2> HIDE DEF t, f, n
  <2>2. Tracks(y)
    BY <1>4, <2>1, TagTracks
  <2> QED BY <1>1, <1>2, <1>3, <1>5, <2>1, <2>2, TracksLands DEF t
<1> QED BY <1>6, <1>7

\* An item is counted.
LEMMA CountStepTracks ==
    ASSUME IInv, MeasuresInv, Tracked, CountItem
    PROVE  Tracked'
<1>1. Top.phase = "count" /\ ret = "none" /\ ret' = ret /\ UNCHANGED <<call, root, sized, first>>
  BY CountEffect DEF CountItem, Running, Goto
<1>2. /\ Top \in Frame /\ InRange(Top) /\ Measures(Top) /\ Tracks(Top)
      /\ depth \in 1 .. depth /\ Top = frames[depth]
  BY <1>1, TopTracks
<1>3. PICK y, i, ph, s :
         /\ Lands(y, depth) /\ ph \in {"count", "len"}
         /\ Made(y, Top, 0, Top.pos, i, ph, s, Top.mark)
  BY CountEffect
<1> DEFINE t == Top
<1>4. /\ t \in Frame /\ InRange(t) /\ Measures(t) /\ Tracks(t) /\ t.phase = "count"
      /\ Made(y, t, 0, t.pos, i, ph, s, t.mark)
  BY <1>1, <1>2, <1>3
<1> HIDE DEF t
<1>5. Tracks(y)
  BY <1>3, <1>4, CountTracks
<1>6. Same(y, t)
  BY <1>4 DEF Made, Same
<1> QED BY <1>1, <1>2, <1>3, <1>5, <1>6, TracksLands DEF t

\* A length is put, and a submessage that is too long refused.
LEMMA LengthStepTracks ==
    ASSUME IInv, MeasuresInv, Tracked, PutLength
    PROVE  Tracked'
<1>1. Top.phase = "len" /\ ret = "none" /\ Chunk \in Nat /\ Chunk = VarintLen(Top.size)
  BY LengthEffect
<1>2. UNCHANGED <<call, root, sized, first>>
  BY DEF PutLength, Goto, Push
<1>3. /\ Top \in Frame /\ InRange(Top) /\ Measures(Top) /\ Tracks(Top)
      /\ depth \in 1 .. depth /\ Top = frames[depth]
      /\ Field = At(Top) /\ Item = Field.items[Top.item]
  BY <1>1, TopTracks
<1>4. PICK y, k :
         \/ /\ ~ Whole(Field) \/ Top.sizing
            /\ Lands(y, depth) /\ ret' = ret
            /\ Made(y, Top, Chunk, Top.pos, Top.item, "body", Top.size, k)
         \/ /\ Whole(Field) /\ ~ Top.sizing
            /\ depth' = depth + 1 /\ depth < MaxDepth /\ ret' = ret
            /\ frames' = [frames EXCEPT ![depth] = y,
                                        ![depth + 1] = Writer(Item, Top.size, k)]
            /\ Made(y, Top, Chunk, Top.pos, Top.item, "inside", Top.size, k)
         \/ /\ Whole(Field) /\ ~ Top.sizing
            /\ ~ (Top.written + Chunk + Top.size <= Top.max)
            /\ Lands(y, depth) /\ ret' = "fail"
            /\ Made(y, Top, Chunk, Top.pos, Top.item, "len", Top.size, k)
  BY LengthEffect
<1> DEFINE t == Top
           n == Chunk
<1>5. /\ t \in Frame /\ InRange(t) /\ Measures(t) /\ Tracks(t) /\ t.phase = "len"
      /\ n = VarintLen(t.size) /\ n \in Nat
      /\ Whole(At(t)) \/ Text(At(t)) \/ Packed(At(t))
  BY <1>1, <1>3 DEF Measures
<1>6. ASSUME NEW ph, Made(y, Top, Chunk, Top.pos, Top.item, ph, Top.size, k)
      PROVE  Same(y, t)
  BY <1>6 DEF Made, Same
<1>7. CASE /\ ~ Whole(Field) \/ Top.sizing
           /\ Lands(y, depth) /\ ret' = ret
           /\ Made(y, Top, Chunk, Top.pos, Top.item, "body", Top.size, k)
  <2> DEFINE ph == "body"
  <2>1. /\ ph \in {"body", "inside"} /\ (ph = "inside" <=> Whole(At(t)) /\ ~ t.sizing)
        /\ Made(y, t, n, t.pos, t.item, ph, t.size, k)
    BY <1>3, <1>7
  <2> HIDE DEF ph, t, n
  <2>2. Tracks(y)
    BY <1>5, <2>1, LengthTracks
  <2> QED BY <1>1, <1>2, <1>3, <1>6, <1>7, <2>2, TracksLands DEF t
<1>8. CASE /\ Whole(Field) /\ ~ Top.sizing
           /\ depth' = depth + 1 /\ depth < MaxDepth /\ ret' = ret
           /\ frames' = [frames EXCEPT ![depth] = y,
                                       ![depth + 1] = Writer(Item, Top.size, k)]
           /\ Made(y, Top, Chunk, Top.pos, Top.item, "inside", Top.size, k)
  <2> DEFINE ph == "inside"
             c == Writer(Item, Top.size, k)
  <2>1. /\ ph \in {"body", "inside"} /\ (ph = "inside" <=> Whole(At(t)) /\ ~ t.sizing)
        /\ Made(y, t, n, t.pos, t.item, ph, t.size, k)
    BY <1>3, <1>8
  <2>2. Item \in Messages
    BY <1>1, <1>8, InField
  <2>3. Tracks(c)
    BY <2>2, NewTracks DEF Writer
  <2>4. c.msg = Item
    BY DEF Writer, NewFrame
  <2>5. frames' = [frames EXCEPT ![depth] = y, ![depth + 1] = c]
    BY <1>8
  <2>6. Names(y, c)
    <3>1. y.msg = Top.msg /\ y.pos = Top.pos /\ y.item = Top.item
      BY <1>8 DEF Made
    <3> QED BY <1>3, <2>4, <3>1 DEF Names, At
  <2> HIDE DEF ph, t, n, c
  <2>7. Tracks(y)
    BY <1>5, <2>1, LengthTracks
  <2> QED BY <1>1, <1>2, <1>6, <1>8, <2>3, <2>5, <2>6, <2>7, TracksNests DEF t
<1>9. CASE /\ Whole(Field) /\ ~ Top.sizing
           /\ ~ (Top.written + Chunk + Top.size <= Top.max)
           /\ Lands(y, depth) /\ ret' = "fail"
           /\ Made(y, Top, Chunk, Top.pos, Top.item, "len", Top.size, k)
  <2>1. ~ t.sizing /\ ~ (t.written + n + t.size <= t.max)
    BY <1>9
  <2>2. Same(y, t)
    BY <1>6, <1>9
  <2> HIDE DEF t, n
  <2>3. t.msg \in Sizable => t.written + n + t.size <= Size[t.msg]
    BY <1>5, LengthFits
  <2>4. /\ t.written \in Nat /\ n \in Nat /\ t.size \in Nat /\ t.max \in Nat
        /\ Size[t.msg] \in Nat
    BY <1>5, SizeType DEF Frame
  <2>5. t.msg \in Sizable => ~ (Size[t.msg] <= t.max)
    BY <2>1, <2>3, <2>4
  <2>6. Refused(y)
    BY <2>1, <2>2, <2>5 DEF Refused, Same
  <2> QED BY <1>1, <1>2, <1>3, <1>9, <2>2, <2>6, TracksLands DEF t
<1> QED BY <1>4, <1>7, <1>8, <1>9

\* A value is put.
LEMMA BodyStepTracks ==
    ASSUME IInv, MeasuresInv, Tracked, PutBody
    PROVE  Tracked'
<1>1. /\ Chunk \in Nat /\ Top.phase = "body" /\ ret = "none" /\ ret' = ret
      /\ UNCHANGED <<call, root, sized, first>>
  BY BodyEffect DEF PutBody, Running, Goto
<1>2. /\ Top \in Frame /\ InRange(Top) /\ Measures(Top) /\ Tracks(Top)
      /\ depth \in 1 .. depth /\ Top = frames[depth]
      /\ Field = At(Top) /\ Item = Field.items[Top.item]
  BY <1>1, TopTracks
<1>3. PICK y :
         /\ Lands(y, depth)
         /\ \/ /\ (Packed(Field) /\ Top.sizing) \/ ~ (Top.item < Len(Field.items))
               /\ Made(y, Top, Chunk, Top.pos + 1, 1, "field", Top.size, Top.mark)
            \/ /\ ~ (Packed(Field) /\ Top.sizing) /\ Top.item < Len(Field.items)
               /\ Made(y, Top, Chunk, Top.pos, Top.item + 1,
                       IF Packed(Field) THEN "body" ELSE "tag", Top.size, Top.mark)
  BY BodyEffect
<1> DEFINE t == Top
           n == Chunk
           f == Field
           s == Top.size
           m == Top.mark
<1>4. /\ t \in Frame /\ InRange(t) /\ Measures(t) /\ Tracks(t) /\ t.phase = "body"
      /\ n \in Nat /\ f = At(t) /\ s = t.size
      /\ \/ /\ (Packed(f) /\ t.sizing) \/ ~ (t.item < Len(f.items))
            /\ Made(y, t, n, t.pos + 1, 1, "field", s, m)
         \/ /\ ~ (Packed(f) /\ t.sizing) /\ t.item < Len(f.items) /\ s = t.size
            /\ Made(y, t, n, t.pos, t.item + 1, IF Packed(f) THEN "body" ELSE "tag", s, m)
  BY <1>1, <1>2, <1>3
<1>5. Value(t, n)
  BY <1>1, <1>2, ChunkValue
<1>6. Same(y, t)
  BY <1>4 DEF Made, Same
<1> HIDE DEF t, n, f, s, m
<1>7. Tracks(y)
  BY <1>4, <1>5, BodyTracks
<1> QED BY <1>1, <1>2, <1>3, <1>6, <1>7, TracksLands DEF t

\* A submessage is measured.
LEMMA MeasureStepTracks ==
    ASSUME IInv, MeasuresInv, Tracked, Measure
    PROVE  Tracked'
<1> DEFINE c == Counting(Item)
<1>1. /\ ret = "none" /\ ret' = ret /\ Top.phase = "measure"
      /\ depth < MaxDepth /\ depth' = depth + 1
      /\ frames' = [frames EXCEPT ![depth] = Top, ![depth + 1] = c]
      /\ UNCHANGED <<call, root, sized, first>>
  BY DEF Measure, Running, Push
<1>2. /\ InRange(Top) /\ Tracks(Top) /\ Field = At(Top) /\ Item = Field.items[Top.item]
  BY <1>1, TopTracks
<1>3. Item \in Messages
  <2>1. Whole(Field)
    BY <1>1, <1>2 DEF InRange, At
  <2> QED BY <1>1, <2>1, InField
<1>4. c.msg = Item /\ Tracks(c)
  BY <1>3, NewTracks DEF Counting, NewFrame
<1> HIDE DEF c
<1>5. Names(Top, c) /\ Same(Top, Top)
  BY <1>2, <1>4 DEF Names, Same
<1> QED BY <1>1, <1>2, <1>4, <1>5, TracksNests

\* A call that is done has written the size of its message.
LEMMA DoneSized ==
    ASSUME NEW t \in Frame, InRange(t), Tracks(t), Done(t)
    PROVE  t.msg \in Sizable /\ t.written = Size[t.msg]
<1>1. t.msg \in Messages /\ t.pos \in Nat
  BY DEF Frame
<1>2. Len(Msg[t.msg]) \in Nat
  BY <1>1, FieldsProper
<1>3. t.pos <= Len(Msg[t.msg]) + 1 /\ t.pos > Len(Msg[t.msg])
  BY DEF Tracks, Done
<1>4. t.pos - 1 = Len(Msg[t.msg])
  BY <1>1, <1>2, <1>3
<1>5. \A i \in 1 .. Len(Msg[t.msg]) :
         Fine(Msg[t.msg][i]) /\ Needs(Msg[t.msg][i]) \subseteq Sizable
  BY <1>4 DEF Tracks
<1>6. t.msg \in Sizable /\ Size[t.msg] = Total(t.msg, Size)
  BY <1>1, <1>5, SizeLaw
<1>7. t.written = Total(t.msg, Size)
  BY <1>4 DEF Tracks, Done, Before, Total
<1> QED BY <1>6, <1>7

\* The caller of a nested call, followed.
LEMMA ParentTracks ==
    ASSUME IInv, MeasuresInv, Tracked, depth > 1
    PROVE  /\ Parent \in Frame /\ InRange(Parent) /\ Measures(Parent) /\ Tracks(Parent)
           /\ Names(Parent, Top) /\ Link(Parent, Top) /\ Top \in Frame /\ InRange(Top)
           /\ depth - 1 \in 1 .. depth /\ Parent = frames[depth - 1]
           /\ ret = "ok" => Tracks(Top) /\ Done(Top)
           /\ ret = "fail" => Refused(Top)
<1>1. depth \in Nat /\ Parent = frames[depth - 1] /\ depth - 1 \in 1 .. depth
  BY TopType, ParentType, MessageAssumption
<1>2. depth - 1 # depth /\ depth - 1 \in 1 .. depth - 1 /\ (depth - 1) + 1 = depth
      /\ depth \in 1 .. depth
  BY <1>1
<1>3. Measures(Parent) /\ Tracks(Parent)
  BY <1>1, <1>2 DEF MeasuresInv, Tracked, StackTracked
<1>4. Names(Parent, Top)
  BY <1>1, <1>2 DEF Tracked, StackTracked, Top
<1>5. ret = "ok" => Tracks(Top) /\ Done(Top)
  BY <1>2 DEF Tracked, StackTracked, Top
<1>6. ret = "fail" => Refused(Top)
  BY DEF Tracked, StackTracked
<1> QED BY <1>1, <1>3, <1>4, <1>5, <1>6, ParentType, TopType

\* The measuring of a submessage ends.
LEMMA MeasuredStepTracks ==
    ASSUME IInv, MeasuresInv, Tracked, Measured
    PROVE  Tracked'
<1>1. /\ depth > 1 /\ Parent.phase = "measure" /\ UNCHANGED <<call, root, sized, first>>
  BY MeasuredEffect DEF Measured, Pop
<1>2. /\ Parent \in Frame /\ InRange(Parent) /\ Tracks(Parent)
      /\ Names(Parent, Top) /\ Link(Parent, Top) /\ Top \in Frame /\ InRange(Top)
      /\ depth - 1 \in 1 .. depth /\ Parent = frames[depth - 1]
      /\ ret = "ok" => Tracks(Top) /\ Done(Top)
      /\ ret = "fail" => Refused(Top)
  BY <1>1, ParentTracks
<1> DEFINE p == Parent
           c == Top
           x == c.written
<1>3. Top.sizing /\ c.msg = At(p).items[p.item]
  BY <1>1, <1>2 DEF Link, Names
<1>4. CASE /\ ret = "ok" /\ ret' = "none"
           /\ \E y : /\ Lands(y, depth - 1)
                     /\ Made(y, Parent, 0, Parent.pos, Parent.item, "len",
                             Top.written, Parent.mark)
  <2>1. PICK y : /\ Lands(y, depth - 1)
                 /\ Made(y, Parent, 0, Parent.pos, Parent.item, "len",
                         Top.written, Parent.mark)
    BY <1>4
  <2>2. c.msg \in Sizable /\ x = Size[c.msg]
    BY <1>2, <1>4, DoneSized
  <2>3. /\ p \in Frame /\ InRange(p) /\ Tracks(p) /\ p.phase = "measure"
        /\ At(p).items[p.item] \in Sizable /\ x = Size[At(p).items[p.item]]
        /\ Made(y, p, 0, p.pos, p.item, "len", x, p.mark)
    BY <1>1, <1>2, <1>3, <2>1, <2>2
  <2>4. Same(y, p)
    BY <2>3 DEF Made, Same
  <2> HIDE DEF p, c, x
  <2>5. Tracks(y)
    BY <2>3, MeasuredTracks
  <2> QED BY <1>1, <1>2, <1>4, <2>1, <2>4, <2>5, TracksLands DEF p
<1>5. CASE ret = "fail" /\ ret' = "fail" /\ Lands(Parent, depth - 1)
  <2>1. c.msg \notin Sizable
    BY <1>2, <1>3, <1>5 DEF Refused
  <2>2. /\ p \in Frame /\ InRange(p) /\ Tracks(p) /\ p.phase # "field" /\ Whole(At(p))
        /\ At(p).items[p.item] \notin Sizable
    BY <1>1, <1>2, <1>3, <2>1 DEF InRange, At
  <2> HIDE DEF p, c
  <2>3. /\ p.pos \in 1 .. Len(Msg[p.msg]) /\ p.item \in 1 .. Len(At(p).items) /\ Proper(At(p))
    BY <2>2, AtProper
  <2>4. Present(At(p)) /\ At(p).items[p.item] \in Messages
    BY <2>2, <2>3 DEF Tracks, Proper
  <2>5. ~ (Needs(At(p)) \subseteq Sizable)
    BY <2>2, <2>3, <2>4 DEF Needs
  <2>6. Refused(p) /\ Same(p, p)
    BY <2>2, <2>3, <2>5, FieldRefused DEF Same
  <2> QED BY <1>1, <1>2, <1>5, <2>6, TracksLands DEF p
<1> QED BY <1>4, <1>5, MeasuredEffect

\* A submessage is behind its length: it was the size it was measured to be.
LEMMA EncodedStepTracks ==
    ASSUME IInv, MeasuresInv, Tracked, Encoded
    PROVE  Tracked'
<1>1. /\ depth > 1 /\ Parent.phase = "inside" /\ ret # "none"
      /\ UNCHANGED <<call, root, sized, first>>
  BY EncodedEffect DEF Encoded, Pop
<1>2. /\ Parent \in Frame /\ InRange(Parent) /\ Measures(Parent) /\ Tracks(Parent)
      /\ Names(Parent, Top) /\ Link(Parent, Top) /\ Top \in Frame /\ InRange(Top)
      /\ depth - 1 \in 1 .. depth /\ Parent = frames[depth - 1]
      /\ ret = "ok" => Tracks(Top) /\ Done(Top)
      /\ ret = "fail" => Refused(Top)
  BY <1>1, ParentTracks
<1> DEFINE p == Parent
           c == Top
<1>3. /\ p \in Frame /\ InRange(p) /\ Measures(p) /\ Tracks(p)
      /\ p.phase = "inside" /\ Whole(At(p)) /\ ~ Packed(At(p))
      /\ c.msg = At(p).items[p.item] /\ ~ c.sizing /\ c.max = p.size
  BY <1>1, <1>2 DEF InRange, At, Names, Link, Packed, Whole
<1>4. c.msg \in Sizable /\ p.size = Size[c.msg]
  <2> HIDE DEF p
  <2>1. ItemTracks(p)
    BY <1>3 DEF Tracks
  <2> QED BY <1>3, <2>1 DEF ItemTracks, Passed
<1>5. ~ Refused(c)
  <2> HIDE DEF p
  <2>1. p.size \in Nat
    BY <1>3 DEF Frame
  <2> QED BY <1>3, <1>4, <2>1 DEF Refused
<1>6. ret = "ok" /\ Top.written = Parent.size
  <2>1. ret = "ok"
    <3>1. ret \in {"none", "ok", "fail"}
      BY DEF IInv, TypeOK
    <3> QED BY <1>1, <1>2, <1>5, <3>1
  <2> QED BY <1>2, <1>4, <2>1, DoneSized
<1>7. PICK y :
         /\ ret' = "none" /\ Lands(y, depth - 1)
         /\ \/ /\ Parent.item < Len(Msg[Parent.msg][Parent.pos].items)
               /\ Made(y, Parent, Parent.size, Parent.pos, Parent.item + 1,
                       "tag", Parent.size, Parent.mark)
            \/ /\ ~ (Parent.item < Len(Msg[Parent.msg][Parent.pos].items))
               /\ Made(y, Parent, Parent.size, Parent.pos + 1, 1, "field",
                       Parent.size, Parent.mark)
  BY <1>6, EncodedEffect
<1> DEFINE f == At(p)
           n == p.size
<1>8. \/ p.item < Len(f.items) /\ Made(y, p, n, p.pos, p.item + 1, "tag", n, p.mark)
      \/ /\ ~ (p.item < Len(f.items))
         /\ Made(y, p, n, p.pos + 1, 1, "field", n, p.mark)
  BY <1>7 DEF At
<1>9. Same(y, p)
  BY <1>8 DEF Made, Same
<1> HIDE DEF p, c
<1>10. n \in Nat
  BY <1>3 DEF Frame
<1>11. p.written + n = Upto(p) + ItemLen(At(p), p.item, Size) /\ Passed(At(p), p.item)
  BY <1>3, <1>10, ItemEnds
<1>12. f = At(p) /\ ~ Packed(f) /\ p.phase # "field"
       /\ p.written + n = Upto(p) + ItemLen(f, p.item, Size) /\ Passed(f, p.item)
  BY <1>3, <1>11
<1> HIDE DEF f, n
<1>13. Tracks(y)
  BY <1>3, <1>8, <1>10, <1>12, ItemDone
<1> QED BY <1>1, <1>2, <1>7, <1>9, <1>13, TracksLands DEF p

\* The steps of pb_encode.
Inner == \/ EndOfMessage \/ SkipField \/ MissingRequired \/ ArrayTooLong \/ BeginField
         \/ Callback \/ CallbackFails \/ StreamFull \/ PutTag \/ CountItem \/ PutLength
         \/ PutBody \/ Measure \/ Measured \/ Encoded

\* They are the encoder's: the caller's request stays, and a callback that had a
\* choice has had it.
LEMMA InnerKeeps ==
    ASSUME IInv, Inner
    PROVE  UNCHANGED <<call, root, sized, first>> /\ (wild => wild')
<1>1. CASE EndOfMessage \/ SkipField \/ MissingRequired \/ ArrayTooLong \/ BeginField
           \/ CallbackFails \/ StreamFull
  BY <1>1 DEF EndOfMessage, SkipField, MissingRequired, ArrayTooLong, BeginField,
         CallbackFails, StreamFull, Return, Goto
<1>2. CASE Callback
  <2>1. UNCHANGED <<call, root, sized, first>>
    BY <1>2 DEF Callback, Return, Goto
  <2>2. PICK n : wild' = (wild \/ Field.writes # {n})
    BY <1>2, CallbackEffect
  <2>3. wild => wild'
    BY <2>2, Zenon
  <2> QED BY <2>1, <2>3
<1>3. CASE PutTag
  BY <1>3 DEF PutTag, Goto
<1>4. CASE CountItem \/ PutBody
  <2>1. CASE CountItem
    BY <2>1 DEF CountItem, Goto
  <2>2. CASE PutBody
    BY <2>2 DEF PutBody, Goto
  <2> QED BY <1>4, <2>1, <2>2
<1>5. CASE PutLength \/ Measure
  BY <1>5 DEF PutLength, Measure, Goto, Push
<1>6. CASE Measured \/ Encoded
  BY <1>6 DEF Measured, Encoded, Pop
<1> QED BY <1>1, <1>3, <1>5, <1>6, <1>4, <1>2 DEF Inner

\* And none of them runs when the outermost call is over.
LEMMA InnerRuns ==
    ASSUME IInv, Inner
    PROVE  ~ Over
<1>1. CASE EndOfMessage \/ SkipField \/ MissingRequired \/ ArrayTooLong \/ BeginField
           \/ Callback \/ CallbackFails \/ StreamFull
  BY <1>1 DEF EndOfMessage, SkipField, MissingRequired, ArrayTooLong, BeginField,
         Callback, CallbackFails, StreamFull, AtField, Running, Over
<1>2. CASE PutTag \/ CountItem \/ PutBody \/ PutLength \/ Measure
  BY <1>2 DEF PutTag, CountItem, PutBody, PutLength, Measure, Running, Over
<1>3. CASE Measured \/ Encoded
  BY <1>3, MeasuredEffect, EncodedEffect DEF Over
<1> QED BY <1>1, <1>2, <1>3 DEF Inner

\* Every one of them keeps the passes followed.
LEMMA InnerTracks ==
    ASSUME IInv, MeasuresInv, Tracked, Inner, ~ wild'
    PROVE  Tracked'
<1>1. ~ CallbackFails
  BY DEF CallbackFails
<1> QED BY <1>1, EndTracks, FullTracks, FieldStepTracks, CallbackStepTracks, TagStepTracks,
           CountStepTracks, LengthStepTracks, BodyStepTracks, MeasureStepTracks,
           MeasuredStepTracks, EncodedStepTracks DEF Inner

\* A call that starts has nothing behind it.
LEMMA StartTracks ==
    ASSUME NEW m \in Messages, NEW s \in BOOLEAN, NEW n \in Nat,
           frames' = [d \in 1 .. MaxDepth |-> NewFrame(m, s, n, 0)],
           depth' = 1, ret' = "none", root' = m,
           s = (call' \in {"measure", "measured"}),
           first' = "ok" => m \in Sizable /\ sized' = Size[m],
           first' = "fail" => m \notin Sizable,
           call' = "encode" /\ first' # "none" => n = sized'
    PROVE  Tracked'
<1> DEFINE c == NewFrame(m, s, n, 0)
<1>1. c.msg = m /\ c.sizing = s /\ c.max = n /\ Tracks(c)
  BY NewTracks DEF NewFrame
<1>2. 1 \in 1 .. MaxDepth
  BY MessageAssumption
<1>3. frames'[1] = c
  BY <1>2
<1> HIDE DEF c
<1>4. Outer'
  BY <1>1, <1>3 DEF Outer
<1>5. StackTracked'
  <2>1. \A d \in 1 .. depth' : Tracks(frames'[d])
    BY <1>1, <1>3
  <2>2. \A d \in 1 .. depth' - 1 : Names(frames'[d], frames'[d + 1])
    OBVIOUS
  <2> QED BY <2>1, <2>2 DEF StackTracked
<1> QED BY <1>4, <1>5 DEF Tracked

\* The caller learns the size, and goes on.
LEMMA CallerTracks ==
    ASSUME IInv, MeasuresInv, Tracked, SizeKnown \/ EncodeMeasured
    PROVE  Tracked'
<1>1. CASE SizeKnown
  <2>1. /\ depth = 1 /\ ret # "none" /\ call = "measure" /\ call' = "measured"
        /\ sized' = Top.written /\ first' = ret
        /\ UNCHANGED <<frames, depth, ret, root>>
    BY <1>1 DEF SizeKnown, Over
  <2>2. Top = frames[1] /\ Top' = Top /\ Top \in Frame /\ InRange(Top) /\ Top.sizing
        /\ Top.msg = root
    BY <2>1, TopType DEF Top, Tracked, Outer
  <2>3. first' = "ok" => root' \in Sizable /\ sized' = Size[root']
    <3> SUFFICES ASSUME ret = "ok"
                 PROVE  root \in Sizable /\ Top.written = Size[root]
      BY <2>1
    <3>1. Tracks(Top) /\ Done(Top)
      BY <2>1, <2>2 DEF Tracked, StackTracked
    <3> QED BY <2>2, <3>1, DoneSized
  <2>4. first' = "fail" => root' \notin Sizable
    BY <2>1, <2>2 DEF Tracked, StackTracked, Refused
  <2>5. Outer'
    <3>1. frames'[1] = Top /\ Top.sizing = TRUE
      BY <2>1, <2>2 DEF Tracked, Outer
    <3>2. TRUE = (call' \in {"measure", "measured"}) /\ call' # "encode"
      BY <2>1
    <3>3. Top.msg = root'
      BY <2>1, <2>2
    <3> QED BY <2>3, <2>4, <3>1, <3>2, <3>3 DEF Outer
  <2>6. StackTracked'
    BY <2>1, <2>2 DEF Tracked, StackTracked
  <2> QED BY <2>5, <2>6 DEF Tracked
<1>2. CASE EncodeMeasured
  <2> DEFINE s == FALSE
  <2>1. /\ frames' = [d \in 1 .. MaxDepth |-> NewFrame(root, s, sized, 0)]
        /\ depth' = 1 /\ ret' = "none" /\ root' = root /\ call' = "encode"
        /\ sized' = sized /\ first' = first
    BY <1>2 DEF EncodeMeasured, Start, Writer
  <2>2. root \in Messages /\ sized \in Nat
    BY DEF IInv, TypeOK
  <2>3. /\ s \in BOOLEAN /\ s = (call' \in {"measure", "measured"})
    BY <2>1
  <2>4. /\ first' = "ok" => root \in Sizable /\ sized' = Size[root]
        /\ first' = "fail" => root \notin Sizable
    BY <2>1 DEF Tracked, Outer
  <2> HIDE DEF s
  <2> QED BY <2>1, <2>2, <2>3, <2>4, StartTracks
<1> QED BY <1>1, <1>2

\* Every step keeps the two passes followed.
LEMMA TracksNext == IInv /\ MeasuresInv /\ TracksInv /\ [Next]_vars => TracksInv'
<1> SUFFICES ASSUME IInv, MeasuresInv, TracksInv, [Next]_vars PROVE TracksInv'
  OBVIOUS
<1>1. CASE Inner
  <2>1. UNCHANGED <<call, root, sized, first>> /\ (wild => wild')
    BY <1>1, InnerKeeps
  <2>2. call # "idle" /\ ~ wild' => Tracked'
    BY <1>1, <2>1, InnerTracks, InnerRuns DEF TracksInv
  <2> QED BY <2>1, <2>2 DEF TracksInv
<1>2. CASE SizeKnown
  <2>1. call = "measure" /\ call' = "measured" /\ wild' = wild
    BY <1>2 DEF SizeKnown
  <2>2. ~ wild' => Tracked'
    BY <1>2, <2>1, CallerTracks DEF TracksInv
  <2> QED BY <2>1, <2>2 DEF TracksInv
<1>3. CASE EncodeMeasured
  <2>1. call' = "encode" /\ first' = first /\ wild' = wild
    BY <1>3 DEF EncodeMeasured, Start
  <2>2. ~ wild' => Tracked'
    <3>1. call = "measured"
      BY <1>3 DEF EncodeMeasured
    <3> QED BY <1>3, <2>1, <3>1, CallerTracks DEF TracksInv
  <2> QED BY <2>1, <2>2 DEF TracksInv
<1>4. CASE Terminate \/ Finished
  <2>1. CASE Terminate
    <3>1. ret' # "none" /\ depth' = 1 /\ call' = "encode" /\ first' = "none"
      BY <2>1 DEF Terminate, Over, TracksInv
    <3> QED BY <3>1 DEF TracksInv, Over
  <2>2. CASE Finished
    BY <2>2 DEF Finished, TracksInv
  <2> QED BY <1>4, <2>1, <2>2
<1>5. ASSUME NEW m \in Roots, GetSize(m) PROVE TracksInv'
  <2> DEFINE s == TRUE
             n == 0
  <2>1. /\ call = "idle" /\ call' = "measure" /\ first' = first
        /\ frames' = [d \in 1 .. MaxDepth |-> NewFrame(m, s, n, 0)]
        /\ depth' = 1 /\ ret' = "none" /\ root' = m
    BY <1>5 DEF GetSize, Start, Counting
  <2>2. first' = "none" /\ m \in Messages /\ s \in BOOLEAN /\ n \in Nat
        /\ s = (call' \in {"measure", "measured"})
    BY <2>1, MessageAssumption DEF TracksInv
  <2> HIDE DEF s, n
  <2>3. Tracked'
    BY <2>1, <2>2, StartTracks
  <2> QED BY <2>2, <2>3 DEF TracksInv
<1>6. ASSUME NEW m \in Roots, NEW n \in BufSizes, NEW c \in {"encode", "terminate"},
             Encode(m, c, n)
      PROVE  TracksInv'
  <2> DEFINE s == FALSE
  <2>1. /\ call = "idle" /\ call' = c /\ first' = first
        /\ frames' = [d \in 1 .. MaxDepth |-> NewFrame(m, s, n, 0)]
        /\ depth' = 1 /\ ret' = "none" /\ root' = m
    BY <1>6 DEF Encode, Start, Writer
  <2>2. first' = "none" /\ m \in Messages /\ s \in BOOLEAN /\ n \in Nat
        /\ s = (call' \in {"measure", "measured"})
    BY <2>1, MessageAssumption DEF TracksInv
  <2> HIDE DEF s
  <2>3. Tracked'
    BY <2>1, <2>2, StartTracks
  <2> QED BY <2>2, <2>3 DEF TracksInv
<1>7. CASE UNCHANGED vars
  <2>1. UNCHANGED <<call, root, sized, first, wild, frames, depth, ret>>
    BY <1>7 DEF vars
  <2>2. Top' = Top
    BY <2>1 DEF Top
  <2>3. StackTracked' = StackTracked
    BY <2>1, <2>2 DEF StackTracked
  <2>4. Outer' = Outer
    BY <2>1 DEF Outer
  <2>5. Tracked' = Tracked
    BY <2>3, <2>4 DEF Tracked
  <2>6. Over' = Over
    BY <2>1 DEF Over
  <2> QED BY <2>1, <2>5, <2>6 DEF TracksInv
<1>8. CASE Fresh
  BY <1>5, <1>6, <1>8 DEF Fresh
<1> QED BY <1>1, <1>2, <1>3, <1>4, <1>7, <1>8 DEF Next, Walk, Inner

\* What is followed shows how the second pass ends.
LEMMA TracksShow == IInv /\ MeasuresInv /\ TracksInv => MeasuredSizeFits
<1> SUFFICES ASSUME IInv, MeasuresInv, TracksInv,
                    Over, call = "encode", first # "none", ~ wild
             PROVE  ret = first /\ (ret = "ok" => Top.written = sized)
  BY DEF MeasuredSizeFits
<1>1. Tracked /\ depth = 1 /\ ret # "none"
  BY DEF TracksInv, Over
<1>2. Top = frames[1] /\ Top \in Frame /\ InRange(Top) /\ ~ Top.sizing /\ Top.msg = root
      /\ Top.max = sized
  BY <1>1, TopType DEF Top, Tracked, Outer
<1>3. ret \in {"ok", "fail"} /\ first \in {"ok", "fail"}
  BY <1>1 DEF IInv, TypeOK
<1>4. CASE ret = "ok"
  <2>1. Tracks(Top) /\ Done(Top)
    BY <1>1, <1>2, <1>4 DEF Tracked, StackTracked
  <2>2. root \in Sizable /\ Top.written = Size[root]
    BY <1>2, <2>1, DoneSized
  <2> QED BY <1>1, <1>3, <1>4, <2>2 DEF Tracked, Outer
<1>5. CASE ret = "fail"
  <2>1. ~ (root \in Sizable /\ sized = Size[root])
    <3>1. ~ (root \in Sizable /\ Size[root] <= sized)
      BY <1>1, <1>2, <1>5 DEF Tracked, StackTracked, Refused
    <3>2. sized \in Nat
      BY DEF IInv, TypeOK
    <3> QED BY <3>1, <3>2
  <2> QED BY <1>1, <1>3, <1>5, <2>1 DEF Tracked, Outer
<1> QED BY <1>3, <1>4, <1>5

\* The passes are followed from the start.
LEMMA PassesInit == Init => IInv /\ MeasuresInv /\ TracksInv
<1> SUFFICES ASSUME Init PROVE IInv /\ MeasuresInv /\ TracksInv
  OBVIOUS
<1>1. IInv
  BY InvInit
<1>2. 1 \in 1 .. MaxDepth
  BY MessageAssumption
<1>3. /\ frames[1].phase = "field" /\ depth = 1 /\ ret = "none"
      /\ call = "idle" /\ first = "none"
  BY <1>2 DEF Init, Counting, NewFrame
<1>4. MeasuresInv
  BY <1>3, FieldMeasures DEF MeasuresInv
<1> QED BY <1>1, <1>3, <1>4 DEF TracksInv

\* And by every step.
LEMMA PassesNext ==
    IInv /\ MeasuresInv /\ TracksInv /\ [Next]_vars => (IInv /\ MeasuresInv /\ TracksInv)'
<1> SUFFICES ASSUME IInv, MeasuresInv, TracksInv, [Next]_vars
             PROVE  (IInv /\ MeasuresInv /\ TracksInv)'
  OBVIOUS
<1>1. IInv'
  BY StackNext, RestNext, WholeNext DEF IInv, TypeOK, StackOK, RestOK
<1> QED BY <1>1, MeasuresNext, TracksNext

\* A buffer of the measured size is filled to the last byte: unless a callback
\* failed or had a choice of what to write, pb_encode into a buffer of the size
\* that PB_OSTREAM_SIZING counted ends as the counting did.
THEOREM MeasuredSizesFit == Spec => []MeasuredSizeFits
<1> DEFINE Inv == IInv /\ MeasuresInv /\ TracksInv
<1>1. Init => Inv
  BY PassesInit
<1>2. Inv /\ [Next]_vars => Inv'
  BY PassesNext
<1>3. Inv => MeasuredSizeFits
  BY TracksShow
<1> HIDE DEF Inv
<1> QED BY <1>1, <1>2, <1>3, PTL DEF Spec

\* A call that ends as the size of its message says.
Exact(t, result) ==
    /\ result = "ok" <=> t.msg \in Sizable /\ (t.sizing \/ Size[t.msg] <= t.max)
    /\ result = "ok" => t.written = Size[t.msg]

\* The reasons of both results exclude one another.
LEMMA ExactEnd ==
    ASSUME NEW t \in Frame, InRange(t), ~ t.sizing => t.written <= t.max,
           NEW result \in {"ok", "fail"},
           result = "ok" => Tracks(t) /\ Done(t), result = "fail" => Refused(t)
    PROVE  Exact(t, result)
<1>1. CASE result = "ok"
  <2>1. t.msg \in Sizable /\ t.written = Size[t.msg]
    BY <1>1, DoneSized
  <2> QED BY <1>1, <2>1 DEF Exact
<1>2. CASE result = "fail"
  BY <1>2 DEF Exact, Refused
<1> QED BY <1>1, <1>2

\* The step that ends the outermost call.
LEMMA EndsExactly ==
    IInv /\ MeasuresInv /\ TracksInv /\ [Next]_vars /\ IInv' =>
        (~ Over /\ Over' /\ ~ wild' => Top'.msg = root' /\ Exact(Top', ret'))
<1> SUFFICES ASSUME IInv, MeasuresInv, TracksInv, [Next]_vars, IInv',
                    ~ Over, Over', ~ wild'
             PROVE  Top'.msg = root' /\ Exact(Top', ret')
  OBVIOUS
<1>1. depth' = 1 /\ ret' # "none" /\ call' \notin {"idle", "measured"}
  BY DEF Over
<1>2. Inner
  <2>1. ~ (Fresh \/ EncodeMeasured \/ Finished)
    BY <1>1, EntryEffect
  <2>2. ~ (SizeKnown \/ Terminate)
    BY DEF SizeKnown, Terminate
  <2>3. ~ UNCHANGED vars
    BY DEF vars, Over
  <2> QED BY <2>1, <2>2, <2>3 DEF Next, Walk, Inner
<1>3. Tracked
  BY <1>1, <1>2, InnerKeeps DEF TracksInv
<1>4. Tracked'
  BY <1>2, <1>3, InnerTracks
<1>5. frames' \in [1 .. MaxDepth -> Frame] /\ 1 \in 1 .. MaxDepth /\ 1 \in 1 .. 1
  BY MessageAssumption DEF IInv, TypeOK
<1>6. Top' = frames'[1] /\ Top' \in Frame /\ InRange(Top') /\ Bounded(Top', limit')
  BY <1>1, <1>5 DEF Top, IInv, Stack
<1>7. Top'.msg = root'
  BY <1>4, <1>6 DEF Tracked, Outer
<1>8. ret' \in {"ok", "fail"}
  BY <1>1 DEF IInv, TypeOK
<1>9. /\ ret' = "ok" => Tracks(Top') /\ Done(Top')
      /\ ret' = "fail" => Refused(Top')
  BY <1>1, <1>4, <1>5, <1>6 DEF Tracked, StackTracked
<1>10. ~ Top'.sizing => Top'.written <= Top'.max
  BY <1>6 DEF Bounded
<1> QED BY <1>6, <1>7, <1>8, <1>9, <1>10, ExactEnd

\* pb_encode succeeds exactly when no field of the message is refused and its
\* size, the sum that its fields and their submessages make, fits into the
\* buffer, and then it has written that size; a sizing stream fits anything.
\* A callback that fails or has a choice of what to write is excepted.
THEOREM EncodesExactly ==
    Spec => [][~ Over /\ Over' /\ ~ wild' => Top'.msg = root' /\ Exact(Top', ret')]_vars
<1> DEFINE Inv == IInv /\ MeasuresInv /\ TracksInv
           Ends == ~ Over /\ Over' /\ ~ wild' => Top'.msg = root' /\ Exact(Top', ret')
<1>1. Init => Inv
  BY PassesInit
<1>2. Inv /\ [Next]_vars => Inv'
  BY PassesNext
<1>3. Inv /\ Inv' /\ [Next]_vars => [Ends]_vars
  BY EndsExactly
<1> HIDE DEF Inv, Ends
<1>4. Spec => [][Ends]_vars
  BY <1>1, <1>2, <1>3, PTL DEF Spec
<1> QED BY <1>4 DEF Ends
=============================================================================
