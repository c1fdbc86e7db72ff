------------------------------ MODULE PbDecode ------------------------------
(***************************************************************************)
(* nanopb's decoder: nested pb_decode and pb_decode_noinit calls over a    *)
(* memory buffer, as an array of frames, each with its own (sub)stream.    *)
(* The bytes are whatever the next read finds: a field, an unknown one, a  *)
(* zero, a length, or something no value can be read from.  The caller     *)
(* decodes, may merge a second message into the first with                 *)
(* pb_decode_noinit, and releases what he was given.                       *)
(*                                                                         *)
(* Extensions and custom streams are left out.  Memory is PbMemory's, the  *)
(* values of varints PbVarint's.                                           *)
(***************************************************************************)
EXTENDS PbMemory

CONSTANTS Roots,         \* the messages the caller decodes
          StreamSizes,   \* bytes he hands over for each
          VarLens,       \* bytes a varint may take
          FixedLens,     \* bytes of the wire types of a fixed size
          Lengths,       \* lengths a length prefix may announce
          MaxRequired,   \* PB_MAX_REQUIRED_FIELDS
          MaxDepth       \* bound: nested calls

ASSUME DecodeAssumption ==
    /\ Roots \subseteq Messages
    /\ StreamSizes \in [Roots -> SUBSET Nat]
    /\ Lengths \subseteq Nat /\ VarLens \cup FixedLens \subseteq Nat \ {0}
    /\ MaxRequired \in Nat /\ MaxDepth \in Nat \ {0}

VARIABLES frames, depth,  \* the stack of calls
          ret,            \* what the innermost one returned, or "none"
          call,           \* what the caller asked for, or is left with
          root,           \* the type of his struct
          mem,            \* what is in it
          lost            \* observer: blocks no pointer leads to any more

vars == <<frames, depth, ret, call, root, mem, lost>>

Wires == {"varint", "fixed", "string", "invalid"}
Phases == {"tag", "skip", "field", "value", "inside"}

Frame == [kind : {"message", "packed", "callback", "outer"},
          msg : Messages, obj : Seq(Messages \X Nat \X Nat),
          owns : BOOLEAN,        \* a pb_decode, not a pb_decode_noinit
          left : Nat, at : Nat,  \* bytes_left, state
          end : Nat,             \* observer: where the stream ends
          phase : Phases, field : Nat, wire : Wires,
          seen : SUBSET Nat,     \* fields_seen
          fixed : Nat,           \* fixed_count_field
          room : Nat]            \* allocated_size of a packed array

Stream(kind, m, o, owns, at, size) ==
    [kind |-> kind, msg |-> m, obj |-> o, owns |-> owns,
     left |-> size, at |-> at, end |-> at + size,
     phase |-> IF kind = "message" THEN "tag" ELSE "value",
     field |-> 0, wire |-> "varint", seen |-> {}, fixed |-> 0, room |-> 0]

TypeOK ==
    /\ frames \in [1 .. MaxDepth -> Frame] /\ depth \in 1 .. MaxDepth
    /\ ret \in {"none", "ok", "fail"}
    /\ call \in {"idle", "decode", "merge", "held", "broken"}
    /\ root \in Roots /\ MemoryType(mem) /\ lost \in Nat

Top == frames[depth]
Field == Msg[Top.msg][Top.field]
Key == Member(Top.obj, Top.msg, Top.field)
Array(f) == f.rule \in {"repeated", "fixed"}
Packable(f) == f.type \in {"varint", "fixed"}

\* The item being read of the field of fr, and the field of a packed array.
ItemOf(fr) ==
    LET f == Msg[fr.msg][fr.field]
        key == Member(fr.obj, fr.msg, fr.field)
    IN  Append(fr.obj, <<fr.msg, fr.field,
                         IF Array(f) THEN Get(mem.count, key) ELSE 1>>)

Busy == call \in {"decode", "merge"}
Running(kind, phase) ==
    Busy /\ ret = "none" /\ Top.kind = kind /\ Top.phase = phase

\* Mutant: what was read stays in the stream.
Took_Nothing(fr, n) == fr

Took(fr, n) == [fr EXCEPT !.left = @ - n, !.at = @ + n]

\* Back to the loop of pb_decode_noinit, where tag and wire type are read anew.
NextTag(fr) == [fr EXCEPT !.phase = "tag", !.field = 0, !.wire = "varint"]

Stay(fr, m) ==
    /\ frames' = [frames EXCEPT ![depth] = fr] /\ mem' = m
    /\ UNCHANGED <<depth, ret, call, root>>

Push(parent, child) ==
    /\ depth < MaxDepth /\ depth' = depth + 1
    /\ frames' = [frames EXCEPT ![depth] = parent, ![depth + 1] = child]
    /\ UNCHANGED <<ret, call, root>>

\* A failing pb_decode releases its message, a failing pb_decode_noinit does not.
Fail(m) ==
    /\ ret' = "fail"
    /\ mem' = IF Top.owns THEN ReleaseObject(m, Top.obj) ELSE m
    /\ UNCHANGED <<frames, depth, call, root, lost>>

Succeed == ret' = "ok" /\ UNCHANGED <<frames, depth, call, root, mem, lost>>

-----------------------------------------------------------------------------
(* pb_decode_noinit, field by field *)

Required(m) == {i \in DOMAIN Msg[m] : Msg[m][i].rule = "required"}

\* The required fields that have a bit in fields_seen.
Checked(m) ==
    {i \in Required(m) : Cardinality({k \in Required(m) : k < i}) < MaxRequired}

\* Mutant: a fixed-count array only has to begin.
Short_Begun(fr) ==
    /\ fr.fixed # 0
    /\ Get(mem.count, Member(fr.obj, fr.msg, fr.fixed)) = 0

\* The last fixed-count array is neither unseen nor full.
Short(fr) ==
    /\ fr.fixed # 0
    /\ Get(mem.count, Member(fr.obj, fr.msg, fr.fixed)) # Msg[fr.msg][fr.fixed].cap

\* Mutant: the mask at the end leaves out the last required field.
Missing_NotLast(fr) ==
    \E i, k \in Checked(fr.msg) : i < k /\ i \notin fr.seen

Missing(fr) == ~ Checked(fr.msg) \subseteq fr.seen

\* The end of the stream, or a zero tag before it.
EndOfMessage ==
    /\ Running("message", "tag")
    /\ IF Short(Top) \/ Missing(Top)
       THEN Fail(mem)
       ELSE /\ \E n \in {0, 1} :
                  /\ n = 0 <=> Top.left = 0
                  /\ frames' = [frames EXCEPT ![depth] = Took(Top, n)]
            /\ ret' = "ok" /\ UNCHANGED <<depth, call, root, mem, lost>>

UnknownField(w) ==
    /\ Running("message", "tag") /\ Top.left > 0
    /\ Stay([Took(Top, 1) EXCEPT !.phase = "skip", !.wire = w], mem)
    /\ UNCHANGED lost

SkipLens(w) ==
    CASE w = "varint" -> VarLens
      [] w = "fixed" -> FixedLens
      [] w = "string" -> {1 + n : n \in Lengths}
      [] OTHER -> {}

SkipField ==
    /\ Running("message", "skip")
    /\ \E n \in SkipLens(Top.wire) :
          n <= Top.left /\ Stay(NextTag(Took(Top, n)), mem)
    /\ UNCHANGED lost

\* Only arrays of scalars and callbacks look at the wire type.
Looks(f) == f.alloc = "callback" \/ (Array(f) /\ Packable(f))

\* A field of the message: a fixed-count array begins, or goes on.
KnownField(i, w) ==
    /\ Running("message", "tag") /\ Top.left > 0 /\ i \in DOMAIN Msg[Top.msg]
    /\ LET f == Msg[Top.msg][i]
           fresh == f.rule = "fixed" /\ Top.fixed # i
           fr == [Took(Top, 1) EXCEPT
                    !.phase = "field", !.field = i, !.wire = IF Looks(f) THEN w ELSE @,
                    !.fixed = IF fresh THEN i ELSE @,
                    !.seen = IF i \in Checked(Top.msg) THEN @ \cup {i} ELSE @]
       IN  IF fresh /\ Short(Top) THEN Fail(mem)
           ELSE Stay(fr, IF fresh THEN Counted(mem, Member(Top.obj, Top.msg, i), 0) ELSE mem)
    /\ UNCHANGED lost

-----------------------------------------------------------------------------
(* decode_field up to the first read *)

\* pb_release_union_field: another member of the union goes first.
Others(m) ==
    {p \in m.has : Front(p) = Top.obj /\ p # Key /\ FieldAt(Last(p)).rule = "oneof"}
UnionReleased ==
    IF Field.rule = "oneof" /\ Others(mem) # {}
    THEN ReleaseField(mem, CHOOSE p \in Others(mem) : TRUE)
    ELSE mem

ToValue(m) == Stay([Top EXCEPT !.phase = "value"], m)

BeginStatic ==
    /\ Running("message", "field") /\ Field.alloc = "static" /\ ~ Array(Field)
    /\ LET item == Append(Top.obj, <<Top.msg, Top.field, 1>>)
           old == UnionReleased
       IN  CASE Field.rule = "required" -> ToValue(old) /\ UNCHANGED lost
             [] Field.rule = "optional" ->
                   ToValue([old EXCEPT !.has = @ \cup {Key}]) /\ UNCHANGED lost
             [] Field.rule = "oneof" ->
                   IF Field.type = "message"
                   THEN ToValue(Cleared(Which(old, Key), item)) /\ lost' = lost + Forgets(old, item)
                   ELSE ToValue(Which(old, Key)) /\ UNCHANGED lost

\* Mutant: a submessage that is there already is not released.
BeginPointer_KeepsOld ==
    /\ Running("message", "field") /\ Field.alloc = "pointer" /\ ~ Array(Field)
    /\ LET old == UnionReleased
           named == IF Field.rule = "oneof" THEN Which(old, Key) ELSE old
           item == Append(Top.obj, <<Top.msg, Top.field, 1>>)
       IN  \/ Field.type = "text" /\ ToValue(named) /\ UNCHANGED lost
           \/ /\ Field.type # "text"
              /\ ToValue(Cleared(Allocated(named, Key, 1), item))
              /\ lost' = lost + Forgets(named, item)
           \/ Field.type # "text" /\ Fail(named)

\* A submessage that is there already is released first.
BeginPointer ==
    /\ Running("message", "field") /\ Field.alloc = "pointer" /\ ~ Array(Field)
    /\ LET old == UnionReleased
           free == IF Field.type = "message" /\ Key \in old.ptr
                   THEN ReleaseField(old, Key) ELSE old
           named == IF Field.rule = "oneof" THEN Which(free, Key) ELSE free
           item == Append(Top.obj, <<Top.msg, Top.field, 1>>)
       IN  \/ Field.type = "text" /\ ToValue(named) /\ UNCHANGED lost
           \/ /\ Field.type # "text"
              /\ ToValue(Cleared(Allocated(named, Key, 1), item))
              /\ lost' = lost + Forgets(named, item)
           \/ Field.type # "text" /\ Fail(named)   \* realloc failed

OneByOne ==
    /\ Running("message", "field") /\ Array(Field)
    /\ ~ (Packable(Field) /\ Top.wire = "string")

\* Mutant: room for one item more.
BeginStaticItem_OneMore ==
    /\ OneByOne /\ Field.alloc = "static"
    /\ LET n == Get(mem.count, Key)
           more == Counted(mem, Key, n + 1)
       IN  IF n > Field.cap THEN Fail(more) ELSE ToValue(more) /\ UNCHANGED lost

BeginStaticItem ==
    /\ OneByOne /\ Field.alloc = "static"
    /\ LET n == Get(mem.count, Key)
           more == Counted(mem, Key, n + 1)
       IN  IF n >= Field.cap THEN Fail(more) ELSE ToValue(more) /\ UNCHANGED lost

\* The item is counted before there is room for it, and stays counted when there
\* is none: what a release then reads of it is not modelled.
BeginPointerItem ==
    /\ OneByOne /\ Field.alloc = "pointer"
    /\ LET n == Get(mem.count, Key) + 1
           more == Counted(mem, Key, n)
           item == Append(Top.obj, <<Top.msg, Top.field, n>>)
       IN  IF n > SizeMax THEN Fail(mem)
           ELSE \/ Fail(more)                      \* realloc failed
                \/ /\ ToValue(Cleared(Allocated(more, Key, n), item))
                   /\ lost' = lost + Forgets(mem, item)

-----------------------------------------------------------------------------
(* Values *)

ReadDone(fr, m) ==
    Stay(NextTag(fr),
         IF Field.rule = "required"
         THEN [m EXCEPT !.done = Put(@, fr.obj, @[fr.obj] \cup {fr.field})] ELSE m)

ScalarLens(f) == IF f.type = "varint" THEN VarLens ELSE {f.width}

ReadScalar ==
    /\ Running("message", "value") /\ Packable(Field)
    /\ \E n \in ScalarLens(Field) : n <= Top.left /\ ReadDone(Took(Top, n), mem)
    /\ UNCHANGED lost

\* Where pb_dec_bytes and pb_dec_string keep the pointer to what they read.
TextSlot == IF Array(Field) THEN ItemOf(Top) ELSE Key
WithText == IF Field.alloc = "pointer" THEN Allocated(mem, TextSlot, 1) ELSE mem

ReadText ==
    /\ Running("message", "value") /\ Field.type = "text"
    /\ \E n \in Lengths :
          /\ 1 + n <= Top.left /\ (Field.alloc = "static" => n < Field.width)
          /\ ReadDone(Took(Top, 1 + n), WithText)
    /\ UNCHANGED lost

\* The text is allocated by its length and then ends too early.
TextCut ==
    /\ Running("message", "value") /\ Field.type = "text" /\ Field.alloc = "pointer"
    /\ \E n \in Lengths : 1 <= Top.left /\ Top.left < 1 + n
    /\ Fail(WithText)

\* pb_make_string_substream: the parent gives up the bytes at once.
Substream(kind, m, o, owns, n) ==
    Stream(kind, m, o, owns, Top.at + 1, n)
\* Mutant: the parent gives up a byte too many.
GaveUp_OneMore(n) ==
    [Top EXCEPT !.phase = "inside", !.left = @ - 2 - n, !.at = @ + 1]

GaveUp(n) == [Top EXCEPT !.phase = "inside", !.left = @ - 1 - n, !.at = @ + 1]

Entered(m, o) == [m EXCEPT !.done = Put(@, o, IF o \in DOMAIN @ THEN @[o] ELSE {})]

\* pb_dec_submessage: an item is decoded by pb_decode, a single submessage by
\* pb_decode_noinit.
OpenSubmessage ==
    /\ Running("message", "value") /\ Field.type = "message"
    /\ LET item == ItemOf(Top)
           owns == Field.rule = "repeated"
       IN  \E n \in Lengths :
              /\ 1 + n <= Top.left
              /\ Push(GaveUp(n), Substream("message", Field.sub, item, owns, n))
              /\ mem' = Entered(IF owns THEN Cleared(mem, item) ELSE mem, item)
              /\ lost' = lost + IF owns THEN Forgets(mem, item) ELSE 0

OpenPacked ==
    /\ Running("message", "field") /\ Array(Field) /\ Field.alloc # "callback"
    /\ Packable(Field) /\ Top.wire = "string"
    /\ \E n \in Lengths :
          /\ 1 + n <= Top.left
          /\ Push(GaveUp(n), [Substream("packed", Top.msg, Top.obj, FALSE, n) EXCEPT
                                !.field = Top.field, !.room = Get(mem.count, Key)])
    /\ UNCHANGED <<mem, lost>>

\* Nothing can be read: the bytes end, a varint is too long, a length or a wire
\* type is wrong, a text is too long for its member or cannot be allocated.
Reading ==
    \/ Running("message", "tag") /\ Top.left > 0
    \/ Running("message", "skip")
    \/ Running("message", "value") /\ (Field.type = "fixed" => Field.width > Top.left)
    \/ Running("message", "field")
          /\ \/ Field.alloc = "callback"
             \/ Array(Field) /\ Packable(Field) /\ Top.wire = "string"
    \/ Running("outer", "value")

Unreadable == Reading /\ Fail(mem)

-----------------------------------------------------------------------------
(* Packed arrays *)

Full(n) == Field.alloc = "static" /\ n >= Field.cap

PackedItem ==
    /\ Running("packed", "value") /\ Top.left > 0
    /\ LET n == Get(mem.count, Key)
       IN  /\ ~ Full(n) /\ (Field.alloc = "pointer" => n < Top.room)
           /\ \E k \in ScalarLens(Field) :
                 /\ k <= Top.left
                 /\ IF Field.alloc = "pointer" /\ n = SizeMax THEN Fail(mem)
                    ELSE Stay(Took(Top, k), Counted(mem, Key, n + 1))
    /\ UNCHANGED lost

\* Room for the items the bytes left would make at data_size each.
PackedGrow ==
    /\ Running("packed", "value") /\ Top.left > 0 /\ Field.alloc = "pointer"
    /\ Get(mem.count, Key) + 1 > Top.room
    /\ LET n == Top.room + ((Top.left - 1) \div Field.width) + 1
       IN  \/ Stay([Top EXCEPT !.room = n], Allocated(mem, Key, n))
           \/ Fail(mem)                            \* realloc failed
    /\ UNCHANGED lost

PackedUnreadable ==
    /\ Running("packed", "value") /\ Top.left > 0
    /\ ~ Full(Get(mem.count, Key))
    /\ Field.alloc = "pointer" => Get(mem.count, Key) < Top.room
    /\ Field.type = "fixed" => Field.width > Top.left
    /\ Fail(mem)

PackedEnd ==
    /\ Running("packed", "value")
    /\ \/ Top.left = 0 /\ Succeed
       \/ Top.left > 0 /\ Full(Get(mem.count, Key)) /\ Fail(mem)

-----------------------------------------------------------------------------
(* Callbacks *)

\* memset leaves no callback in what was allocated or is part of a union.
Handled ==
    /\ Field.handled
    /\ \A n \in DOMAIN Top.obj :
          FieldAt(Top.obj[n]).alloc = "static" /\ FieldAt(Top.obj[n]).rule # "oneof"

AtCallback == Running("message", "field") /\ Field.alloc = "callback"

SkipCallback ==
    /\ AtCallback /\ ~ Handled
    /\ Stay([Top EXCEPT !.phase = "skip"], mem) /\ UNCHANGED lost

\* A scalar is copied aside; what the callback leaves of it is nobody's.
CallbackScalar ==
    /\ AtCallback /\ Handled /\ Top.wire \in {"varint", "fixed"}
    /\ \E n \in SkipLens(Top.wire) :
          n <= Top.left /\ (Stay(NextTag(Took(Top, n)), mem) \/ Fail(mem))
    /\ UNCHANGED lost

OpenCallback ==
    /\ AtCallback /\ Handled /\ Top.wire = "string"
    /\ \E n \in Lengths :
          /\ 1 + n <= Top.left
          /\ Push(GaveUp(n), Substream("callback", Top.msg, Top.obj, FALSE, n))
    /\ UNCHANGED <<mem, lost>>

\* It is called until it has read everything, once if there is nothing.  The
\* caller's callback reads something when there is something, or fails.
CallbackReads ==
    /\ Running("callback", "value")
    /\ \/ Fail(mem)
       \/ \E n \in 1 .. Top.left : n < Top.left /\ Stay(Took(Top, n), mem)
       \/ /\ frames' = [frames EXCEPT ![depth] = Took(Top, Top.left)] /\ ret' = "ok"
          /\ UNCHANGED <<depth, call, root, mem>>
    /\ UNCHANGED lost

-----------------------------------------------------------------------------
(* The return of a nested call *)

Parent == frames[depth - 1]

\* pb_close_string_substream: what the child left is read, the parent goes on
\* behind it.  Two error paths return before that.
\* Mutant: the parent goes on where the child stopped.
Closed_NotRead == [Parent EXCEPT !.at = Top.at]

Closed ==
    IF ret = "fail" /\ (Top.kind = "callback"
                        \/ (Top.kind = "packed" /\ Field.alloc = "static" /\ Top.left > 0))
    THEN Parent
    ELSE [Parent EXCEPT !.at = Top.at + Top.left]

Return ==
    /\ Busy /\ ret # "none" /\ depth > 1 /\ depth' = depth - 1
    /\ IF Parent.kind = "message" /\ ret = "ok"
       THEN /\ ret' = "none"
            /\ frames' = [frames EXCEPT ![depth - 1] = NextTag(Closed)]
            /\ mem' = LET f == Msg[Parent.msg][Parent.field]
                      IN  IF f.rule = "required" /\ Top.kind = "message"
                          THEN [mem EXCEPT !.done =
                                  Put(@, Parent.obj, @[Parent.obj] \cup {Parent.field})]
                          ELSE mem
       ELSE /\ ret' = ret
            /\ frames' = [frames EXCEPT ![depth - 1] = Closed]
            /\ mem' = IF ret = "fail" /\ Parent.owns
                      THEN ReleaseObject(mem, Parent.obj) ELSE mem
    /\ UNCHANGED <<call, root, lost>>

-----------------------------------------------------------------------------
(* The caller *)

Start(c, m, fr) ==
    /\ call' = c /\ root' = m /\ ret' = "none" /\ depth' = 1
    /\ frames' = [d \in 1 .. MaxDepth |-> fr]

\* pb_decode into his struct, which first takes its defaults.
Decode(m, n) ==
    /\ call = "idle" /\ Start("decode", m, Stream("message", m, <<>>, TRUE, 0, n))
    /\ mem' = Entered(Nothing, <<>>)
    /\ lost' = lost + Cardinality(mem.ptr)

\* pb_decode_delimited: the stream begins with the length of the message.
DecodeDelimited(m, n) ==
    /\ call = "idle" /\ Start("decode", m, Stream("outer", m, <<>>, FALSE, 0, n))
    /\ UNCHANGED <<mem, lost>>

OpenDelimited ==
    /\ Running("outer", "value")
    /\ \E n \in Lengths :
          /\ 1 + n <= Top.left
          /\ Push(GaveUp(n), Substream("message", Top.msg, <<>>, TRUE, n))
    /\ mem' = Entered(Nothing, <<>>)
    /\ lost' = lost + Cardinality(mem.ptr)

\* pb_decode_noinit into a struct he zeroed, or into one he holds.
\* Mutant: a failing merge releases the message as well.
DecodeNoinit_Owns(m, n) ==
    /\ call \in {"idle", "held"} /\ (call = "held" => m = root)
    /\ Start("merge", m, Stream("message", m, <<>>, TRUE, 0, n))
    /\ mem' = IF call = "held" THEN mem ELSE Entered(Nothing, <<>>)
    /\ lost' = lost + IF call = "held" THEN 0 ELSE Cardinality(mem.ptr)

DecodeNoinit(m, n) ==
    /\ call \in {"idle", "held"} /\ (call = "held" => m = root)
    /\ Start("merge", m, Stream("message", m, <<>>, FALSE, 0, n))
    /\ mem' = IF call = "held" THEN mem ELSE Entered(Nothing, <<>>)
    /\ lost' = lost + IF call = "held" THEN 0 ELSE Cardinality(mem.ptr)

\* A released struct is not read again; only a pointer left in it would matter.
Unread(m) == [Nothing EXCEPT !.ptr = m.ptr]

\* After pb_decode's error the message is already released, after
\* pb_decode_noinit's the caller does it.
Finished ==
    /\ Busy /\ ret # "none" /\ depth = 1
    /\ call' = CASE ret = "ok" -> "held"
                 [] ret = "fail" /\ call = "merge" -> "broken"
                 [] OTHER -> "idle"
    /\ ret' = "none"
    /\ frames' = [d \in 1 .. MaxDepth |-> Stream("message", root, <<>>, FALSE, 0, 0)]
    /\ mem' = IF call' = "idle" THEN Unread(mem) ELSE mem
    /\ UNCHANGED <<depth, root, lost>>

Release ==
    /\ call \in {"held", "broken"}
    /\ mem' = Unread(ReleaseObject(mem, <<>>)) /\ call' = "idle"
    /\ UNCHANGED <<frames, depth, ret, root, lost>>

Init ==
    /\ root \in Roots /\ depth = 1 /\ ret = "none" /\ call = "idle"
    /\ frames = [d \in 1 .. MaxDepth |-> Stream("message", root, <<>>, FALSE, 0, 0)]
    /\ mem = Nothing /\ lost = 0

Caller ==
    \/ \E m \in Roots : \E n \in StreamSizes[m] :
          Decode(m, n) \/ DecodeDelimited(m, n) \/ DecodeNoinit(m, n)
    \/ Release

Walk ==
    \/ EndOfMessage \/ SkipField
    \/ \E w \in Wires : UnknownField(w) \/ \E i \in DOMAIN Msg[Top.msg] : KnownField(i, w)
    \/ BeginStatic \/ BeginPointer \/ BeginStaticItem \/ BeginPointerItem
    \/ ReadScalar \/ ReadText \/ TextCut \/ Unreadable
    \/ OpenSubmessage \/ OpenPacked \/ OpenDelimited
    \/ PackedItem \/ PackedGrow \/ PackedUnreadable \/ PackedEnd
    \/ SkipCallback \/ CallbackScalar \/ OpenCallback \/ CallbackReads
    \/ Return \/ Finished

Next == Caller \/ Walk

\* The decoder is a plain call: it runs on once entered.
Spec == Init /\ [][Next]_vars /\ WF_vars(Walk)

-----------------------------------------------------------------------------
(* Properties *)

\* A stream and the bytes left in it never drift apart: a substream ends where
\* its parent goes on, whatever a submessage, a packed array or a callback
\* left unread.
StreamsInStep ==
    Busy /\ ret # "fail" =>
        /\ Top.at + Top.left = Top.end
        /\ \A d \in 1 .. depth - 1 :
              /\ frames[d].phase = "inside"
              /\ frames[d + 1].end + frames[d].left = frames[d].end

\* Whatever the caller holds has its required fields, in every object that is
\* part of it: the first MaxRequired of each.
RequiredThere ==
    call = "held" =>
        \A o \in DOMAIN mem.done : InUse(mem, o) =>
            LET m == IF o = <<>> THEN root ELSE FieldAt(Last(o)).sub
            IN  {i \in Checked(m) : Msg[m][i].alloc # "callback"} \subseteq mem.done[o]

\* Whatever the caller holds has each fixed-count array whole or not at all,
\* in whatever order its items came.
FixedArraysWhole ==
    call = "held" =>
        \A p \in DOMAIN mem.count :
            FieldAt(Last(p)).rule = "fixed" => mem.count[p] \in {0, FieldAt(Last(p)).cap}

\* The item being decoded lies in its array, and no array the caller holds
\* counts more items than it has.
ItemsInRoom ==
    LET fits(p, n) ==
            n <= IF FieldAt(Last(p)).alloc = "static" THEN FieldAt(Last(p)).cap
                 ELSE Get(mem.room, p)
    IN  /\ Busy /\ ret = "none" =>
              \A d \in 1 .. depth :
                  LET fr == frames[d]
                      key == Member(fr.obj, fr.msg, fr.field)
                  IN  /\ fr.kind = "message" /\ fr.phase \in {"value", "inside"}
                      /\ Array(Msg[fr.msg][fr.field]) /\ Msg[fr.msg][fr.field].alloc # "callback"
                      => fits(key, Get(mem.count, key))
        /\ call = "held" => \A p \in DOMAIN mem.count : fits(p, mem.count[p])

\* No allocated block is ever forgotten by clearing what points to it.
NothingLost == lost = 0

\* A struct that failed pb_decode or was released holds no allocated block:
\* "If pb_decode() returns with an error, the message is already released."
ReleasedWhole == call = "idle" => mem.ptr = {}

\* A merge frees nothing but the field it is reading, or the union which that is
\* in, also when it fails: what else the first message left is the caller's.
MergeKeepsOthers ==
    [][call = "merge" /\ call' = "merge" =>
          \A p \in mem.ptr \ mem'.ptr :
              LET i == frames[1].field
                  union(k) == k \in DOMAIN Msg[root] /\ Msg[root][k].rule = "oneof"
              IN  p[1][2] = i \/ (union(i) /\ union(p[1][2]))]_vars

\* Every call returns.
DecoderReturns == Busy ~> ~ Busy
=============================================================================
