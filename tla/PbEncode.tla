------------------------------ MODULE PbEncode ------------------------------
(***************************************************************************)
(* nanopb's encoder: pb_encode walks the fields of a message and hands     *)
(* counts of bytes to pb_write.  A submessage is encoded twice, into a     *)
(* stream that only counts and then into a substream of exactly that size, *)
(* because its length goes first.  The stack of nested pb_encode calls is  *)
(* an array of frames, each with the stream it writes to; bytes are        *)
(* counted, their values are PbVarint's.                                   *)
(*                                                                         *)
(* The caller measures a message and then encodes it into a buffer, as     *)
(* GDTCCTEncodeBatchedLogRequest does, or only encodes it.  A user's       *)
(* callback may write another amount each time it is asked, or fail.       *)
(***************************************************************************)
EXTENDS Integers, Sequences, FiniteSets

CONSTANTS Messages,   \* the messages, numbered
          Msg,        \* the fields of each, with the values they hold
          Roots,      \* the messages the caller encodes
          Base,       \* values of a group of a varint (128)
          BufSizes,   \* sizes of the buffers the caller offers
          MaxDepth    \* bound: nested pb_encode calls

\* A field.  items are its values, none when it is absent: the number of a
\* varint, the length of a string, the message of a submessage.
FieldType ==
    [rule : {"required", "optional", "repeated", "oneof"},
     alloc : {"static", "pointer", "callback"},
     type : {"varint", "fixed", "string", "bytes", "submessage", "delimited"},
     tag : Nat,            \* the number pb_encode_tag passes on
     implicit : BOOLEAN,   \* proto3: no has_ field
     width : Nat,          \* data_size
     max : Nat,            \* array_size
     items : Seq(Nat),
     writes : SUBSET Nat]  \* what a callback may write when called

Whole(f) == f.type \in {"submessage", "delimited"}

ASSUME MessageAssumption ==
    /\ Msg \in [Messages -> Seq(FieldType)]
    /\ Roots \subseteq Messages /\ Messages \subseteq Nat
    /\ \A m \in Messages : \A i \in DOMAIN Msg[m] :
          Whole(Msg[m][i]) => Msg[m][i].items \in Seq(Messages)
    /\ Base \in Nat \ {0, 1} /\ BufSizes \subseteq Nat
    /\ MaxDepth \in Nat \ {0}

VARIABLES frames, depth,  \* the stack of pb_encode calls
          ret,            \* what the innermost one returned, or "none"
          call,           \* what the caller asked for
          root,           \* of which message
          sized,          \* the size he measured
          first,          \* observer: how the measuring ended
          limit,          \* the size of his buffer
          whole,          \* observer: completed lengths and the bytes behind them
          wild            \* observer: a callback had a choice of lengths or failed

vars == <<frames, depth, ret, call, root, sized, first, limit, whole, wild>>

Phases == {"field", "tag", "count", "len", "body", "measure", "inside"}

Frame == [msg : Messages, sizing : BOOLEAN,
          written : Nat, max : Nat,    \* bytes_written, max_size
          state : Nat,                 \* where in the buffer the next byte goes
          pos : Nat, item : Nat, phase : Phases,
          size : Nat,                  \* the length being put in front
          mark : Nat]                  \* observer: state when it had been put

NewFrame(m, sizing, max, state) ==
    [msg |-> m, sizing |-> sizing, written |-> 0, max |-> max, state |-> state,
     pos |-> 1, item |-> 1, phase |-> "field", size |-> 0, mark |-> 0]

\* A pb_encode into PB_OSTREAM_SIZING, and one into a stream with a buffer.
Counting(m) == NewFrame(m, TRUE, 0, 0)
Writer(m, max, state) == NewFrame(m, FALSE, max, state)

Calls == {"idle", "measured", "measure", "encode", "terminate"}

TypeOK ==
    /\ frames \in [1 .. MaxDepth -> Frame]
    /\ depth \in 1 .. MaxDepth
    /\ ret \in {"none", "ok", "fail"}
    /\ call \in Calls
    /\ root \in Messages
    /\ sized \in Nat /\ first \in {"none", "ok", "fail"} /\ limit \in Nat
    /\ whole \in SUBSET [prefix : Nat, body : Int]
    /\ wild \in BOOLEAN

Top == frames[depth]
Fields == Msg[Top.msg]
Field == Fields[Top.pos]
Item == Field.items[Top.item]

-----------------------------------------------------------------------------
(* Sizes *)

\* The bytes of pb_encode_varint(v); a 64-bit number has at most 10 groups.
VarintLen(v) == 1 + Cardinality({k \in 1 .. 9 : Base ^ k <= v})

Packed(f) == f.rule = "repeated" /\ f.type \in {"varint", "fixed"}

ScalarLen(f, x) == IF f.type = "varint" THEN VarintLen(x) ELSE f.width

\* pb_enc_string stops at the end of a static field.
TextLen(f, x) ==
    IF f.type = "string" /\ f.alloc = "static" /\ x > f.width THEN f.width ELSE x

\* pb_check_proto3_default_value.
Zero ==
    LET zero[m \in Messages] ==
            \A i \in DOMAIN Msg[m] :
                LET f == Msg[m][i]
                IN  /\ f.rule # "required"
                    /\ \/ f.items = <<>>
                       \/ /\ f.rule = "optional" /\ f.implicit /\ f.alloc = "static"
                          /\ IF Whole(f) THEN zero[f.items[1]] ELSE f.items[1] = 0
    IN  zero

\* Whether encode_basic_field encodes the field, given its has_ or which_ member,
\* its pointer or, in proto3, its value.
Has(f) ==
    /\ f.items # <<>>
    /\ f.rule = "optional" /\ f.implicit /\ f.alloc = "static" =>
          IF Whole(f) THEN ~ Zero[f.items[1]] ELSE f.items[1] # 0

-----------------------------------------------------------------------------
(* Streams *)

\* Mutant: room for one byte more.
Room_OneMore(fr, n) == fr.sizing \/ fr.written + n <= fr.max + 1

Room(fr, n) == fr.sizing \/ fr.written + n <= fr.max

\* A successful pb_write: a stream that only counts has no buffer.
Wrote(fr, n) ==
    [fr EXCEPT !.written = @ + n, !.state = IF fr.sizing THEN @ ELSE @ + n]

Goto(fr) ==
    /\ frames' = [frames EXCEPT ![depth] = fr]
    /\ UNCHANGED <<depth, ret, call, root, sized, first, limit>>

Return(result) ==
    /\ ret' = result
    /\ UNCHANGED <<frames, depth, call, root, sized, first, limit, whole>>

Push(fr, parent) ==
    /\ depth < MaxDepth /\ depth' = depth + 1
    /\ frames' = [frames EXCEPT ![depth] = parent, ![depth + 1] = fr]
    /\ UNCHANGED <<ret, call, root, sized, first, limit, whole, wild>>

NextField(fr) == [fr EXCEPT !.pos = @ + 1, !.item = 1, !.phase = "field"]
NextItem(fr) ==
    IF fr.item < Len(Field.items)
    THEN [fr EXCEPT !.item = @ + 1, !.phase = IF Packed(Field) THEN "body" ELSE "tag"]
    ELSE NextField(fr)

\* A length and the bytes that follow it, once these are all in the buffer.
Complete(fr) ==
    IF fr.sizing THEN whole ELSE whole \cup {[prefix |-> fr.size, body |-> fr.state - fr.mark]}

-----------------------------------------------------------------------------
(* pb_encode, field by field *)

Running(phase) == call \notin {"idle", "measured"} /\ ret = "none" /\ Top.phase = phase

AtField == Running("field") /\ Top.pos <= Len(Fields)

EndOfMessage ==
    Running("field") /\ Top.pos > Len(Fields) /\ Return("ok") /\ UNCHANGED wild

\* Mutant: the loop goes on without pb_field_iter_next.
SkipField_Stays ==
    /\ AtField /\ Field.alloc # "callback" /\ ~ Has(Field)
    /\ Field.rule # "required"
    /\ Goto(Top) /\ UNCHANGED <<whole, wild>>

SkipField ==
    /\ AtField /\ Field.alloc # "callback" /\ ~ Has(Field)
    /\ Field.rule # "required"
    /\ Goto(NextField(Top)) /\ UNCHANGED <<whole, wild>>

MissingRequired ==
    /\ AtField /\ Field.alloc # "callback" /\ ~ Has(Field)
    /\ Field.rule = "required"
    /\ Return("fail") /\ UNCHANGED wild

TooMany(f) == f.rule = "repeated" /\ f.alloc # "pointer" /\ Len(f.items) > f.max

ArrayTooLong ==
    /\ AtField /\ Field.alloc # "callback" /\ Has(Field) /\ TooMany(Field)
    /\ Return("fail") /\ UNCHANGED wild

BeginField ==
    /\ AtField /\ Field.alloc # "callback" /\ Has(Field) /\ ~ TooMany(Field)
    /\ Goto([Top EXCEPT !.phase = IF Field.type = "delimited" THEN "measure" ELSE "tag"])
    /\ UNCHANGED <<whole, wild>>

\* encode_callback_field: the user writes what he likes and reports a full
\* stream, or fails.
Callback ==
    /\ AtField /\ Field.alloc = "callback"
    /\ \E n \in Field.writes :
          /\ wild' = (wild \/ Field.writes # {n})
          /\ \/ Room(Top, n) /\ Goto(NextField(Wrote(Top, n))) /\ UNCHANGED whole
             \/ ~ Room(Top, n) /\ Return("fail")

CallbackFails ==
    /\ AtField /\ Field.alloc = "callback"
    /\ Return("fail") /\ wild' = TRUE

\* What the next pb_write of the field is given.
Chunk ==
    CASE Top.phase = "tag" -> VarintLen(Field.tag)
      [] Top.phase = "len" -> VarintLen(Top.size)
      [] Top.phase = "body" ->
            IF Field.type \in {"string", "bytes"} THEN TextLen(Field, Item)
            ELSE IF Whole(Field) \/ (Packed(Field) /\ Top.sizing) THEN Top.size
            ELSE ScalarLen(Field, Item)

Writing == {"tag", "len", "body"}

StreamFull ==
    /\ \E p \in Writing : Running(p)
    /\ ~ Room(Top, Chunk)
    /\ Return("fail") /\ UNCHANGED wild

\* pb_enc_bytes refuses a size its static field cannot hold, after the tag.
Oversize(f, x) == f.type = "bytes" /\ f.alloc = "static" /\ x > f.width

PutTag ==
    /\ Running("tag") /\ Room(Top, Chunk)
    /\ LET fr == Wrote(Top, Chunk)
       IN  \/ Packed(Field) /\ Field.type = "varint"
              /\ Goto([fr EXCEPT !.phase = "count", !.size = 0])
           \/ Packed(Field) /\ Field.type = "fixed"
              /\ Goto([fr EXCEPT !.phase = "len", !.size = Field.width * Len(Field.items)])
           \/ Field.type \in {"varint", "fixed"} /\ ~ Packed(Field)
              /\ Goto([fr EXCEPT !.phase = "body"])
           \/ Field.type \in {"string", "bytes"} /\ ~ Oversize(Field, Item)
              /\ Goto([fr EXCEPT !.phase = "len", !.size = TextLen(Field, Item)])
           \/ Field.type \in {"string", "bytes"} /\ Oversize(Field, Item)
              /\ frames' = [frames EXCEPT ![depth] = fr] /\ ret' = "fail"
              /\ UNCHANGED <<depth, call, root, sized, first, limit>>
           \/ Whole(Field) /\ Goto([fr EXCEPT !.phase = "measure"])
    /\ UNCHANGED <<whole, wild>>

\* Mutant: the last item is not counted.
CountItem_NotLast ==
    /\ Running("count")
    /\ Goto(IF Top.item < Len(Field.items)
            THEN [Top EXCEPT !.item = @ + 1, !.size = @ + ScalarLen(Field, Item)]
            ELSE [Top EXCEPT !.item = 1, !.phase = "len"])
    /\ UNCHANGED <<whole, wild>>

\* The sizing pass of a packed array, an item a step.
CountItem ==
    /\ Running("count")
    /\ LET fr == [Top EXCEPT !.size = @ + ScalarLen(Field, Item)]
       IN  Goto(IF Top.item < Len(Field.items)
                THEN [fr EXCEPT !.item = @ + 1]
                ELSE [fr EXCEPT !.item = 1, !.phase = "len"])
    /\ UNCHANGED <<whole, wild>>

\* The length; behind it a substream of that size, when it fits.
PutLength ==
    /\ Running("len") /\ Room(Top, Chunk)
    /\ LET fr == [Wrote(Top, Chunk) EXCEPT !.mark = Wrote(Top, Chunk).state]
       IN  IF ~ Whole(Field) \/ Top.sizing
           THEN Goto([fr EXCEPT !.phase = "body"]) /\ UNCHANGED <<whole, wild>>
           ELSE \/ /\ Room(fr, fr.size)
                   /\ Push(Writer(Item, fr.size, fr.state),
                           [fr EXCEPT !.phase = "inside"])
                \/ /\ ~ Room(fr, fr.size)
                   /\ frames' = [frames EXCEPT ![depth] = fr] /\ ret' = "fail"
                   /\ UNCHANGED <<depth, call, root, sized, first, limit, whole, wild>>

PutBody ==
    /\ Running("body") /\ Room(Top, Chunk)
    /\ LET fr == Wrote(Top, Chunk)
           last == Top.item = Len(Field.items)
       IN  /\ Goto(IF Packed(Field) /\ Top.sizing THEN NextField(fr) ELSE NextItem(fr))
           /\ whole' = IF Field.type \in {"string", "bytes"} \/ (Packed(Field) /\ last)
                       THEN Complete(fr) ELSE whole
    /\ UNCHANGED wild

\* pb_encode_submessage: first the size, with a stream that only counts.
Measure ==
    Running("measure") /\ Push(Counting(Item), Top)

-----------------------------------------------------------------------------
(* The return of a nested pb_encode *)

Parent == frames[depth - 1]
Returning(phase) == ret # "none" /\ depth > 1 /\ Parent.phase = phase

Pop(fr, result) ==
    /\ frames' = [frames EXCEPT ![depth - 1] = fr]
    /\ depth' = depth - 1 /\ ret' = result
    /\ UNCHANGED <<call, root, sized, first, limit, wild>>

Measured ==
    /\ Returning("measure")
    /\ IF ret = "ok" THEN Pop([Parent EXCEPT !.size = Top.written, !.phase = "len"], "none")
                     ELSE Pop(Parent, "fail")
    /\ UNCHANGED whole

\* Mutant: a substream's bytes count only when it succeeded.
Encoded_OnlySuccess ==
    /\ Returning("inside")
    /\ LET f == Msg[Parent.msg][Parent.pos]
           fr == [Parent EXCEPT !.written = IF ret = "ok" THEN @ + Top.written ELSE @,
                                !.state = Top.state]
           next == IF fr.item < Len(f.items)
                   THEN [fr EXCEPT !.item = @ + 1, !.phase = "tag"]
                   ELSE NextField(fr)
       IN  IF Top.written # Parent.size \/ ret = "fail"
           THEN Pop(fr, "fail") /\ UNCHANGED whole
           ELSE Pop(next, "none") /\ whole' = Complete(fr)

\* Mutant: the size is not compared with what was written.
Encoded_AnySize ==
    /\ Returning("inside")
    /\ LET fr == [Parent EXCEPT !.written = @ + Top.written, !.state = Top.state]
           f == Msg[fr.msg][fr.pos]
           next == IF fr.item < Len(f.items)
                   THEN [fr EXCEPT !.item = @ + 1, !.phase = "tag"]
                   ELSE NextField(fr)
       IN  IF ret = "fail"
           THEN Pop(fr, "fail") /\ UNCHANGED whole
           ELSE Pop(next, "none") /\ whole' = Complete(fr)

\* The substream's bytes are the parent's, whatever it returned.
Encoded ==
    /\ Returning("inside")
    /\ LET fr == [Parent EXCEPT !.written = @ + Top.written, !.state = Top.state]
           f == Msg[fr.msg][fr.pos]
           next == IF fr.item < Len(f.items)
                   THEN [fr EXCEPT !.item = @ + 1, !.phase = "tag"]
                   ELSE NextField(fr)
       IN  IF Top.written # Parent.size \/ ret = "fail"
           THEN Pop(fr, "fail") /\ UNCHANGED whole
           ELSE Pop(next, "none") /\ whole' = Complete(fr)

-----------------------------------------------------------------------------
(* The caller *)

Start(m, c, fr) ==
    /\ call' = c /\ root' = m /\ ret' = "none" /\ depth' = 1
    /\ frames' = [d \in 1 .. MaxDepth |-> fr]
    /\ limit' = fr.max /\ whole' = {}

\* pb_get_encoded_size, or a pb_encode into PB_OSTREAM_SIZING.
GetSize(m) ==
    /\ call = "idle" /\ Start(m, "measure", Counting(m))
    /\ wild' = FALSE /\ UNCHANGED <<sized, first>>

\* pb_encode and pb_encode_nullterminated into a buffer of n bytes.
Encode(m, c, n) ==
    /\ call = "idle" /\ Start(m, c, Writer(m, n, 0))
    /\ wild' = FALSE /\ UNCHANGED <<sized, first>>

\* GDTCCTEncodeBatchedLogRequest goes on, whether the size was found or not.
EncodeMeasured ==
    /\ call = "measured" /\ Start(root, "encode", Writer(root, sized, 0))
    /\ UNCHANGED <<sized, first, wild>>

Over == ret # "none" /\ depth = 1 /\ call \notin {"idle", "measured"}

SizeKnown ==
    /\ Over /\ call = "measure"
    /\ sized' = Top.written /\ first' = ret /\ call' = "measured"
    /\ UNCHANGED <<frames, depth, ret, root, limit, whole, wild>>

\* pb_encode_nullterminated adds its zero.
Terminate ==
    /\ Over /\ call = "terminate" /\ ret = "ok"
    /\ call' = "encode"
    /\ IF Room(Top, 1) THEN frames' = [frames EXCEPT ![1] = Wrote(Top, 1)] /\ UNCHANGED ret
                       ELSE ret' = "fail" /\ UNCHANGED frames
    /\ UNCHANGED <<depth, root, sized, first, limit, whole, wild>>

Finished ==
    /\ Over /\ (call = "encode" \/ (call = "terminate" /\ ret = "fail"))
    /\ frames' = [d \in 1 .. MaxDepth |-> Counting(root)]
    /\ call' = "idle" /\ ret' = "none" /\ sized' = 0 /\ first' = "none" /\ limit' = 0
    /\ whole' = {} /\ wild' = FALSE
    /\ UNCHANGED <<depth, root>>

Init ==
    /\ root \in Roots
    /\ frames = [d \in 1 .. MaxDepth |-> Counting(root)]
    /\ depth = 1 /\ ret = "none" /\ call = "idle"
    /\ sized = 0 /\ first = "none" /\ limit = 0 /\ whole = {} /\ wild = FALSE

Fresh ==
    \E m \in Roots : \/ GetSize(m)
                     \/ \E n \in BufSizes, c \in {"encode", "terminate"} : Encode(m, c, n)

Walk == \/ EndOfMessage \/ SkipField \/ MissingRequired \/ ArrayTooLong \/ BeginField
        \/ Callback \/ CallbackFails \/ StreamFull \/ PutTag \/ CountItem \/ PutLength \/ PutBody
        \/ Measure \/ Measured \/ Encoded
        \/ SizeKnown \/ Terminate \/ Finished
        \/ EncodeMeasured

Next == Fresh \/ Walk

\* The encoder is a plain call: it runs on once entered.
Spec == Init /\ [][Next]_vars /\ WF_vars(Walk)

-----------------------------------------------------------------------------
(* Properties *)

\* No byte is put past the end of the caller's buffer, by any substream.
InBuffer ==
    \A d \in 1 .. depth : ~ frames[d].sizing => frames[d].state <= limit

\* A stream never exceeds its max_size, and the substream of a submessage
\* never has more room than its parent has left.
StreamsNested ==
    \A d \in 1 .. depth : ~ frames[d].sizing =>
        /\ frames[d].written <= frames[d].max
        /\ d < depth /\ frames[d].phase = "inside" =>
              /\ ~ frames[d + 1].sizing
              /\ frames[d + 1].max <= frames[d].max - frames[d].written

\* bytes_written is the number of bytes in the buffer when a call returns,
\* when it fails too: GDTCCTEncodeBatchedLogRequest cuts its data there.
CountsWhatItPut ==
    Over /\ ~ Top.sizing => Top.state = Top.written

\* The length in front of a submessage, a string or a packed array is the
\* number of bytes behind it, whatever the callbacks did between the two passes.
LengthsTrue == \A w \in whole : w.prefix = w.body

\* A buffer of the measured size is filled to the last byte: unless a callback
\* failed or had a choice of what to write, the second pass ends as the first did.
MeasuredSizeFits ==
    Over /\ call = "encode" /\ first # "none" /\ ~ wild =>
        ret = first /\ (ret = "ok" => Top.written = sized)

\* Every call returns.
EncoderReturns == (call # "idle") ~> (call = "idle")
=============================================================================
