------------------------------ MODULE PbVarint ------------------------------
(***************************************************************************)
(* The integers of nanopb's wire format: pb_encode_varint and the zigzag,  *)
(* fixed and tag encodings built on it, and the four loops that read a     *)
(* varint back: pb_decode_varint32_eof, pb_decode_varint, pb_skip_varint   *)
(* and the varint case of read_raw_value.  All four read the same bytes    *)
(* here, one byte a step, so what they make of them can be compared.       *)
(*                                                                         *)
(* A machine word is the set of the positions of its 1 bits: `|` is \cup,  *)
(* a shift moves the positions, a cast keeps those below the width.  The   *)
(* widths are parameters (7, 32, 64, 3 and 8 in the code).                 *)
(***************************************************************************)
EXTENDS Integers, Sequences, FiniteSetsExt

CONSTANTS Group,       \* payload bits of a byte of a varint (7)
          Word,        \* bits of uint32_t (32)
          Dword,       \* bits of uint64_t (64)
          WireBits,    \* bits of the wire type in a tag (3)
          BitposMod,   \* values of uint_fast8_t (256)
          Widths,      \* bits of the integer fields of a message (8, 16, 32, 64)
          RawMax,      \* bytes of decode_callback_field's buffer (10)
          FedBytes,    \* the bytes the environment may send
          MaxBytes     \* bound: bytes sent

Bits(w) == 0 .. w - 1
Byte == SUBSET (0 .. Group)

\* The position of the group that reaches the top bit of a w-bit word: 28 and
\* 63 in the code.
LastPos(w) == Group * ((w - 1) \div Group)

ASSUME WidthAssumption ==
    /\ Group \in Nat \ {0} /\ Word \in Nat /\ Dword \in Nat
    /\ Group < Word /\ Word < Dword
    /\ LastPos(Word) + Group < Dword   \* the two words end in different groups
    /\ WireBits \in 0 .. Word
    /\ Widths \subseteq 1 .. Word \cup {Dword}
    /\ BitposMod \in Nat /\ BitposMod > Dword + Group
    /\ RawMax \in Nat /\ Group * RawMax >= Dword
    /\ MaxBytes \in Nat
    /\ FedBytes \subseteq Byte

More(b) == Group \in b                        \* byte & 0x80
Low(b) == b \ {Group}                         \* byte & 0x7F
Shift(v, n, w) == {p + n : p \in v} \cap Bits(w)
ShiftRight(v, n) == {p - n : p \in {q \in v : q >= n}}
Not(v, w) == Bits(w) \ v
SignExtend(v, w) == IF w - 1 \in v THEN v \cup (w .. Dword - 1) ELSE v

-----------------------------------------------------------------------------
(* Encoders: the bytes each hands to pb_write. *)

\* The number of groups the loop of pb_encode_varint emits.
Groups(v) == IF v = {} THEN 1 ELSE Max(v) \div Group + 1

EncodeVarint(v) ==
    [i \in 1 .. Groups(v) |->
        (ShiftRight(v, Group * (i - 1)) \cap Bits(Group))
            \cup (IF i < Groups(v) THEN {Group} ELSE {})]

\* Mutant: the sign is not moved to the lowest bit.
Zigzag_Unsigned(v) == Shift(v, 1, Dword)

Zigzag(v) ==
    IF Dword - 1 \in v THEN Not(Shift(v, 1, Dword), Dword) ELSE Shift(v, 1, Dword)

EncodeFixed(v, w) ==
    [i \in 1 .. w \div (Group + 1) |->
        ShiftRight(v, (Group + 1) * (i - 1)) \cap Bits(Group + 1)]

EncodeTag(number, wiretype) == Shift(number, WireBits, Dword) \cup wiretype

\* What pb_enc_varint, pb_enc_uvarint and pb_enc_svarint encode for a field of
\* w bits that holds v.
EncVarint(v, w) == EncodeVarint(SignExtend(v, w))
EncUvarint(v) == EncodeVarint(v)
EncSvarint(v, w) == EncodeVarint(Zigzag(SignExtend(v, w)))

-----------------------------------------------------------------------------
(* Decoders of a whole value. *)

Unzigzag(v) ==
    IF 0 \in v THEN Not(ShiftRight(v, 1), Dword) ELSE ShiftRight(v, 1)

DecodeFixed(bytes) ==
    UNION {{p + (Group + 1) * (i - 1) : p \in bytes[i]} : i \in DOMAIN bytes}

DecodeTag(v) == [tag |-> ShiftRight(v, WireBits), wiretype |-> v \cap Bits(WireBits),
                 eof |-> v = {}]

\* A value read into a field of w bits, or the error "integer too large".
Narrow(s, w, clamped) ==
    IF clamped = s THEN [ok |-> TRUE, value |-> s \cap Bits(w)]
                   ELSE [ok |-> FALSE, value |-> {}]

DecVarint(v, w) ==
    LET s == IF w = Dword THEN v ELSE SignExtend(v \cap Bits(Word), Word)
    IN  Narrow(s, w, SignExtend(s \cap Bits(w), w))
DecUvarint(v, w) == Narrow(v, w, v \cap Bits(w))
DecSvarint(v, w) ==
    LET s == Unzigzag(v) IN Narrow(s, w, SignExtend(s \cap Bits(w), w))

-----------------------------------------------------------------------------
(* The four loops.  st: reading, done, overflow (refused) or eos. *)

VARIABLES fed,      \* the bytes sent so far
          r32, r64, \* pb_decode_varint32_eof, pb_decode_varint
          skip, raw,\* pb_skip_varint, read_raw_value
          ended,    \* the stream has ended
          exact     \* observer: the number the bytes spell, at no width

vars == <<fed, r32, r64, skip, raw, ended, exact>>

Statuses == {"reading", "done", "overflow", "eos"}
Reader == [st : Statuses, used : Nat]
WordReader(w) == [st : Statuses, used : Nat, value : SUBSET Bits(w), bitpos : Nat]

TypeOK ==
    /\ fed \in Seq(FedBytes)
    /\ r32 \in [st : Statuses, used : Nat, value : SUBSET Bits(Word),
                bitpos : 0 .. BitposMod - 1, eof : BOOLEAN]
    /\ r64 \in WordReader(Dword)
    /\ skip \in Reader /\ raw \in Reader
    /\ ended \in BOOLEAN
    /\ exact \in SUBSET Nat

Init ==
    /\ fed = <<>>
    /\ r32 = [st |-> "reading", used |-> 0, value |-> {}, bitpos |-> 0, eof |-> FALSE]
    /\ r64 = [st |-> "reading", used |-> 0, value |-> {}, bitpos |-> 0]
    /\ skip = [st |-> "reading", used |-> 0]
    /\ raw = [st |-> "reading", used |-> 0]
    /\ ended = FALSE
    /\ exact = {}

\* Mutant: no byte past the word has a bit, a sign's included.
Excess_AnyBit(r, b) == r.used > 0 /\ r.bitpos >= Word /\ Low(b) # {}

\* A byte past the word must repeat its sign: 0xFF, or 0x01 in the last group.
Extension(bitpos) ==
    IF bitpos < LastPos(Dword) THEN Bits(Group + 1) ELSE Bits(Dword - LastPos(Dword))
Excess(r, b) ==
    /\ r.used > 0 /\ r.bitpos >= Word
    /\ Low(b) # {}
    /\ Word - 1 \notin r.value \/ b # Extension(r.bitpos)
\* The last byte was at bitpos 28, so only its bottom 4 bits fit.
CutShort(r, b) ==
    /\ r.used > 0 /\ ~More(b)
    /\ (r.bitpos + Group) % BitposMod = LastPos(Word) + Group
    /\ \E p \in Low(b) : p + LastPos(Word) >= Word

Step32(r, b) ==
    [r EXCEPT !.used = @ + 1,
              !.value = IF r.bitpos >= Word THEN @ ELSE @ \cup Shift(Low(b), r.bitpos, Word),
              !.bitpos = (@ + Group) % BitposMod,
              !.st = IF Excess(r, b) \/ CutShort(r, b) THEN "overflow"
                     ELSE IF More(b) THEN "reading" ELSE "done"]

\* Mutant: the byte is shifted before it is cast to uint64_t.
Step64_ShiftsWord(r, b) ==
    [r EXCEPT !.used = @ + 1,
              !.value = @ \cup Shift(Low(b), r.bitpos, Word),
              !.bitpos = @ + Group,
              !.st = IF ~More(b) THEN "done"
                     ELSE IF r.bitpos + Group >= Dword THEN "overflow" ELSE "reading"]

Step64(r, b) ==
    [r EXCEPT !.used = @ + 1,
              !.value = @ \cup Shift(Low(b), r.bitpos, Dword),
              !.bitpos = @ + Group,
              !.st = IF ~More(b) THEN "done"
                     ELSE IF r.bitpos + Group >= Dword THEN "overflow" ELSE "reading"]

StepSkip(r, b) ==
    [r EXCEPT !.used = @ + 1, !.st = IF More(b) THEN "reading" ELSE "done"]

\* Mutant: the buffer is taken to be a byte shorter.
StepRaw_TooShort(r, b) ==
    [r EXCEPT !.used = @ + 1,
              !.st = IF r.used + 1 >= RawMax THEN "overflow"
                     ELSE IF ~More(b) THEN "done" ELSE "reading"]

StepRaw(r, b) ==
    [r EXCEPT !.used = @ + 1,
              !.st = IF ~More(b) THEN "done"
                     ELSE IF r.used + 1 >= RawMax THEN "overflow" ELSE "reading"]

Reading(r) == r.st = "reading"

\* One more byte arrives at every loop that still reads.
ReadByte(b) ==
    /\ ~ended /\ Len(fed) < MaxBytes
    /\ Reading(r32) \/ Reading(r64)
    /\ fed' = Append(fed, b)
    /\ exact' = exact \cup {p + Group * Len(fed) : p \in Low(b)}
    /\ r32' = IF Reading(r32) THEN Step32(r32, b) ELSE r32
    /\ r64' = IF Reading(r64) THEN Step64(r64, b) ELSE r64
    /\ skip' = IF Reading(skip) THEN StepSkip(skip, b) ELSE skip
    /\ raw' = IF Reading(raw) THEN StepRaw(raw, b) ELSE raw
    /\ UNCHANGED ended

AtEnd(r) == IF Reading(r) THEN [r EXCEPT !.st = "eos"] ELSE r

\* pb_readbyte and pb_read find bytes_left = 0.  Only a reader that has read
\* nothing yet reports the end as eof.
EndOfStream ==
    /\ ~ended /\ ended' = TRUE
    /\ r32' = [AtEnd(r32) EXCEPT !.eof = Reading(r32) /\ r32.used = 0]
    /\ r64' = AtEnd(r64) /\ skip' = AtEnd(skip) /\ raw' = AtEnd(raw)
    /\ UNCHANGED <<fed, exact>>

Next == EndOfStream \/ \E b \in FedBytes : ReadByte(b)

Spec == Init /\ [][Next]_vars

-----------------------------------------------------------------------------
(* Properties *)

Done(r) == r.st = "done"

\* What the bytes of an encoding spell.
Spelt(bytes) ==
    UNION {{p + Group * (i - 1) : p \in Low(bytes[i])} : i \in DOMAIN bytes}

\* pb_decode_varint delivers the number its bytes spell, modulo 2^64, having
\* read exactly the bytes up to the first without a continuation bit.
DecodeExact ==
    Done(r64) => r64.value = exact \cap Bits(Dword)

\* Whatever pb_decode_varint accepts, pb_skip_varint skips and read_raw_value
\* copies: the three leave the stream at the same byte, so an unknown field is
\* skipped exactly as far as a known one is read.
ReadersAgree ==
    Done(r64) => /\ Done(skip) /\ skip.used = r64.used
                 /\ Done(raw) /\ raw.used = r64.used

\* Every encoding pb_encode_varint makes is read back whole by the 64-bit loop;
\* the 32-bit loop, which reads the tags and lengths, refuses no uint32_t and
\* no sign extended int32_t, and delivers the low word of all it accepts.
EncodedReadBack ==
    fed # <<>> /\ exact \subseteq Bits(Dword) /\ fed = EncodeVarint(exact) =>
        /\ Done(r64) /\ r64.value = exact
        /\ exact = SignExtend(exact \cap Bits(Word), Word) \/ exact \subseteq Bits(Word)
               => Done(r32)
        /\ Done(r32) => r32.value = exact \cap Bits(Word)

\* A tag, encoded from the field number and the wire type that were read, is
\* spelt by the number they were read from, and is not the end of the message.
TagRoundTrip ==
    Done(r32) /\ r32.value # {} =>
        LET t == DecodeTag(r32.value)
        IN  ~t.eof /\ Spelt(EncodeVarint(EncodeTag(t.tag, t.wiretype))) = r32.value

\* A field of any width comes back from its encoding with the value it had,
\* for the plain, unsigned, zigzag and fixed encodings, and a tag with its
\* number and wire type.
FieldRoundTrip ==
    /\ TagRoundTrip
    /\ Done(r64) =>
        \A w \in Widths :
            LET f == r64.value \cap Bits(w)
                is(res) == res.ok /\ res.value = f
            IN  /\ is(DecVarint(Spelt(EncVarint(f, w)), w))
                /\ is(DecUvarint(Spelt(EncUvarint(f)), w))
                /\ is(DecSvarint(Spelt(EncSvarint(f, w)), w))
                /\ w % (Group + 1) = 0 => DecodeFixed(EncodeFixed(f, w)) = f

=============================================================================
