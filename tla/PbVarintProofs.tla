--------------------------- MODULE PbVarintProofs ---------------------------
(***************************************************************************)
(* For every width: the 64-bit loop delivers what its bytes spell, the     *)
(* readers of a varint stop at the same byte, both loops read back what    *)
(* pb_encode_varint makes, and no encoding of a field or a tag loses       *)
(* anything.                                                               *)
(***************************************************************************)
EXTENDS PbVarint, WellFoundedInduction, TLAPS

\* The 64-bit loop in step with the number spelt so far, and with the loops
\* that skip and copy.
R64Inv ==
    /\ Reading(r64) =>
          /\ r64.used = Len(fed) /\ r64.bitpos = Group * Len(fed)
          /\ r64.bitpos < Dword
          /\ Reading(skip) /\ skip.used = r64.used
          /\ Reading(raw) /\ raw.used = r64.used
    /\ Done(r64) => ~ Reading(r32)
    /\ Reading(r64) \/ Done(r64) => r64.value = exact \cap Bits(Dword)

IInv == TypeOK /\ R64Inv /\ ReadersAgree

-----------------------------------------------------------------------------
(* The value encodings. *)

\* What zigzag encoding does to a 64-bit number, decoding undoes.
THEOREM ZigzagRoundTrip ==
    ASSUME NEW v \in SUBSET Bits(Dword)
    PROVE  Unzigzag(Zigzag(v)) = v
<1>1. Dword \in Nat /\ Dword > 1
  BY WidthAssumption
<1> DEFINE s == Shift(v, 1, Dword)
<1>2. \A q \in Bits(Dword) : q \in s <=> q > 0 /\ q - 1 \in v
  BY <1>1 DEF Shift, Bits
<1>3. s \subseteq Bits(Dword) /\ 0 \notin s
  BY <1>1, <1>2 DEF Shift, Bits
<1>4. CASE Dword - 1 \in v
  <2>1. Zigzag(v) = Not(s, Dword)
    BY <1>4 DEF Zigzag
  <2>2. 0 \in Not(s, Dword)
    BY <1>1, <1>3 DEF Not, Bits
  <2> DEFINE h == ShiftRight(Not(s, Dword), 1)
  <2>3. Unzigzag(Zigzag(v)) = Not(h, Dword)
    BY <2>1, <2>2 DEF Unzigzag
  <2>4. \A q \in Bits(Dword) : q \in h <=> q + 1 \in Not(s, Dword)
    BY <1>1 DEF ShiftRight, Not, Bits
  <2>5. \A q \in Bits(Dword) : q \in h <=> q + 1 < Dword /\ q \notin v
    <3> SUFFICES ASSUME NEW q \in Bits(Dword)
                 PROVE  q \in h <=> q + 1 < Dword /\ q \notin v
      OBVIOUS
    <3>1. CASE q + 1 < Dword
      <4>1. q + 1 \in Bits(Dword) /\ q + 1 > 0 /\ (q + 1) - 1 = q
        BY <1>1, <3>1 DEF Bits
      <4>2. q + 1 \in s <=> q \in v
        BY <4>1, <1>2
      <4> HIDE DEF s, h
      <4> QED BY <4>1, <4>2, <2>4, <3>1 DEF Not
    <3>2. CASE ~ (q + 1 < Dword)
      <4>1. q + 1 \notin Bits(Dword)
        BY <1>1, <3>2 DEF Bits
      <4> HIDE DEF s, h
      <4> QED BY <4>1, <2>4, <3>2 DEF Not
    <3> QED BY <3>1, <3>2
  <2>6. \A q \in Bits(Dword) : q \in Not(h, Dword) <=> q \in v
    <3> SUFFICES ASSUME NEW q \in Bits(Dword)
                 PROVE  q \in Not(h, Dword) <=> q \in v
      OBVIOUS
    <3>1. q \in Not(h, Dword) <=> q \notin h
      BY DEF Not
    <3>2. ~ (q + 1 < Dword) => q = Dword - 1
      BY <1>1 DEF Bits
    <3> HIDE DEF h
    <3> QED BY <3>1, <3>2, <2>5, <1>4
  <2>7. Not(h, Dword) \subseteq Bits(Dword)
    BY DEF Not
  <2> HIDE DEF h
  <2> QED BY <2>3, <2>6, <2>7
<1>5. CASE Dword - 1 \notin v
  <2>1. Zigzag(v) = s
    BY <1>5 DEF Zigzag
  <2>2. Unzigzag(Zigzag(v)) = ShiftRight(s, 1)
    BY <2>1, <1>3 DEF Unzigzag
  <2>3. \A q \in v : q + 1 \in s
    BY <1>1, <1>2, <1>5 DEF Bits
  <2>4. \A q : q \in ShiftRight(s, 1) <=> \E p \in s : p >= 1 /\ q = p - 1
    BY DEF ShiftRight
  <2>5. \A q \in v : q \in ShiftRight(s, 1)
    <3> TAKE q \in v
    <3>1. q + 1 \in s /\ q + 1 >= 1 /\ q = (q + 1) - 1
      BY <2>3, <1>1 DEF Bits
    <3> HIDE DEF s
    <3> QED BY <3>1, <2>4
  <2>6. \A q \in ShiftRight(s, 1) : q \in v
    BY <1>2, <1>3, <2>4
  <2> HIDE DEF s
  <2> QED BY <2>2, <2>5, <2>6
<1> QED BY <1>4, <1>5

\* A signed field of any width comes back from the 64-bit number that
\* pb_enc_varint makes of it, through the int32_t cast of pb_dec_varint.
THEOREM SignedFieldRoundTrip ==
    ASSUME NEW w \in 1 .. Word \cup {Dword}, NEW f \in SUBSET Bits(w)
    PROVE  DecVarint(SignExtend(f, w), w) = [ok |-> TRUE, value |-> f]
<1>1. Word \in Nat /\ Dword \in Nat /\ Word < Dword /\ w \in Nat /\ 1 <= w
  BY WidthAssumption
<1> DEFINE x == SignExtend(f, w)
<1>2. x \cap Bits(w) = f
  <2>1. x = f \/ x = f \cup (w .. Dword - 1)
    BY DEF SignExtend
  <2>2. (w .. Dword - 1) \cap Bits(w) = {}
    BY <1>1 DEF Bits
  <2> HIDE DEF x
  <2> QED BY <2>1, <2>2
<1>3. SignExtend(x \cap Bits(w), w) = x
  BY <1>2
<1>4. CASE w = Dword
  <2>1. DecVarint(x, w) = Narrow(x, w, x)
    BY <1>4, <1>3 DEF DecVarint
  <2> HIDE DEF x
  <2>2. Narrow(x, w, x) = [ok |-> TRUE, value |-> x \cap Bits(w)]
    BY DEF Narrow
  <2>3. DecVarint(x, w) = [ok |-> TRUE, value |-> f]
    BY <2>1, <2>2, <1>2
  <2> QED BY <2>3 DEF x
<1>5. CASE w <= Word /\ w # Dword
  <2> DEFINE s == SignExtend(x \cap Bits(Word), Word)
  <2>1. s = x
    <3>1. CASE w - 1 \in f
      <4>1. x = f \cup (w .. Dword - 1)
        BY <3>1 DEF SignExtend
      <4>2. Word - 1 \in x /\ Word - 1 \in Bits(Word)
        BY <4>1, <3>1, <1>1, <1>5 DEF Bits
      <4>3. s = (x \cap Bits(Word)) \cup (Word .. Dword - 1)
        BY <4>2 DEF SignExtend
      <4>4. f \subseteq Bits(Word) /\ (Word .. Dword - 1) \subseteq (w .. Dword - 1)
        BY <1>1, <1>5 DEF Bits
      <4>5. \A q \in w .. Dword - 1 : q \in Bits(Word) \/ q \in Word .. Dword - 1
        BY <1>1, <1>5 DEF Bits
      <4> HIDE DEF x, s
      <4> QED BY <4>1, <4>3, <4>4, <4>5
    <3>2. CASE w - 1 \notin f
      <4>1. x = f
        BY <3>2 DEF SignExtend
      <4>2. f \subseteq Bits(Word)
        BY <1>1, <1>5 DEF Bits
      <4>3. Word - 1 \notin f
        BY <3>2, <1>1, <1>5 DEF Bits
      <4> QED BY <4>1, <4>2, <4>3 DEF SignExtend
    <3> QED BY <3>1, <3>2
  <2>2. DecVarint(x, w) = Narrow(x, w, x)
    BY <2>1, <1>3, <1>5 DEF DecVarint
  <2> HIDE DEF x, s
  <2>3. Narrow(x, w, x) = [ok |-> TRUE, value |-> x \cap Bits(w)]
    BY DEF Narrow
  <2>4. DecVarint(x, w) = [ok |-> TRUE, value |-> f]
    BY <2>2, <2>3, <1>2
  <2> QED BY <2>4 DEF x
<1>6. w = Dword \/ (w <= Word /\ w # Dword)
  <2>1. w \in 1 .. Word \/ w = Dword
    OBVIOUS
  <2> QED BY <2>1, <1>1
<1> QED BY <1>4, <1>5, <1>6

\* The number and the wire type of a tag are both in it.
LEMMA TagOfParts ==
    ASSUME NEW v \in SUBSET Bits(Word)
    PROVE  EncodeTag(DecodeTag(v).tag, DecodeTag(v).wiretype) = v
<1>1. Word \in Nat /\ Dword \in Nat /\ Word < Dword /\ WireBits \in 0 .. Word
  BY WidthAssumption
<1> DEFINE n == ShiftRight(v, WireBits)
           t == v \cap Bits(WireBits)
<1>2. EncodeTag(DecodeTag(v).tag, DecodeTag(v).wiretype) = Shift(n, WireBits, Dword) \cup t
  BY DEF EncodeTag, DecodeTag
<1>3. \A q \in v : q \in Shift(n, WireBits, Dword) \cup t
  <2> SUFFICES ASSUME NEW q \in v PROVE q \in Shift(n, WireBits, Dword) \cup t
    OBVIOUS
  <2>1. q \in Int /\ 0 <= q /\ q < Word
    BY <1>1 DEF Bits
  <2>2. CASE q < WireBits
    BY <2>1, <2>2, <1>1 DEF Bits
  <2>3. CASE q >= WireBits
    <3>1. q - WireBits \in n
      BY <2>3 DEF ShiftRight
    <3>2. (q - WireBits) + WireBits = q /\ q \in Bits(Dword)
      BY <1>1, <2>1 DEF Bits
    <3> HIDE DEF n
    <3> QED BY <3>1, <3>2 DEF Shift
  <2> QED BY <2>1, <2>2, <2>3, <1>1
<1>4. \A q \in Shift(n, WireBits, Dword) : q \in v
  BY <1>1 DEF Shift, ShiftRight, Bits
<1> HIDE DEF n
<1> QED BY <1>2, <1>3, <1>4

-----------------------------------------------------------------------------
(* The state machine. *)

\* The types hold before the first byte.
LEMMA TypeInit == Init => TypeOK
<1> SUFFICES ASSUME Init PROVE TypeOK
  OBVIOUS
<1>1. 0 \in 0 .. BitposMod - 1 /\ 0 \in Nat
  BY WidthAssumption
<1>2. r32 \in [st : Statuses, used : Nat, value : SUBSET Bits(Word),
               bitpos : 0 .. BitposMod - 1, eof : BOOLEAN]
  BY <1>1 DEF Init, Statuses
<1>3. r64 \in WordReader(Dword) /\ skip \in Reader /\ raw \in Reader
  BY <1>1 DEF Init, Statuses, WordReader, Reader
<1>4. fed \in Seq(FedBytes) /\ exact \in SUBSET Nat
  BY DEF Init
<1>5. ended \in BOOLEAN
  BY DEF Init
<1> QED BY <1>2, <1>3, <1>4, <1>5 DEF TypeOK

\* Every loop keeps its type over a byte.
LEMMA StepTypes ==
    ASSUME TypeOK, NEW b \in FedBytes
    PROVE  /\ Step32(r32, b) \in [st : Statuses, used : Nat, value : SUBSET Bits(Word),
                                   bitpos : 0 .. BitposMod - 1, eof : BOOLEAN]
           /\ Step64(r64, b) \in WordReader(Dword)
           /\ StepSkip(skip, b) \in Reader /\ StepRaw(raw, b) \in Reader
<1>1. b \in SUBSET (0 .. Group) /\ Low(b) \subseteq 0 .. Group
  BY WidthAssumption DEF Byte, Low
<1>2. Group \in Nat /\ BitposMod \in Nat /\ BitposMod > 0
  BY WidthAssumption
<1>3. ASSUME NEW n, NEW w PROVE Shift(Low(b), n, w) \subseteq Bits(w)
  BY DEF Shift
<1>4. Step64(r64, b) \in WordReader(Dword)
  <2> DEFINE st == IF ~More(b) THEN "done"
                   ELSE IF r64.bitpos + Group >= Dword THEN "overflow" ELSE "reading"
             v == r64.value \cup Shift(Low(b), r64.bitpos, Dword)
             u == r64.used + 1
             p == r64.bitpos + Group
  <2>1. Step64(r64, b) = [r64 EXCEPT !.used = u, !.value = v, !.bitpos = p, !.st = st]
    BY DEF Step64
  <2>2. st \in Statuses
    BY DEF Statuses
  <2>3. v \in SUBSET Bits(Dword)
    BY <1>3 DEF TypeOK, WordReader
  <2>4. u \in Nat /\ p \in Nat
    BY <1>2 DEF TypeOK, WordReader
  <2> HIDE DEF st, v, u, p
  <2> QED BY <2>1, <2>2, <2>3, <2>4 DEF TypeOK, WordReader
<1>5. Step32(r32, b) \in [st : Statuses, used : Nat, value : SUBSET Bits(Word),
                          bitpos : 0 .. BitposMod - 1, eof : BOOLEAN]
  <2> DEFINE st == IF Excess(r32, b) \/ CutShort(r32, b) THEN "overflow"
                   ELSE IF More(b) THEN "reading" ELSE "done"
             v == IF r32.bitpos >= Word THEN r32.value
                  ELSE r32.value \cup Shift(Low(b), r32.bitpos, Word)
             u == r32.used + 1
             p == (r32.bitpos + Group) % BitposMod
  <2>1. Step32(r32, b) = [r32 EXCEPT !.used = u, !.value = v, !.bitpos = p, !.st = st]
    BY DEF Step32
  <2>2. st \in Statuses
    BY DEF Statuses
  <2>3. v \in SUBSET Bits(Word)
    BY <1>3 DEF TypeOK
  <2>4. u \in Nat /\ p \in 0 .. BitposMod - 1
    BY <1>2 DEF TypeOK
  <2> HIDE DEF st, v, u, p
  <2> QED BY <2>1, <2>2, <2>3, <2>4 DEF TypeOK
<1>6. StepSkip(skip, b) \in Reader
  <2> DEFINE st == IF More(b) THEN "reading" ELSE "done"
             u == skip.used + 1
  <2>1. StepSkip(skip, b) = [skip EXCEPT !.used = u, !.st = st]
    BY DEF StepSkip
  <2>2. st \in Statuses /\ u \in Nat
    BY DEF Statuses, TypeOK, Reader
  <2> HIDE DEF st, u
  <2> QED BY <2>1, <2>2 DEF TypeOK, Reader
<1>7. StepRaw(raw, b) \in Reader
  <2> DEFINE st == IF ~More(b) THEN "done"
                   ELSE IF raw.used + 1 >= RawMax THEN "overflow" ELSE "reading"
             u == raw.used + 1
  <2>1. StepRaw(raw, b) = [raw EXCEPT !.used = u, !.st = st]
    BY DEF StepRaw
  <2>2. st \in Statuses
    BY DEF Statuses
  <2>3. u \in Nat
    BY DEF TypeOK, Reader
  <2> HIDE DEF st, u
  <2> QED BY <2>1, <2>2, <2>3 DEF TypeOK, Reader
<1> QED BY <1>4, <1>5, <1>6, <1>7

\* Every byte keeps the types.
LEMMA TypeNext == TypeOK /\ [Next]_vars => TypeOK'
<1> SUFFICES ASSUME TypeOK, [Next]_vars PROVE TypeOK'
  OBVIOUS
<1> USE DEF TypeOK
<1>1. CASE EndOfStream
  <2>1. r32' \in [st : Statuses, used : Nat, value : SUBSET Bits(Word),
                  bitpos : 0 .. BitposMod - 1, eof : BOOLEAN]
    <3> DEFINE e == Reading(r32) /\ r32.used = 0
    <3>1. e \in BOOLEAN
      BY DEF Reading
    <3>2. AtEnd(r32) \in [st : Statuses, used : Nat, value : SUBSET Bits(Word),
                          bitpos : 0 .. BitposMod - 1, eof : BOOLEAN]
      BY DEF AtEnd, Statuses
    <3>3. r32' = [AtEnd(r32) EXCEPT !.eof = e]
      BY <1>1 DEF EndOfStream
    <3> HIDE DEF e
    <3> QED BY <3>1, <3>2, <3>3
  <2>2. r64' \in WordReader(Dword)
    BY <1>1 DEF EndOfStream, AtEnd, WordReader, Statuses
  <2>3. skip' \in Reader /\ raw' \in Reader
    BY <1>1 DEF EndOfStream, AtEnd, Reader, Statuses
  <2>4. ended' \in BOOLEAN
    BY <1>1 DEF EndOfStream
  <2>5. fed' = fed /\ exact' = exact
    BY <1>1 DEF EndOfStream
  <2> QED BY <2>1, <2>2, <2>3, <2>4, <2>5
<1>2. ASSUME NEW b \in FedBytes, ReadByte(b) PROVE TypeOK'
  <2>1. fed' \in Seq(FedBytes)
    BY <1>2 DEF ReadByte
  <2>2. exact' \in SUBSET Nat
    <3>1. Low(b) \subseteq Nat /\ Group * Len(fed) \in Nat
      BY WidthAssumption DEF Byte, Low
    <3>2. exact' = exact \cup {p + Group * Len(fed) : p \in Low(b)}
      BY <1>2 DEF ReadByte
    <3> DEFINE n == Group * Len(fed)
    <3>3. \A p \in Low(b) : p + n \in Nat
      BY <3>1
    <3> HIDE DEF n
    <3> QED BY <3>1, <3>2, <3>3 DEF n
  <2>3. /\ r32' \in {r32, Step32(r32, b)} /\ r64' \in {r64, Step64(r64, b)}
        /\ skip' \in {skip, StepSkip(skip, b)} /\ raw' \in {raw, StepRaw(raw, b)}
    BY <1>2 DEF ReadByte
  <2>4. ended' = ended
    BY <1>2 DEF ReadByte
  <2> QED BY <2>1, <2>2, <2>3, <2>4, StepTypes
<1>3. CASE UNCHANGED vars
  BY <1>3 DEF vars
<1> QED BY <1>1, <1>2, <1>3 DEF Next

\* The states of the machine have their types, at every width.
THEOREM TypeCorrect == Spec => []TypeOK
<1> QED BY TypeInit, TypeNext, PTL DEF Spec

-----------------------------------------------------------------------------
(* The 64-bit loop. *)

\* The 64-bit loop begins at position 0, and so do the others.
LEMMA R64Init == Init => R64Inv /\ ReadersAgree
<1> SUFFICES ASSUME Init PROVE R64Inv /\ ReadersAgree
  OBVIOUS
<1>1. Len(fed) = 0 /\ Group * 0 = 0 /\ 0 < Dword
  BY WidthAssumption DEF Init
<1>2. r64.value = exact \cap Bits(Dword)
  BY DEF Init
<1> QED BY <1>1, <1>2 DEF Init, R64Inv, ReadersAgree, Reading, Done

\* A byte that leaves the 64-bit loop reading leaves the copying one reading.
LEMMA RoomToCopy ==
    ASSUME NEW n \in Nat, Group * n < Dword
    PROVE  n < RawMax
<1>1. Group \in Nat /\ Dword \in Nat /\ RawMax \in Nat /\ Group * RawMax >= Dword
  BY WidthAssumption
<1>2. ASSUME n >= RawMax PROVE FALSE
  <2>1. PICK k \in Nat : n = RawMax + k
    BY <1>1, <1>2
  <2>2. Group * n = Group * RawMax + Group * k /\ Group * k \in Nat
    BY <1>1, <2>1
  <2> QED BY <1>1, <2>2
<1> QED BY <1>1, <1>2

\* A byte read by the 64-bit loop keeps its value exact and the other loops with it.
LEMMA R64Step ==
    ASSUME TypeOK, R64Inv, NEW b \in FedBytes, ReadByte(b), Reading(r64)
    PROVE  R64Inv' /\ ReadersAgree'
<1>1. /\ r64' = Step64(r64, b) /\ skip' = StepSkip(skip, b) /\ raw' = StepRaw(raw, b)
      /\ fed' = Append(fed, b)
      /\ exact' = exact \cup {p + Group * Len(fed) : p \in Low(b)}
      /\ r32' \in {r32, Step32(r32, b)} /\ (Reading(r32) => r32' = Step32(r32, b))
  BY DEF ReadByte, R64Inv
<1>2. /\ r64.used = Len(fed) /\ r64.bitpos = Group * Len(fed) /\ Len(fed) \in Nat
      /\ skip.used = r64.used /\ raw.used = r64.used
      /\ r64.value = exact \cap Bits(Dword)
  BY DEF R64Inv, TypeOK
<1>3. Group \in Nat /\ Dword \in Nat /\ Len(fed') = Len(fed) + 1
  BY <1>1, WidthAssumption DEF TypeOK
<1>4. Group * Len(fed') = Group * Len(fed) + Group /\ Group * Len(fed) \in Nat
  BY <1>2, <1>3
<1>5. /\ r64'.used = r64.used + 1 /\ r64'.bitpos = r64.bitpos + Group
      /\ r64'.value = r64.value \cup Shift(Low(b), r64.bitpos, Dword)
  BY <1>1 DEF Step64, TypeOK, WordReader
<1>6. r64'.st = IF ~More(b) THEN "done"
                ELSE IF r64.bitpos + Group >= Dword THEN "overflow" ELSE "reading"
  BY <1>1 DEF Step64, TypeOK, WordReader
<1>7. skip'.used = skip.used + 1 /\ skip'.st = (IF More(b) THEN "reading" ELSE "done")
  BY <1>1 DEF StepSkip, TypeOK, Reader
<1>8. /\ raw'.used = raw.used + 1
      /\ raw'.st = IF ~More(b) THEN "done"
                   ELSE IF raw.used + 1 >= RawMax THEN "overflow" ELSE "reading"
  BY <1>1 DEF StepRaw, TypeOK, Reader
<1>9. r64'.value = exact' \cap Bits(Dword)
  <2> DEFINE n == Group * Len(fed)
             S == {p + n : p \in Low(b)}
  <2>1. Shift(Low(b), n, Dword) = S \cap Bits(Dword)
    BY DEF Shift
  <2>2. exact' = exact \cup S /\ r64.bitpos = n
    BY <1>1, <1>2
  <2> HIDE DEF n, S
  <2> QED BY <2>1, <2>2, <1>2, <1>5
<1>10. CASE ~ More(b)
  <2>1. r64'.st = "done" /\ skip'.st = "done" /\ raw'.st = "done"
    BY <1>6, <1>7, <1>8, <1>10
  <2>2. r32'.st # "reading"
    <3>1. CASE Reading(r32)
      <4>1. r32' = Step32(r32, b)
        BY <1>1, <3>1
      <4>2. r32'.st = IF Excess(r32, b) \/ CutShort(r32, b) THEN "overflow"
                      ELSE IF More(b) THEN "reading" ELSE "done"
        BY <4>1 DEF Step32, TypeOK
      <4> QED BY <4>2, <1>10
    <3>2. CASE ~ Reading(r32)
      BY <3>2 DEF ReadByte, Reading
    <3> QED BY <3>1, <3>2
  <2> QED BY <2>1, <2>2, <1>2, <1>5, <1>7, <1>8, <1>9 DEF R64Inv, ReadersAgree, Reading, Done
<1>11. CASE More(b)
  <2>1. r64'.st # "done" /\ skip'.st = "reading"
    BY <1>6, <1>7, <1>11
  <2>2. ASSUME r64'.st = "reading" PROVE raw'.st = "reading" /\ r64'.bitpos < Dword
    <3>1. r64.bitpos + Group < Dword
      BY <1>6, <1>11, <1>2, <1>3, <1>4, <2>2
    <3>2. Group * Len(fed') < Dword /\ Len(fed') \in Nat
      BY <3>1, <1>2, <1>3, <1>4
    <3>3. raw.used + 1 < RawMax
      BY <3>2, RoomToCopy, <1>2, <1>3
    <3>4. RawMax \in Nat
      BY WidthAssumption
    <3> QED BY <3>1, <3>3, <3>4, <1>2, <1>5, <1>8, <1>11
  <2>3. /\ r64'.used = Len(fed') /\ r64'.bitpos = Group * Len(fed')
        /\ skip'.used = r64'.used /\ raw'.used = r64'.used
    BY <1>2, <1>3, <1>4, <1>5, <1>7, <1>8
  <2> QED BY <2>1, <2>2, <2>3, <1>9 DEF R64Inv, ReadersAgree, Reading, Done
<1> QED BY <1>10, <1>11

\* Every step keeps what is known of the 64-bit loop.
LEMMA R64Next == IInv /\ [Next]_vars => R64Inv' /\ ReadersAgree'
<1> SUFFICES ASSUME IInv, [Next]_vars PROVE R64Inv' /\ ReadersAgree'
  OBVIOUS
<1> USE DEF IInv
<1>1. CASE EndOfStream
  <2>1. fed' = fed /\ exact' = exact /\ r64' = AtEnd(r64)
        /\ skip' = AtEnd(skip) /\ raw' = AtEnd(raw)
    BY <1>1 DEF EndOfStream
  <2>2. r64'.st # "reading"
    BY <2>1 DEF AtEnd, Reading, TypeOK, WordReader
  <2>3. ASSUME r64'.st = "done" PROVE r64' = r64
    BY <2>1, <2>3 DEF AtEnd, Reading, TypeOK, WordReader
  <2>4. r32'.st # "reading"
    <3> DEFINE e == Reading(r32) /\ r32.used = 0
    <3>1. r32' = [AtEnd(r32) EXCEPT !.eof = e]
      BY <1>1 DEF EndOfStream
    <3>2. r32'.st = AtEnd(r32).st
      BY <3>1 DEF AtEnd, TypeOK
    <3>3. AtEnd(r32).st # "reading"
      BY DEF AtEnd, Reading, TypeOK
    <3> QED BY <3>2, <3>3
  <2>5. ASSUME r64'.st = "done" PROVE skip' = skip /\ raw' = raw
    BY <2>1, <2>3, <2>5 DEF ReadersAgree, Done, AtEnd, Reading
  <2> QED BY <2>1, <2>2, <2>3, <2>4, <2>5 DEF R64Inv, ReadersAgree, Reading, Done
<1>2. ASSUME NEW b \in FedBytes, ReadByte(b) PROVE R64Inv' /\ ReadersAgree'
  <2>1. CASE Reading(r64)
    BY <1>2, <2>1, R64Step
  <2>2. CASE ~ Reading(r64)
    <3>1. r64' = r64 /\ ~ Done(r64)
      BY <1>2, <2>2 DEF ReadByte, R64Inv
    <3> QED BY <3>1, <2>2 DEF R64Inv, ReadersAgree, Reading, Done
  <2> QED BY <2>1, <2>2
<1>3. CASE UNCHANGED vars
  BY <1>3 DEF vars, R64Inv, ReadersAgree, Reading, Done
<1> QED BY <1>1, <1>2, <1>3 DEF Next

\* The inductive invariant holds in every state.
LEMMA Invariance == Spec => []IInv
<1>1. Init => IInv
  BY TypeInit, R64Init DEF IInv
<1>2. IInv /\ [Next]_vars => IInv'
  BY TypeNext, R64Next DEF IInv
<1> QED BY <1>1, <1>2, PTL DEF Spec

\* pb_decode_varint delivers the number its bytes spell, modulo 2^64.
THEOREM DecodesExactly == Spec => []DecodeExact
<1>1. IInv => DecodeExact
  BY DEF IInv, R64Inv, DecodeExact
<1> QED BY <1>1, Invariance, PTL

\* An unknown field is skipped, and copied for a callback, exactly as far as
\* pb_decode_varint would have read it.
THEOREM ReadersStopTogether == Spec => []ReadersAgree
<1>1. IInv => ReadersAgree
  BY DEF IInv
<1> QED BY <1>1, Invariance, PTL

-----------------------------------------------------------------------------
(* Groups and the fields they carry. *)

\* A nonempty set of naturals has a least member.
LEMMA LeastNumber ==
    ASSUME NEW T \in SUBSET Nat, T # {}
    PROVE  \E n \in T : \A m \in T : n <= m
<1> DEFINE R == OpToRel(<, Nat)
<1>1. IsWellFoundedOn(R, Nat)
  BY NatLessThanWellFounded
<1>2. ASSUME NEW x \in Nat, NEW y \in Nat, <<y, x>> \notin R
      PROVE  x <= y
  BY <1>2 DEF OpToRel
<1> HIDE DEF R
<1>3. PICK x \in T : \A y \in T : <<y, x>> \notin R
  BY <1>1, WFMin
<1>4. \A y \in T : x <= y
  BY <1>2, <1>3
<1> QED BY <1>4

\* The group a position is in.
LEMMA GroupOf ==
    ASSUME NEW g \in Nat \ {0}, NEW p \in Nat
    PROVE  p \div g \in Nat /\ g * (p \div g) <= p /\ p < g * (p \div g) + g
OBVIOUS

\* A number with a bit has a highest one.
LEMMA HighestBit ==
    ASSUME NEW w \in Nat, NEW v \in SUBSET Bits(w), v # {}
    PROVE  Max(v) \in v /\ \A q \in v : q <= Max(v)
<1> DEFINE T == {u \in Nat : \A q \in v : q <= u}
<1>1. w \in T /\ T \in SUBSET Nat
  BY DEF Bits
<1>2. PICK u \in T : \A m \in T : u <= m
  <2> HIDE DEF T
  <2> QED BY <1>1, LeastNumber
<1>3. u \in v
  <2> SUFFICES ASSUME u \notin v PROVE FALSE
    OBVIOUS
  <2>1. \A q \in v : q \in Nat /\ q <= u /\ q # u
    BY <1>2 DEF Bits
  <2>2. \A q \in v : q <= u - 1
    BY <2>1, <1>2
  <2>3. u - 1 \in Nat
    BY <2>1, <1>2
  <2>4. u - 1 \in T
    BY <2>2, <2>3
  <2> QED BY <2>4, <1>2
<1>4. u \in v /\ \A q \in v : u >= q
  BY <1>2, <1>3 DEF Bits
<1>5. Max(v) \in v /\ \A q \in v : Max(v) >= q
  BY <1>4 DEF Max
<1>6. v \subseteq Nat
  BY DEF Bits
<1> QED BY <1>5, <1>6

\* The groups of a number hold every bit of it, and no group is one too many.
LEMMA GroupsHold ==
    ASSUME NEW v \in SUBSET Bits(Dword)
    PROVE  /\ Groups(v) \in Nat \ {0}
           /\ \A q \in v : q < Group * Groups(v)
           /\ Groups(v) > 1 => \E q \in v : q >= Group * (Groups(v) - 1)
<1>1. Group \in Nat \ {0} /\ Dword \in Nat
  BY WidthAssumption
<1>2. CASE v = {}
  BY <1>2, <1>1 DEF Groups
<1>3. CASE v # {}
  <2> DEFINE m == Max(v)
             d == m \div Group
  <2>1. m \in v /\ \A q \in v : q <= m
    BY <1>1, <1>3, HighestBit
  <2>2. v \subseteq Nat
    BY <1>1 DEF Bits
  <2> HIDE DEF m
  <2>3. d \in Nat /\ Group * d <= m /\ m < Group * d + Group
    BY <2>1, <2>2, <1>1, GroupOf
  <2>4. Groups(v) = d + 1
    BY <1>3 DEF Groups, m
  <2> HIDE DEF d
  <2>5. Group * (d + 1) = Group * d + Group /\ Group * d \in Nat /\ d + 1 - 1 = d
    BY <2>3, <1>1
  <2>6. \A q \in v : q < Group * (d + 1)
    BY <2>1, <2>2, <2>3, <2>5, <1>1
  <2> QED BY <2>1, <2>3, <2>4, <2>5, <2>6
<1> QED BY <1>2, <1>3

\* A position below n groups of g is in one of them.
LEMMA GroupBelow ==
    ASSUME NEW g \in Nat \ {0}, NEW n \in Nat, NEW q \in Nat, q < g * n
    PROVE  \E i \in 1 .. n : q >= g * (i - 1) /\ q - g * (i - 1) < g
<1> DEFINE d == q \div g
<1>1. d \in Nat /\ g * d <= q /\ q < g * d + g
  BY GroupOf
<1> HIDE DEF d
<1>2. d < n
  <2> SUFFICES ASSUME d >= n PROVE FALSE
    BY <1>1
  <2>1. PICK k \in Nat : d = n + k
    BY <1>1
  <2>2. g * d = g * n + g * k /\ g * k \in Nat /\ g * n \in Nat
    BY <2>1
  <2> QED BY <2>2, <1>1
<1>3. d + 1 \in 1 .. n /\ (d + 1) - 1 = d
  BY <1>1, <1>2
<1>4. q - g * d < g /\ q >= g * d
  BY <1>1
<1> QED BY <1>3, <1>4

\* The groups of an encoding spell the number it was made of.
LEMMA SpeltEncoding ==
    ASSUME NEW v \in SUBSET Bits(Dword)
    PROVE  Spelt(EncodeVarint(v)) = v
<1>1. Group \in Nat \ {0} /\ Dword \in Nat
  BY WidthAssumption
<1> DEFINE n == Groups(v)
           E == EncodeVarint(v)
<1>2. n \in Nat \ {0} /\ \A q \in v : q < Group * n
  BY GroupsHold
<1> HIDE DEF n
<1>3. DOMAIN E = 1 .. n
  BY DEF EncodeVarint, n
<1>4. ASSUME NEW i \in 1 .. n
      PROVE  Low(E[i]) = ShiftRight(v, Group * (i - 1)) \cap Bits(Group)
  <2>1. E[i] = (ShiftRight(v, Group * (i - 1)) \cap Bits(Group))
                  \cup (IF i < n THEN {Group} ELSE {})
    BY <1>4 DEF EncodeVarint, n
  <2>2. Group \notin Bits(Group)
    BY <1>1 DEF Bits
  <2> HIDE DEF E
  <2> QED BY <2>1, <2>2 DEF Low
<1> HIDE DEF E
<1>5. ASSUME NEW q \in Spelt(E) PROVE q \in v
  <2>1. PICK i \in 1 .. n : q \in {p + Group * (i - 1) : p \in Low(E[i])}
    BY <1>3 DEF Spelt
  <2> DEFINE a == Group * (i - 1)
  <2>2. a \in Nat
    BY <1>1, <1>2
  <2>3. PICK p \in Low(E[i]) : q = p + a
    BY <2>1
  <2>4. p \in ShiftRight(v, a)
    BY <1>4, <2>3
  <2> HIDE DEF a
  <2>5. PICK r \in v : r >= a /\ p = r - a
    BY <2>4 DEF ShiftRight
  <2>6. r \in Nat
    BY <1>1 DEF Bits
  <2> QED BY <2>2, <2>3, <2>5, <2>6
<1>6. ASSUME NEW q \in v PROVE q \in Spelt(E)
  <2>1. q \in Nat /\ q < Group * n
    BY <1>1, <1>2 DEF Bits
  <2>2. PICK i \in 1 .. n : q >= Group * (i - 1) /\ q - Group * (i - 1) < Group
    BY <2>1, <1>1, <1>2, GroupBelow
  <2> DEFINE a == Group * (i - 1)
  <2>3. a \in Nat
    BY <1>1, <1>2
  <2>4. Low(E[i]) = ShiftRight(v, a) \cap Bits(Group)
    BY <1>4
  <2>5. q >= a /\ q - a < Group
    BY <2>2
  <2>6. Spelt(E) = UNION {{p + Group * (j - 1) : p \in Low(E[j])} : j \in 1 .. n}
    BY <1>3 DEF Spelt
  <2>7. {p + a : p \in Low(E[i])} \subseteq Spelt(E)
    BY <2>6
  <2> HIDE DEF a
  <2>8. q - a \in ShiftRight(v, a)
    BY <2>5 DEF ShiftRight
  <2>9. q - a \in Bits(Group) /\ (q - a) + a = q
    BY <1>1, <2>1, <2>3, <2>5 DEF Bits
  <2> QED BY <2>4, <2>7, <2>8, <2>9
<1>7. Spelt(E) \subseteq v /\ v \subseteq Spelt(E)
  BY <1>5, <1>6
<1> QED BY <1>7 DEF E

\* A fixed field of whole bytes comes back from them.
LEMMA FixedRoundTrip ==
    ASSUME NEW w \in Nat, NEW f \in SUBSET Bits(w), w % (Group + 1) = 0
    PROVE  DecodeFixed(EncodeFixed(f, w)) = f
<1> DEFINE g == Group + 1
           n == w \div g
           E == EncodeFixed(f, w)
<1>1. g \in Nat \ {0}
  BY WidthAssumption
<1>2. DOMAIN E = 1 .. n
  BY DEF EncodeFixed
<1>3. \A i \in 1 .. n : E[i] = ShiftRight(f, g * (i - 1)) \cap Bits(g)
  BY DEF EncodeFixed
<1>4. DecodeFixed(E) = UNION {{p + g * (i - 1) : p \in E[i]} : i \in 1 .. n}
  BY <1>2 DEF DecodeFixed
<1>5. w % g = 0
  OBVIOUS
<1> HIDE DEF g, E
<1>6. n \in Nat /\ w = g * n
  BY <1>1, <1>5
<1> HIDE DEF n
<1>7. ASSUME NEW q \in DecodeFixed(E) PROVE q \in f
  <2>1. PICK i \in 1 .. n : q \in {p + g * (i - 1) : p \in E[i]}
    BY <1>4
  <2> DEFINE a == g * (i - 1)
  <2>2. a \in Nat
    BY <1>1, <1>6
  <2>3. PICK p \in E[i] : q = p + a
    BY <2>1
  <2>4. p \in ShiftRight(f, a)
    BY <1>3, <2>3
  <2> HIDE DEF a
  <2>5. PICK r \in f : r >= a /\ p = r - a
    BY <2>4 DEF ShiftRight
  <2>6. r \in Nat
    BY DEF Bits
  <2> QED BY <2>2, <2>3, <2>5, <2>6
<1>8. ASSUME NEW q \in f PROVE q \in DecodeFixed(E)
  <2>1. q \in Nat /\ q < g * n
    BY <1>6 DEF Bits
  <2>2. PICK i \in 1 .. n : q >= g * (i - 1) /\ q - g * (i - 1) < g
    BY <2>1, <1>1, <1>6, GroupBelow
  <2> DEFINE a == g * (i - 1)
  <2>3. a \in Nat
    BY <1>1, <1>6
  <2>4. E[i] = ShiftRight(f, a) \cap Bits(g)
    BY <1>3
  <2>5. q >= a /\ q - a < g
    BY <2>2
  <2>6. {p + a : p \in E[i]} \subseteq DecodeFixed(E)
    BY <1>4
  <2> HIDE DEF a
  <2>7. q - a \in ShiftRight(f, a)
    BY <2>5 DEF ShiftRight
  <2>8. q - a \in Bits(g) /\ (q - a) + a = q
    BY <1>1, <2>1, <2>3, <2>5 DEF Bits
  <2> QED BY <2>4, <2>6, <2>7, <2>8
<1>9. DecodeFixed(E) \subseteq f /\ f \subseteq DecodeFixed(E)
  BY <1>7, <1>8
<1> QED BY <1>9 DEF E

\* A sign extended field is a 64-bit number whose low bits are the field.
LEMMA SignExtended ==
    ASSUME NEW w \in 1 .. Word \cup {Dword}, NEW f \in SUBSET Bits(w)
    PROVE  SignExtend(f, w) \in SUBSET Bits(Dword) /\ SignExtend(f, w) \cap Bits(w) = f
<1>1. Word \in Nat /\ Dword \in Nat /\ Word < Dword
  BY WidthAssumption
<1>2. w \in Nat /\ w <= Dword
  BY <1>1
<1>3. Bits(w) \subseteq Bits(Dword) /\ (w .. Dword - 1) \subseteq Bits(Dword)
  BY <1>1, <1>2 DEF Bits
<1>4. (w .. Dword - 1) \cap Bits(w) = {}
  BY <1>1, <1>2 DEF Bits
<1>5. SignExtend(f, w) = f \/ SignExtend(f, w) = f \cup (w .. Dword - 1)
  BY DEF SignExtend
<1> HIDE DEF SignExtend
<1> QED BY <1>3, <1>4, <1>5

\* Every tag the decoder takes is the tag its encoder would make.
LEMMA TagsReadBack == TypeOK => TagRoundTrip
<1> SUFFICES ASSUME TypeOK, r32.value # {}
             PROVE  /\ ~ DecodeTag(r32.value).eof
                    /\ Spelt(EncodeVarint(EncodeTag(DecodeTag(r32.value).tag,
                                                    DecodeTag(r32.value).wiretype)))
                          = r32.value
  BY DEF TagRoundTrip
<1>1. r32.value \in SUBSET Bits(Word)
  BY DEF TypeOK
<1>2. r32.value \in SUBSET Bits(Dword)
  BY <1>1, WidthAssumption DEF Bits
<1>3. EncodeTag(DecodeTag(r32.value).tag, DecodeTag(r32.value).wiretype) = r32.value
  BY <1>1, TagOfParts
<1>4. Spelt(EncodeVarint(r32.value)) = r32.value
  BY <1>2, SpeltEncoding
<1>5. ~ DecodeTag(r32.value).eof
  BY DEF DecodeTag
<1> QED BY <1>3, <1>4, <1>5

\* Fields of every width survive each of their encodings, and so do tags.
THEOREM FieldsRoundTrip == Spec => []FieldRoundTrip
<1>1. ASSUME TypeOK, NEW w \in Widths PROVE
        LET f == r64.value \cap Bits(w)
            is(res) == res.ok /\ res.value = f
        IN  /\ is(DecVarint(Spelt(EncVarint(f, w)), w))
            /\ is(DecUvarint(Spelt(EncUvarint(f)), w))
            /\ is(DecSvarint(Spelt(EncSvarint(f, w)), w))
            /\ w % (Group + 1) = 0 => DecodeFixed(EncodeFixed(f, w)) = f
  <2> DEFINE f == r64.value \cap Bits(w)
             x == SignExtend(f, w)
             good == [ok |-> TRUE, value |-> f]
  <2>1. w \in 1 .. Word \cup {Dword} /\ w \in Nat
    BY WidthAssumption
  <2>2. f \in SUBSET Bits(w) /\ f \in SUBSET Bits(Dword)
    <3>1. r64.value \in SUBSET Bits(Dword)
      BY <1>1 DEF TypeOK, WordReader
    <3> QED BY <3>1
  <2> HIDE DEF f
  <2>3. x \in SUBSET Bits(Dword) /\ x \cap Bits(w) = f
    BY <2>1, <2>2, SignExtended
  <2>4. DecVarint(Spelt(EncVarint(f, w)), w) = good
    <3>1. Spelt(EncVarint(f, w)) = x
      BY <2>3, SpeltEncoding DEF EncVarint
    <3> QED BY <3>1, <2>1, <2>2, SignedFieldRoundTrip
  <2>5. DecUvarint(Spelt(EncUvarint(f)), w) = good
    <3>1. Spelt(EncUvarint(f)) = f
      BY <2>2, SpeltEncoding DEF EncUvarint
    <3>2. f \cap Bits(w) = f
      BY <2>2
    <3> QED BY <3>1, <3>2 DEF DecUvarint, Narrow
  <2>6. DecSvarint(Spelt(EncSvarint(f, w)), w) = good
    <3> DEFINE z == Zigzag(x)
    <3>1. z \in SUBSET Bits(Dword)
      BY DEF Zigzag, Not, Shift
    <3>2. Spelt(EncSvarint(f, w)) = z
      BY <3>1, SpeltEncoding DEF EncSvarint
    <3>3. Unzigzag(z) = x
      BY <2>3, ZigzagRoundTrip
    <3> HIDE DEF z
    <3>4. DecSvarint(z, w) = Narrow(x, w, SignExtend(x \cap Bits(w), w))
      BY <3>3 DEF DecSvarint
    <3>5. DecSvarint(z, w) = Narrow(x, w, x)
      BY <3>4, <2>3
    <3> HIDE DEF x
    <3> QED BY <3>2, <3>5, <2>3 DEF Narrow
  <2>7. w % (Group + 1) = 0 => DecodeFixed(EncodeFixed(f, w)) = f
    BY <2>1, <2>2, FixedRoundTrip
  <2>8. good.ok /\ good.value = f
    OBVIOUS
  <2> HIDE DEF x, good
  <2> QED BY <2>4, <2>5, <2>6, <2>7, <2>8 DEF f
<1>2. TypeOK => FieldRoundTrip
  BY <1>1, TagsReadBack DEF FieldRoundTrip
<1> QED BY <1>2, TypeCorrect, PTL

-----------------------------------------------------------------------------
(* The 32-bit loop, and an encoding read back. *)

\* The positions the 32-bit loop has come to are values of its counter.
Short == Group * Len(fed) < BitposMod

\* None of the first n bytes ends the varint.
Unbroken(bytes, n) == \A i \in 1 .. n : More(bytes[i])

\* Where the loops that read values stop: at the first byte without a
\* continuation bit, at the end of the stream, or where they refuse.
LoopsStop ==
    /\ r64.used \in 0 .. Len(fed) /\ r32.used \in 0 .. Len(fed)
    /\ r64.st \in {"reading", "eos"} \/ r32.st \in {"reading", "eos"} => Unbroken(fed, Len(fed))
    /\ r64.st = "eos" \/ r32.st = "eos" => ended
    /\ r64.st = "overflow" => Unbroken(fed, r64.used) /\ Group * r64.used >= Dword
    /\ Reading(r32) => r32.used = Len(fed)
    /\ Done(r32) => ~ Reading(r64)

\* Why the 32-bit loop refused byte k: it is past the word and no sign, ...
TooLarge(bytes, value, k) ==
    /\ Group * (k - 1) >= Word /\ Low(bytes[k]) # {}
    /\ Word - 1 \notin value \/ bytes[k] # Extension(Group * (k - 1))
\* ... or it is the last byte of the word and has a bit above it.
TooLong(bytes, k) ==
    /\ ~ More(bytes[k]) /\ Group * (k - 1) = LastPos(Word)
    /\ \E p \in Low(bytes[k]) : p + LastPos(Word) >= Word

\* The 32-bit loop in step with the number spelt so far.
R32Inv ==
    Short =>
      /\ Reading(r32) => r32.bitpos = Group * Len(fed)
      /\ Reading(r32) \/ Done(r32) => r32.value = exact \cap Bits(Word)
      /\ r32.st = "overflow" =>
            /\ r32.used > 0
            /\ \/ /\ TooLarge(fed, r32.value, r32.used)
                  /\ r32.value = exact \cap Bits(Word)
               \/ TooLong(fed, r32.used)

\* What a byte makes of the 32-bit loop.
LEMMA R32Fields ==
    ASSUME TypeOK, NEW b \in FedBytes, ReadByte(b), Reading(r32)
    PROVE  /\ r32'.used = r32.used + 1
           /\ r32'.bitpos = (r32.bitpos + Group) % BitposMod
           /\ r32'.value = IF r32.bitpos >= Word THEN r32.value
                           ELSE r32.value \cup Shift(Low(b), r32.bitpos, Word)
           /\ r32'.st = IF Excess(r32, b) \/ CutShort(r32, b) THEN "overflow"
                        ELSE IF More(b) THEN "reading" ELSE "done"
<1>1. r32' = Step32(r32, b)
  BY DEF ReadByte
<1> QED BY <1>1 DEF Step32, TypeOK

\* What a byte makes of the 64-bit loop.
LEMMA R64Fields ==
    ASSUME TypeOK, NEW b \in FedBytes, ReadByte(b), Reading(r64)
    PROVE  /\ r64'.used = r64.used + 1
           /\ r64'.st = IF ~More(b) THEN "done"
                        ELSE IF r64.bitpos + Group >= Dword THEN "overflow" ELSE "reading"
<1>1. r64' = Step64(r64, b)
  BY DEF ReadByte
<1> QED BY <1>1 DEF Step64, TypeOK, WordReader

\* The bytes after one more.
LEMMA OneMoreByte ==
    ASSUME TypeOK, NEW b \in FedBytes, ReadByte(b)
    PROVE  /\ Len(fed) \in Nat /\ Len(fed') = Len(fed) + 1
           /\ fed'[Len(fed) + 1] = b
           /\ \A i \in 1 .. Len(fed) : fed'[i] = fed[i]
           /\ Group * Len(fed') = Group * Len(fed) + Group
<1>1. fed' = Append(fed, b) /\ fed \in Seq(FedBytes)
  BY DEF ReadByte, TypeOK
<1>2. Len(fed) \in Nat /\ Len(fed') = Len(fed) + 1
  BY <1>1
<1>3. fed'[Len(fed) + 1] = b /\ \A i \in 1 .. Len(fed) : fed'[i] = fed[i]
  BY <1>1
<1>4. Group * (Len(fed) + 1) = Group * Len(fed) + Group
  BY <1>2, WidthAssumption
<1> QED BY <1>2, <1>3, <1>4

\* A byte leaves the loops stopped where they stopped.
LEMMA LoopsStopByte ==
    ASSUME IInv, LoopsStop, NEW b \in FedBytes, ReadByte(b)
    PROVE  LoopsStop'
<1> DEFINE L == Len(fed)
<1>1. /\ L \in Nat /\ Len(fed') = L + 1 /\ fed'[L + 1] = b
      /\ \A i \in 1 .. L : fed'[i] = fed[i]
      /\ Group * Len(fed') = Group * L + Group
  BY OneMoreByte DEF IInv
<1> HIDE DEF L
<1>2. /\ r64.used \in 0 .. L /\ r32.used \in 0 .. L
      /\ r64.st \in {"reading", "eos"} \/ r32.st \in {"reading", "eos"} => Unbroken(fed, L)
      /\ r64.st = "eos" \/ r32.st = "eos" => ended
      /\ r64.st = "overflow" => Unbroken(fed, r64.used) /\ Group * r64.used >= Dword
      /\ r32.st = "reading" => r32.used = L
      /\ r32.st = "done" => r64.st # "reading"
  BY DEF LoopsStop, Reading, Done, L
<1>3. ~ ended /\ ended' = ended /\ (r32.st = "reading" \/ r64.st = "reading")
  BY DEF ReadByte, Reading
<1>4. Unbroken(fed, L) /\ (More(b) => Unbroken(fed', L + 1))
  <2>1. Unbroken(fed, L)
    BY <1>2, <1>3
  <2> QED BY <2>1, <1>1 DEF Unbroken
<1>5. ASSUME r64.st = "reading"
      PROVE  /\ r64'.used = L + 1
             /\ r64'.st = IF ~More(b) THEN "done"
                          ELSE IF Group * L + Group >= Dword THEN "overflow" ELSE "reading"
  <2>1. r64.used = L /\ r64.bitpos = Group * L
    BY <1>5 DEF IInv, R64Inv, Reading, L
  <2> QED BY <2>1, <1>5, R64Fields DEF IInv, Reading
<1>6. ASSUME r64.st # "reading" PROVE r64' = r64
  BY <1>6 DEF ReadByte, Reading
<1>7. ASSUME r32.st = "reading"
      PROVE  /\ r32'.used = L + 1
             /\ r32'.st \in {"overflow", "reading", "done"}
             /\ r32'.st = "reading" => More(b)
             /\ r32'.st = "done" => ~ More(b)
  BY <1>2, <1>7, R32Fields DEF IInv, Reading
<1>8. ASSUME r32.st # "reading" PROVE r32' = r32
  BY <1>8 DEF ReadByte, Reading
<1>9. r64'.used \in 0 .. L + 1 /\ r32'.used \in 0 .. L + 1
  BY <1>1, <1>2, <1>5, <1>6, <1>7, <1>8
<1>10. r64'.st # "eos" /\ r32'.st # "eos"
  BY <1>2, <1>3, <1>5, <1>6, <1>7, <1>8
<1>11. r64'.st = "reading" \/ r32'.st = "reading" => More(b)
  BY <1>5, <1>6, <1>7, <1>8
<1>12. r64'.st = "overflow" => Unbroken(fed', r64'.used) /\ Group * r64'.used >= Dword
  <2> SUFFICES ASSUME r64'.st = "overflow"
               PROVE  Unbroken(fed', r64'.used) /\ Group * r64'.used >= Dword
    OBVIOUS
  <2>1. CASE r64.st = "reading"
    <3>1. More(b) /\ Group * L + Group >= Dword /\ r64'.used = L + 1
      BY <1>5, <2>1
    <3>2. Group * (L + 1) = Group * L + Group
      BY <1>1
    <3>3. Unbroken(fed', r64'.used)
      BY <3>1, <1>4 DEF Unbroken
    <3> QED BY <3>1, <3>2, <3>3
  <2>2. CASE r64.st # "reading"
    <3>1. r64' = r64
      BY <1>6, <2>2
    <3>2. \A i \in 1 .. r64.used : More(fed[i]) /\ fed'[i] = fed[i]
      BY <1>1, <1>2, <3>1 DEF Unbroken
    <3> QED BY <3>1, <3>2, <1>2 DEF Unbroken
  <2> QED BY <2>1, <2>2
<1>13. r32'.st = "reading" => r32'.used = L + 1
  BY <1>7, <1>8
<1>14. r32'.st = "done" => r64'.st # "reading"
  BY <1>2, <1>3, <1>5, <1>6, <1>7, <1>8
<1>15. Len(fed') = L + 1
  BY <1>1
<1> QED BY <1>4, <1>9, <1>10, <1>11, <1>12, <1>13, <1>14, <1>15
        DEF LoopsStop, Reading, Done

\* A byte leaves the 32-bit loop with the low word of what is spelt, or with
\* the reason it refused.
LEMMA R32Byte ==
    ASSUME IInv, LoopsStop, R32Inv, NEW b \in FedBytes, ReadByte(b)
    PROVE  R32Inv'
<1> SUFFICES ASSUME Group * Len(fed') < BitposMod
             PROVE  /\ r32'.st = "reading" => r32'.bitpos = Group * Len(fed')
                    /\ r32'.st \in {"reading", "done"} => r32'.value = exact' \cap Bits(Word)
                    /\ r32'.st = "overflow" =>
                          /\ r32'.used > 0
                          /\ \/ /\ TooLarge(fed', r32'.value, r32'.used)
                                /\ r32'.value = exact' \cap Bits(Word)
                             \/ TooLong(fed', r32'.used)
  BY DEF R32Inv, Short, Reading, Done
<1> DEFINE L == Len(fed)
           n == Group * L
           S == {p + n : p \in Low(b)}
<1>1. /\ L \in Nat /\ Len(fed') = L + 1 /\ fed'[L + 1] = b
      /\ \A i \in 1 .. L : fed'[i] = fed[i]
      /\ Group * Len(fed') = n + Group
  BY OneMoreByte DEF IInv
<1>2. exact' = exact \cup S
  BY DEF ReadByte
<1>3. /\ Group \in Nat \ {0} /\ Word \in Nat /\ BitposMod \in Nat
      /\ n \in Nat /\ Low(b) \subseteq Nat
  <2>1. Low(b) \subseteq 0 .. Group
    BY WidthAssumption DEF Byte, Low
  <2> QED BY <1>1, <2>1, WidthAssumption
<1>4. /\ r32.st = "reading" => r32.bitpos = n /\ r32.used = L
      /\ r32.st \in {"reading", "done"} => r32.value = exact \cap Bits(Word)
      /\ r32.st = "overflow" =>
            /\ r32.used > 0
            /\ \/ /\ TooLarge(fed, r32.value, r32.used)
                  /\ r32.value = exact \cap Bits(Word)
               \/ TooLong(fed, r32.used)
  <2>1. n < BitposMod
    BY <1>1, <1>3
  <2> QED BY <2>1 DEF R32Inv, Short, LoopsStop, Reading, Done
<1>5. ASSUME n >= Word PROVE S \cap Bits(Word) = {}
  <2>1. \A p \in Low(b) : p + n >= Word
    BY <1>3, <1>5
  <2> HIDE DEF n
  <2> QED BY <2>1, <1>3 DEF Bits
<1>6. Shift(Low(b), n, Word) = S \cap Bits(Word)
  BY DEF Shift
<1>7. r32.used \in 0 .. L /\ (r32.st = "done" => r64.st # "reading")
  BY DEF LoopsStop, Reading, Done
<1> HIDE DEF n, S, L
<1>8. CASE r32.st = "reading"
  <2>1. /\ r32'.used = L + 1
        /\ r32'.bitpos = (n + Group) % BitposMod
        /\ r32'.value = IF n >= Word THEN r32.value ELSE r32.value \cup (S \cap Bits(Word))
        /\ r32'.st = IF Excess(r32, b) \/ CutShort(r32, b) THEN "overflow"
                     ELSE IF More(b) THEN "reading" ELSE "done"
    BY <1>4, <1>6, <1>8, R32Fields DEF IInv, Reading
  <2>2. (n + Group) % BitposMod = n + Group
    BY <1>1, <1>3
  <2>3. r32'.value = exact' \cap Bits(Word)
    BY <2>1, <1>2, <1>4, <1>5, <1>8
  <2>4. ASSUME Excess(r32, b) PROVE TooLarge(fed', r32'.value, L + 1)
    <3>1. /\ n >= Word /\ Low(b) # {}
          /\ Word - 1 \notin r32.value \/ b # Extension(n)
      BY <2>4, <1>4, <1>8 DEF Excess
    <3>2. r32'.value = r32.value
      BY <2>1, <3>1
    <3>3. Group * ((L + 1) - 1) = n
      BY <1>1 DEF n
    <3> QED BY <3>1, <3>2, <3>3, <1>1 DEF TooLarge
  <2>5. ASSUME CutShort(r32, b) PROVE TooLong(fed', L + 1)
    <3>1. /\ ~ More(b) /\ (n + Group) % BitposMod = LastPos(Word) + Group
          /\ \E p \in Low(b) : p + LastPos(Word) >= Word
      BY <2>5, <1>4, <1>8 DEF CutShort
    <3>2. LastPos(Word) \in Int
      BY WidthAssumption DEF LastPos
    <3>3. n = LastPos(Word)
      BY <3>1, <3>2, <2>2, <1>3
    <3>4. Group * ((L + 1) - 1) = n
      BY <1>1 DEF n
    <3> QED BY <3>1, <3>3, <3>4, <1>1 DEF TooLong
  <2>6. L + 1 > 0
    BY <1>1
  <2>7. r32'.st = "overflow" => Excess(r32, b) \/ CutShort(r32, b)
    BY <2>1
  <2> QED BY <2>1, <2>2, <2>3, <2>4, <2>5, <2>6, <2>7, <1>1
<1>9. CASE r32.st # "reading"
  <2>1. r32' = r32 /\ r64.st = "reading"
    BY <1>9 DEF ReadByte, Reading
  <2>2. r32.st # "done"
    BY <2>1, <1>7
  <2> SUFFICES ASSUME r32.st = "overflow"
               PROVE  /\ r32.used > 0
                      /\ \/ /\ TooLarge(fed', r32.value, r32.used)
                            /\ r32.value = exact' \cap Bits(Word)
                         \/ TooLong(fed', r32.used)
    BY <2>1, <2>2, <1>9
  <2>3. r32.used > 0 /\ fed'[r32.used] = fed[r32.used]
    BY <1>1, <1>4, <1>7
  <2>4. CASE TooLong(fed, r32.used)
    BY <2>3, <2>4 DEF TooLong
  <2>5. CASE TooLarge(fed, r32.value, r32.used) /\ r32.value = exact \cap Bits(Word)
    <3>1. PICK j \in Nat : L = (r32.used - 1) + j
      <4>1. r32.used - 1 \in Nat /\ L - (r32.used - 1) \in Nat
        BY <1>1, <1>7, <2>3
      <4>2. L = (r32.used - 1) + (L - (r32.used - 1))
        BY <1>1, <1>7
      <4> QED BY <4>1, <4>2
    <3> DEFINE k == r32.used - 1
    <3>2. k \in Nat
      BY <1>7, <2>3
    <3>3. Group * k >= Word
      BY <2>5 DEF TooLarge
    <3> HIDE DEF k
    <3>4. n = Group * k + Group * j /\ Group * j \in Nat /\ Group * k \in Nat
      BY <1>3, <3>1, <3>2 DEF n, k
    <3>5. n >= Word
      BY <3>3, <3>4, <1>3
    <3>6. r32.value = exact' \cap Bits(Word)
      BY <3>5, <2>5, <1>2, <1>5
    <3>7. TooLarge(fed', r32.value, r32.used)
      BY <2>3, <2>5 DEF TooLarge
    <3> QED BY <3>6, <3>7, <2>3
  <2> QED BY <2>3, <2>4, <2>5, <1>4
<1> QED BY <1>8, <1>9

ReadInv == IInv /\ LoopsStop /\ R32Inv

\* Both loops begin in step.
LEMMA ReadInit == Init => LoopsStop /\ R32Inv
<1> SUFFICES ASSUME Init PROVE LoopsStop /\ R32Inv
  OBVIOUS
<1>1. Len(fed) = 0 /\ Group * 0 = 0
  BY WidthAssumption DEF Init
<1>2. exact \cap Bits(Word) = {} /\ exact \cap Bits(Dword) = {}
  BY DEF Init
<1>3. Unbroken(fed, 0)
  BY DEF Unbroken
<1>4. r32.st = "reading" /\ r64.st = "reading" /\ r32.used = 0 /\ r64.used = 0
      /\ r32.bitpos = 0 /\ r32.value = {}
  BY DEF Init
<1> QED BY <1>1, <1>2, <1>3, <1>4 DEF LoopsStop, R32Inv, Reading, Done

\* The end of the stream stops the loops that read.
LEMMA ReadEnd ==
    ASSUME ReadInv, EndOfStream
    PROVE  LoopsStop' /\ R32Inv'
<1>1. fed' = fed /\ exact' = exact /\ ended' = TRUE
  BY DEF EndOfStream
<1>2. /\ r64'.used = r64.used
      /\ r64'.st = IF r64.st = "reading" THEN "eos" ELSE r64.st
  BY DEF EndOfStream, AtEnd, Reading, ReadInv, IInv, TypeOK, WordReader
<1>3. /\ r32'.used = r32.used /\ r32'.value = r32.value
      /\ r32'.st = IF r32.st = "reading" THEN "eos" ELSE r32.st
  <2> DEFINE e == Reading(r32) /\ r32.used = 0
  <2>1. r32' = [AtEnd(r32) EXCEPT !.eof = e]
    BY DEF EndOfStream
  <2>2. r32'.st = AtEnd(r32).st /\ r32'.used = AtEnd(r32).used /\ r32'.value = AtEnd(r32).value
    BY <2>1 DEF AtEnd, ReadInv, IInv, TypeOK
  <2>3. AtEnd(r32).used = r32.used /\ AtEnd(r32).value = r32.value
    BY DEF AtEnd, ReadInv, IInv, TypeOK
  <2>4. AtEnd(r32).st = IF r32.st = "reading" THEN "eos" ELSE r32.st
    BY DEF AtEnd, Reading, ReadInv, IInv, TypeOK
  <2> QED BY <2>2, <2>3, <2>4
<1>4. LoopsStop'
  BY <1>1, <1>2, <1>3 DEF ReadInv, LoopsStop, Reading, Done
<1>5. R32Inv'
  BY <1>1, <1>3 DEF ReadInv, R32Inv, Short, Reading, Done
<1> QED BY <1>4, <1>5

\* Every step keeps both loops in step with the bytes.
LEMMA ReadInvariance == Spec => []ReadInv
<1>1. Init => ReadInv
  BY TypeInit, R64Init, ReadInit DEF ReadInv, IInv
<1>2. ReadInv /\ [Next]_vars => ReadInv'
  <2> SUFFICES ASSUME ReadInv, [Next]_vars PROVE ReadInv'
    OBVIOUS
  <2>1. IInv'
    BY TypeNext, R64Next DEF ReadInv, IInv
  <2>2. CASE EndOfStream
    BY <2>1, <2>2, ReadEnd DEF ReadInv
  <2>3. ASSUME NEW b \in FedBytes, ReadByte(b) PROVE ReadInv'
    BY <2>1, <2>3, LoopsStopByte, R32Byte DEF ReadInv
  <2>4. CASE UNCHANGED vars
    BY <2>1, <2>4 DEF ReadInv, LoopsStop, R32Inv, Short, vars, Reading, Done
  <2> QED BY <2>2, <2>3, <2>4 DEF Next
<1> QED BY <1>1, <1>2, PTL DEF Spec

\* The bytes of an encoding: every byte but the last goes on, and the last
\* group begins inside the word.
LEMMA EncodedBytes ==
    ASSUME NEW v \in SUBSET Bits(Dword), NEW n, n = Groups(v), NEW bytes,
           bytes = EncodeVarint(v)
    PROVE  /\ n \in Nat \ {0} /\ Len(bytes) = n
           /\ \A i \in 1 .. n :
                 bytes[i] = (ShiftRight(v, Group * (i - 1)) \cap Bits(Group))
                               \cup (IF i < n THEN {Group} ELSE {})
           /\ \A i \in 1 .. n : More(bytes[i]) <=> i < n
           /\ \A i \in 1 .. n : Low(bytes[i]) = ShiftRight(v, Group * (i - 1)) \cap Bits(Group)
           /\ Group * (n - 1) < Dword /\ \A q \in v : q < Group * n
<1>1. Group \in Nat \ {0} /\ Dword \in Nat \ {0}
  BY WidthAssumption
<1>2. /\ n \in Nat \ {0} /\ \A q \in v : q < Group * n
      /\ n > 1 => \E q \in v : q >= Group * (n - 1)
  BY GroupsHold
<1>3. bytes = [i \in 1 .. n |-> (ShiftRight(v, Group * (i - 1)) \cap Bits(Group))
                                   \cup (IF i < n THEN {Group} ELSE {})]
  BY DEF EncodeVarint
<1>4. Group \notin Bits(Group)
  BY <1>1 DEF Bits
<1>5. Len(bytes) = n
  BY <1>2, <1>3
<1>6. \A i \in 1 .. n :
         bytes[i] = (ShiftRight(v, Group * (i - 1)) \cap Bits(Group))
                       \cup (IF i < n THEN {Group} ELSE {})
  BY <1>3
<1>7. ASSUME NEW i \in 1 .. n
      PROVE  /\ More(bytes[i]) <=> i < n
             /\ Low(bytes[i]) = ShiftRight(v, Group * (i - 1)) \cap Bits(Group)
  BY <1>4, <1>6 DEF More, Low
<1>8. Group * (n - 1) < Dword
  <2>1. CASE n = 1
    <3>1. Group * 0 = 0
      BY <1>1
    <3> QED BY <2>1, <3>1, <1>1
  <2>2. CASE n > 1
    <3>1. PICK q \in v : q >= Group * (n - 1)
      BY <1>2, <2>2
    <3>2. q \in Nat /\ q < Dword /\ Group * (n - 1) \in Nat
      BY <1>1, <1>2 DEF Bits
    <3> QED BY <3>1, <3>2, <1>1
  <2> QED BY <2>1, <2>2, <1>2
<1> QED BY <1>2, <1>5, <1>6, <1>7, <1>8

\* The groups of a sign extended number past the word are the bytes the
\* 32-bit loop takes for its sign.
LEMMA SignBytes ==
    ASSUME NEW v \in SUBSET Bits(Dword), Word .. Dword - 1 \subseteq v,
           NEW n, n = Groups(v), NEW k \in 1 .. n, Group * (k - 1) >= Word
    PROVE  (ShiftRight(v, Group * (k - 1)) \cap Bits(Group))
              \cup (IF k < n THEN {Group} ELSE {}) = Extension(Group * (k - 1))
<1>1. /\ Group \in Nat \ {0} /\ Dword \in Nat \ {0} /\ Word \in Nat /\ Word < Dword
      /\ n \in Nat \ {0}
  BY WidthAssumption, GroupsHold
<1> DEFINE d == (Dword - 1) \div Group
           a == Group * (k - 1)
           B == ShiftRight(v, a) \cap Bits(Group)
<1>2. d \in Nat /\ Group * d <= Dword - 1 /\ Dword - 1 < Group * d + Group
  <2>1. Dword - 1 \in Nat
    BY <1>1
  <2> HIDE DEF d
  <2> QED BY <1>1, <2>1, GroupOf DEF d
<1>3. Max(v) = Dword - 1
  <2>1. Dword - 1 \in v
    BY <1>1
  <2>2. Max(v) \in v /\ \A q \in v : q <= Max(v)
    BY <1>1, <2>1, HighestBit
  <2> DEFINE m == Max(v)
  <2>3. m \in v /\ Dword - 1 <= m
    BY <2>1, <2>2
  <2> HIDE DEF m
  <2>4. m \in Nat /\ m <= Dword - 1
    BY <2>3, <1>1 DEF Bits
  <2>5. m = Dword - 1
    BY <2>3, <2>4, <1>1
  <2> QED BY <2>5 DEF m
<1>4. n = d + 1
  <2>1. v # {}
    BY <1>1
  <2> QED BY <1>3, <2>1 DEF Groups
<1>5. LastPos(Dword) = Group * d
  BY DEF LastPos
<1> HIDE DEF d
<1>6. a \in Nat /\ k - 1 \in Nat /\ k - 1 <= d
  BY <1>1, <1>2, <1>4
<1>7. a >= Word
  OBVIOUS
<1> HIDE DEF a
<1>8. \A p \in Nat : p \in B <=> p < Group /\ p + a < Dword
  <2>1. \A p \in Nat : p + a \in v <=> p + a < Dword
    BY <1>1, <1>6, <1>7 DEF Bits
  <2>2. \A p \in Nat : p \in ShiftRight(v, a) <=> p + a \in v
    <3> TAKE p \in Nat
    <3>1. ASSUME p \in ShiftRight(v, a) PROVE p + a \in v
      <4>1. PICK q \in v : q >= a /\ p = q - a
        BY <3>1 DEF ShiftRight
      <4>2. q \in Nat
        BY <1>1 DEF Bits
      <4>3. p + a = q
        BY <4>1, <4>2, <1>6
      <4> QED BY <4>1, <4>3
    <3>2. ASSUME p + a \in v PROVE p \in ShiftRight(v, a)
      <4>1. p + a >= a /\ (p + a) - a = p
        BY <1>6
      <4> QED BY <3>2, <4>1 DEF ShiftRight
    <3> QED BY <3>1, <3>2
  <2>3. \A p \in Nat : p \in Bits(Group) <=> p < Group
    BY <1>1 DEF Bits
  <2> QED BY <2>1, <2>2, <2>3
<1>9. B \subseteq Nat /\ Bits(Group) \subseteq Nat
  BY <1>1 DEF Bits
<1> HIDE DEF B
<1>10. CASE k - 1 < d
  <2>1. PICK j \in Nat : d = (k - 1) + 1 + j
    <3>1. d - (k - 1) - 1 \in Nat /\ d = (k - 1) + 1 + (d - (k - 1) - 1)
      BY <1>2, <1>6, <1>10
    <3> QED BY <3>1
  <2>2. Group * d = a + Group + Group * j /\ Group * j \in Nat
    BY <2>1, <1>1, <1>6 DEF a
  <2>3. a < Group * d /\ a + Group <= Dword - 1
    <3> DEFINE e == Group * d
               f == Group * j
    <3>1. e = a + Group + f /\ f \in Nat /\ e <= Dword - 1
      BY <2>2, <1>2
    <3> HIDE DEF e, f
    <3>2. a < e /\ a + Group <= Dword - 1
      BY <3>1, <1>1, <1>6
    <3> QED BY <3>2 DEF e
  <2>4. a < LastPos(Dword) /\ k < n
    <3>1. k < n
      BY <1>1, <1>2, <1>4, <1>10
    <3> QED BY <3>1, <2>3, <1>5
  <2>5. B = 0 .. Group - 1
    <3>1. \A p \in Nat : p \in B <=> p < Group
      BY <2>3, <1>1, <1>6, <1>8
    <3>2. \A p \in B : p \in 0 .. Group - 1
      BY <3>1, <1>1, <1>9
    <3>3. \A p \in 0 .. Group - 1 : p \in B
      BY <3>1, <1>1
    <3> QED BY <3>2, <3>3
  <2>6. B \cup {Group} = 0 .. (Group + 1) - 1
    BY <2>5, <1>1
  <2>7. Extension(a) = 0 .. (Group + 1) - 1
    BY <2>4 DEF Extension, Bits
  <2> QED BY <2>4, <2>6, <2>7 DEF B, a
<1>11. CASE k - 1 = d
  <2>1. a = LastPos(Dword) /\ ~ (k < n)
    BY <1>1, <1>4, <1>5, <1>6, <1>11 DEF a
  <2>2. a \in Int
    BY <1>6
  <2>3. Extension(a) = Bits(Dword - a)
    BY <2>1, <2>2 DEF Extension
  <2>4. Dword - a <= Group /\ Dword - a \in Nat
    BY <2>1, <1>1, <1>2, <1>5, <1>6
  <2>5. \A p \in Nat : p \in B <=> p < Dword - a
    BY <2>4, <1>1, <1>6, <1>8
  <2>6. B = Bits(Dword - a)
    <3>1. \A p \in B : p \in 0 .. (Dword - a) - 1
      BY <2>4, <2>5, <1>9
    <3>2. \A p \in 0 .. (Dword - a) - 1 : p \in B
      BY <2>4, <2>5
    <3> QED BY <3>1, <3>2 DEF Bits
  <2> QED BY <2>1, <2>3, <2>6 DEF B, a
<1> QED BY <1>2, <1>6, <1>10, <1>11

\* The 32-bit loop refuses no word and no sign extended word.
LEMMA WordAccepted ==
    ASSUME ReadInv, exact \in SUBSET Bits(Dword), fed = EncodeVarint(exact),
           exact = SignExtend(exact \cap Bits(Word), Word) \/ exact \subseteq Bits(Word),
           Short, r32.st = "overflow"
    PROVE  FALSE
<1> DEFINE n == Groups(exact)
           k == r32.used
           a == Group * (k - 1)
<1>1. /\ n \in Nat \ {0} /\ Len(fed) = n
      /\ \A i \in 1 .. n :
            fed[i] = (ShiftRight(exact, Group * (i - 1)) \cap Bits(Group))
                        \cup (IF i < n THEN {Group} ELSE {})
      /\ \A i \in 1 .. n : More(fed[i]) <=> i < n
      /\ \A i \in 1 .. n : Low(fed[i]) = ShiftRight(exact, Group * (i - 1)) \cap Bits(Group)
      /\ \A q \in exact : q < Group * n
  BY EncodedBytes
<1>2. /\ Group \in Nat \ {0} /\ Word \in Nat \ {0} /\ Dword \in Nat /\ Word < Dword
      /\ LastPos(Word) + Group < Dword
  BY WidthAssumption
<1>3. k \in 1 .. n
  <2>1. k \in 0 .. n /\ k > 0
    BY <1>1 DEF ReadInv, LoopsStop, R32Inv
  <2> QED BY <2>1, <1>1
<1>4. /\ TooLarge(fed, r32.value, k) /\ r32.value = exact \cap Bits(Word)
      \/ TooLong(fed, k)
  BY DEF ReadInv, R32Inv
<1>5. exact \subseteq Bits(Word) \/ (Word - 1 \in exact /\ Word .. Dword - 1 \subseteq exact)
  <2>1. CASE Word - 1 \in exact \cap Bits(Word)
    <3>1. SignExtend(exact \cap Bits(Word), Word) = (exact \cap Bits(Word)) \cup (Word .. Dword - 1)
      BY <2>1 DEF SignExtend
    <3> QED BY <3>1, <2>1
  <2>2. CASE Word - 1 \notin exact \cap Bits(Word)
    <3>1. SignExtend(exact \cap Bits(Word), Word) = exact \cap Bits(Word)
      BY <2>2 DEF SignExtend
    <3> QED BY <3>1
  <2> QED BY <2>1, <2>2
<1>6. Low(fed[k]) = ShiftRight(exact, a) \cap Bits(Group) /\ a \in Nat
  BY <1>1, <1>2, <1>3
<1> HIDE DEF n, k
<1>7. ASSUME NEW p \in Low(fed[k]) PROVE p + a \in exact /\ p \in Nat
  <2>1. p \in ShiftRight(exact, a) /\ p \in Nat
    BY <1>6, <1>7, <1>2 DEF Bits
  <2> HIDE DEF a
  <2>2. PICK q \in exact : q >= a /\ p = q - a
    BY <2>1 DEF ShiftRight
  <2>3. q \in Nat
    BY <1>2 DEF Bits
  <2>4. p + a = q
    BY <2>2, <2>3, <1>6
  <2> QED BY <2>1, <2>2, <2>4
<1>8. CASE TooLarge(fed, r32.value, k) /\ r32.value = exact \cap Bits(Word)
  <2>1. /\ a >= Word /\ Low(fed[k]) # {}
        /\ Word - 1 \notin r32.value \/ fed[k] # Extension(a)
    BY <1>8 DEF TooLarge
  <2>2. PICK p \in Low(fed[k]) : TRUE
    BY <2>1
  <2>3. p + a \in exact /\ p \in Nat
    BY <1>7
  <2>4. p + a \notin Bits(Word)
    <3> HIDE DEF a
    <3> QED BY <2>1, <2>3, <1>2, <1>6 DEF Bits
  <2>5. Word - 1 \in exact /\ Word .. Dword - 1 \subseteq exact
    BY <2>3, <2>4, <1>5
  <2>6. Word - 1 \in r32.value
    BY <2>5, <1>2, <1>8 DEF Bits
  <2>7. fed[k] = Extension(a)
    BY <2>1, <2>5, <1>1, <1>3, SignBytes DEF n
  <2> QED BY <2>1, <2>6, <2>7
<1>9. CASE TooLong(fed, k)
  <2>1. /\ ~ More(fed[k]) /\ a = LastPos(Word)
        /\ \E p \in Low(fed[k]) : p + LastPos(Word) >= Word
    BY <1>9 DEF TooLong
  <2>2. PICK p \in Low(fed[k]) : p + a >= Word
    BY <2>1
  <2>3. p + a \in exact /\ p \in Nat
    BY <1>7
  <2>4. p + a \notin Bits(Word)
    BY <2>2, <2>3, <1>2, <1>6 DEF Bits
  <2>5. Dword - 1 \in exact
    BY <2>3, <2>4, <1>2, <1>5
  <2>6. Dword - 1 < Group * n
    BY <2>5, <1>1
  <2>7. k = n
    BY <2>1, <1>1, <1>3
  <2>8. Group * n = a + Group
    BY <2>7, <1>1, <1>2
  <2> HIDE DEF a
  <2> QED BY <2>1, <2>6, <2>8, <1>2, <1>6
<1> QED BY <1>4, <1>8, <1>9 DEF k

\* Every encoding is read back by both loops.
THEOREM EncodingsReadBack == Spec => []EncodedReadBack
<1>1. ASSUME ReadInv, fed # <<>>, exact \subseteq Bits(Dword), fed = EncodeVarint(exact)
      PROVE  /\ Done(r64) /\ r64.value = exact
             /\ exact = SignExtend(exact \cap Bits(Word), Word) \/ exact \subseteq Bits(Word)
                   => Done(r32)
             /\ Done(r32) => r32.value = exact \cap Bits(Word)
  <2> DEFINE n == Groups(exact)
  <2>1. /\ n \in Nat \ {0} /\ Len(fed) = n
        /\ \A i \in 1 .. n : More(fed[i]) <=> i < n
        /\ Group * (n - 1) < Dword
    BY <1>1, EncodedBytes
  <2> HIDE DEF n
  <2>2. Group \in Nat \ {0} /\ Dword \in Nat /\ BitposMod \in Nat /\ BitposMod > Dword + Group
    BY WidthAssumption
  <2>3. ~ Unbroken(fed, n)
    BY <2>1 DEF Unbroken
  <2>4. Short
    <3>1. Group * n = Group * (n - 1) + Group /\ Group * (n - 1) \in Nat
      BY <2>1, <2>2
    <3> QED BY <3>1, <2>1, <2>2 DEF Short
  <2>5. r64.st # "overflow"
    <3> SUFFICES ASSUME r64.st = "overflow" PROVE FALSE
      OBVIOUS
    <3>1. /\ r64.used \in 0 .. n /\ Unbroken(fed, r64.used)
          /\ Group * r64.used >= Dword
      BY <1>1, <2>1 DEF ReadInv, LoopsStop
    <3>2. r64.used # n
      BY <3>1, <2>3
    <3>3. PICK j \in Nat : n - 1 = r64.used + j
      <4>1. (n - 1) - r64.used \in Nat /\ n - 1 = r64.used + ((n - 1) - r64.used)
        BY <3>1, <3>2, <2>1
      <4> QED BY <4>1
    <3> DEFINE u == r64.used
    <3>4. Group * (n - 1) = Group * u + Group * j /\ Group * j \in Nat /\ Group * u \in Nat
      <4>1. u \in Nat /\ Group \in Nat /\ n - 1 = u + j
        BY <3>1, <3>3, <2>1, <2>2
      <4> HIDE DEF u
      <4>2. Group * (u + j) = Group * u + Group * j
        BY <4>1
      <4> QED BY <4>1, <4>2
    <3> DEFINE a == Group * (n - 1)
               b == Group * r64.used
               c == Group * j
    <3>5. a = b + c /\ c \in Nat /\ b \in Nat /\ b >= Dword /\ a < Dword
      BY <3>1, <3>4, <2>1
    <3> HIDE DEF a, b, c
    <3> QED BY <3>5, <2>2
  <2>6. r64.st \in Statuses /\ r32.st \in Statuses
    BY <1>1 DEF ReadInv, IInv, TypeOK, WordReader
  <2>7. /\ r64.st \notin {"reading", "eos"} /\ r32.st \notin {"reading", "eos"}
    BY <1>1, <2>1, <2>3 DEF ReadInv, LoopsStop
  <2>8. Done(r64)
    BY <2>5, <2>6, <2>7 DEF Statuses, Done
  <2>9. r64.value = exact
    BY <1>1, <2>8 DEF ReadInv, IInv, R64Inv
  <2>10. Done(r32) => r32.value = exact \cap Bits(Word)
    BY <1>1, <2>4 DEF ReadInv, R32Inv
  <2>11. exact = SignExtend(exact \cap Bits(Word), Word) \/ exact \subseteq Bits(Word)
            => Done(r32)
    <3>1. ASSUME exact = SignExtend(exact \cap Bits(Word), Word) \/ exact \subseteq Bits(Word)
          PROVE  r32.st # "overflow"
      BY <1>1, <2>4, <3>1, WordAccepted
    <3> QED BY <3>1, <2>6, <2>7 DEF Statuses, Done
  <2> QED BY <2>8, <2>9, <2>10, <2>11
<1>2. ReadInv => EncodedReadBack
  BY <1>1 DEF EncodedReadBack
<1> QED BY <1>2, ReadInvariance, PTL

=============================================================================
