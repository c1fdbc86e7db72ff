---------------------------- MODULE PbMemoryProofs ----------------------------
(***************************************************************************)
(* Lemmas about the places in a decoded struct and about nanopb's          *)
(* operations on it, for any messages that satisfy MessageAssumption:      *)
(* what each operation leaves of a memory, which places a release still    *)
(* visits afterwards, and that every pointer stays where it is found.      *)
(*                                                                         *)
(* A place is a sequence of steps, so most lemmas compare two places step  *)
(* by step.                                                                *)
(***************************************************************************)
EXTENDS PbMemory, SequenceTheorems, FiniteSetTheorems, WellFoundedInduction, TLAPS

-----------------------------------------------------------------------------
(***************************************************************************)
(* Places.                                                                 *)
(***************************************************************************)

\* A place in the caller's struct: every step is a field there is.
Path ==
    {p \in Seq(Messages \X Nat \X Nat) :
        \A n \in 1 .. Len(p) : p[n][2] \in DOMAIN Msg[p[n][1]]}

\* A place that is not the struct itself.
Inner == {p \in Path : Len(p) > 0}

\* p lies in the object at o, or is it.
Under(o, p) == Len(o) <= Len(p) /\ \A k \in 1 .. Len(o) : o[k] = p[k]

\* A field of a message has its type.
LEMMA FieldTyped ==
    ASSUME NEW m \in Messages, NEW i \in DOMAIN Msg[m]
    PROVE  /\ Msg[m][i] \in FieldType /\ i \in Nat \ {0}
           /\ Msg[m][i].sub \in Messages
           /\ Msg[m][i].cap \in Nat /\ Msg[m][i].width \in Nat \ {0}
<1>1. Msg[m] \in Seq(FieldType)
  BY MessageAssumption
<1>2. Msg[m][i] \in FieldType /\ i \in 1 .. Len(Msg[m])
  BY <1>1
<1> QED BY <1>1, <1>2 DEF FieldType

\* A step of a place names an item of a field.
LEMMA StepTyped ==
    ASSUME NEW p \in Path, NEW n \in 1 .. Len(p)
    PROVE  /\ p[n] \in Messages \X Nat \X Nat
           /\ p[n] = <<p[n][1], p[n][2], p[n][3]>>
           /\ p[n][1] \in Messages /\ p[n][2] \in DOMAIN Msg[p[n][1]] /\ p[n][3] \in Nat
           /\ FieldAt(p[n]) \in FieldType
<1>1. p \in Seq(Messages \X Nat \X Nat) /\ p[n][2] \in DOMAIN Msg[p[n][1]]
  BY DEF Path
<1>2. p[n] \in Messages \X Nat \X Nat
  BY <1>1
<1>3. /\ p[n] = <<p[n][1], p[n][2], p[n][3]>>
      /\ p[n][1] \in Messages /\ p[n][3] \in Nat
  BY <1>2
<1> QED BY <1>1, <1>2, <1>3, FieldTyped DEF FieldAt

\* A place is a sequence of steps.
LEMMA PathSeq ==
    ASSUME NEW p \in Path
    PROVE  p \in Seq(Messages \X Nat \X Nat) /\ Len(p) \in Nat /\ DOMAIN p = 1 .. Len(p)
  BY DEF Path

\* Two places with the same steps are one.
LEMMA PathEqual ==
    ASSUME NEW p \in Path, NEW q \in Path, Len(p) = Len(q),
           \A k \in 1 .. Len(p) : p[k] = q[k]
    PROVE  p = q
<1>1. p \in Seq(Messages \X Nat \X Nat) /\ q \in Seq(Messages \X Nat \X Nat)
  BY PathSeq
<1> QED BY <1>1, SeqEqual

\* Item j of field i of the message m at o.
Item(o, m, i, j) == Append(o, <<m, i, j>>)

\* One step further down.
LEMMA Extended ==
    ASSUME NEW o \in Path, NEW m \in Messages, NEW i \in DOMAIN Msg[m], NEW j \in Nat
    PROVE  /\ Item(o, m, i, j) \in Inner
           /\ Len(Item(o, m, i, j)) = Len(o) + 1
           /\ \A k \in 1 .. Len(o) : Item(o, m, i, j)[k] = o[k]
           /\ Item(o, m, i, j)[Len(o) + 1] = <<m, i, j>>
           /\ Front(Item(o, m, i, j)) = o
           /\ Last(Item(o, m, i, j)) = <<m, i, j>>
<1> DEFINE q == Append(o, <<m, i, j>>)
<1>1. o \in Seq(Messages \X Nat \X Nat) /\ Len(o) \in Nat
  BY PathSeq
<1>2. <<m, i, j>> \in Messages \X Nat \X Nat
  BY FieldTyped
<1>3. /\ q \in Seq(Messages \X Nat \X Nat) /\ Len(q) = Len(o) + 1
      /\ \A k \in 1 .. Len(o) : q[k] = o[k]
      /\ q[Len(q)] = <<m, i, j>>
  BY <1>1, <1>2
<1>4. q \in Path
  <2>1. \A n \in 1 .. Len(q) : n \in 1 .. Len(o) \/ n = Len(q)
    BY <1>1, <1>3
  <2>2. \A n \in 1 .. Len(o) : o[n][2] \in DOMAIN Msg[o[n][1]]
    BY DEF Path
  <2>3. \A n \in 1 .. Len(q) : q[n][2] \in DOMAIN Msg[q[n][1]]
    BY <1>3, <2>1, <2>2
  <2> QED BY <1>3, <2>3 DEF Path
<1>5. Front(q) = o
  <2>1. Len(q) - 1 = Len(o)
    BY <1>1, <1>3
  <2>2. Front(q) = SubSeq(q, 1, Len(o))
    BY <2>1 DEF Front
  <2>3. /\ SubSeq(q, 1, Len(o)) \in Seq(Messages \X Nat \X Nat)
        /\ Len(SubSeq(q, 1, Len(o))) = Len(o)
        /\ \A k \in 1 .. Len(o) : SubSeq(q, 1, Len(o))[k] = q[k]
    BY <1>1, <1>3
  <2> QED BY <1>1, <1>3, <2>2, <2>3, SeqEqual
<1>6. Last(q) = <<m, i, j>>
  BY <1>3 DEF Last
<1> QED BY <1>1, <1>3, <1>4, <1>5, <1>6 DEF Inner, Item

\* The members of a struct and its items are places of their own.
LEMMA Cut ==
    ASSUME NEW p \in Path, NEW n \in 0 .. Len(p)
    PROVE  /\ SubSeq(p, 1, n) \in Path /\ Len(SubSeq(p, 1, n)) = n
           /\ \A k \in 1 .. n : SubSeq(p, 1, n)[k] = p[k]
<1>1. p \in Seq(Messages \X Nat \X Nat) /\ Len(p) \in Nat
  BY PathSeq
<1>2. /\ SubSeq(p, 1, n) \in Seq(Messages \X Nat \X Nat)
      /\ Len(SubSeq(p, 1, n)) = n
      /\ \A k \in 1 .. n : SubSeq(p, 1, n)[k] = p[k]
  BY <1>1
<1>3. \A k \in 1 .. n : p[k][2] \in DOMAIN Msg[p[k][1]]
  BY <1>1 DEF Path
<1> QED BY <1>2, <1>3 DEF Path

\* Taking the last step off a place leaves the object it is in.
LEMMA FrontLast ==
    ASSUME NEW p \in Inner
    PROVE  /\ Front(p) \in Path /\ Len(Front(p)) = Len(p) - 1 /\ Len(p) \in Nat \ {0}
           /\ \A k \in 1 .. Len(p) - 1 : Front(p)[k] = p[k]
           /\ Last(p) = p[Len(p)] /\ Len(p) \in 1 .. Len(p)
<1>1. p \in Path /\ Len(p) \in Nat \ {0}
  BY PathSeq DEF Inner
<1>2. Len(p) - 1 \in 0 .. Len(p)
  BY <1>1
<1>3. Front(p) = SubSeq(p, 1, Len(p) - 1)
  BY DEF Front
<1>4. /\ SubSeq(p, 1, Len(p) - 1) \in Path /\ Len(SubSeq(p, 1, Len(p) - 1)) = Len(p) - 1
      /\ \A k \in 1 .. Len(p) - 1 : SubSeq(p, 1, Len(p) - 1)[k] = p[k]
  BY <1>1, <1>2, Cut
<1>5. Last(p) = p[Len(p)]
  BY DEF Last
<1> QED BY <1>1, <1>3, <1>4, <1>5

\* The member that step n of a place goes through.
LEMMA MemberOfPath ==
    ASSUME NEW p \in Path, NEW n \in 1 .. Len(p)
    PROVE  /\ MemberOf(p, n) \in Inner /\ Len(MemberOf(p, n)) = n
           /\ \A k \in 1 .. n - 1 : MemberOf(p, n)[k] = p[k]
           /\ MemberOf(p, n)[n] = <<p[n][1], p[n][2], 0>>
           /\ Last(MemberOf(p, n)) = <<p[n][1], p[n][2], 0>>
           /\ Front(MemberOf(p, n)) = SubSeq(p, 1, n - 1)
<1> DEFINE o == SubSeq(p, 1, n - 1)
           m == p[n][1]
           i == p[n][2]
<1>1. n - 1 \in 0 .. Len(p)
  BY PathSeq
<1>2. o \in Path /\ Len(o) = n - 1 /\ \A k \in 1 .. n - 1 : o[k] = p[k]
  BY <1>1, Cut
<1>3. m \in Messages /\ i \in DOMAIN Msg[m] /\ 0 \in Nat
  BY StepTyped
<1>4. MemberOf(p, n) = Item(o, m, i, 0)
  BY DEF MemberOf, Member, Item
<1> HIDE DEF o, m, i
<1>5. Len(o) + 1 = n
  BY <1>2
<1>6. /\ MemberOf(p, n) \in Inner /\ Len(MemberOf(p, n)) = Len(o) + 1
      /\ \A k \in 1 .. Len(o) : MemberOf(p, n)[k] = o[k]
      /\ MemberOf(p, n)[Len(o) + 1] = <<m, i, 0>>
      /\ Last(MemberOf(p, n)) = <<m, i, 0>>
      /\ Front(MemberOf(p, n)) = o
  BY <1>2, <1>3, <1>4, Extended
<1>7. /\ MemberOf(p, n) \in Inner /\ Len(MemberOf(p, n)) = n
      /\ \A k \in 1 .. n - 1 : MemberOf(p, n)[k] = p[k]
      /\ MemberOf(p, n)[n] = <<m, i, 0>>
      /\ Last(MemberOf(p, n)) = <<m, i, 0>>
      /\ Front(MemberOf(p, n)) = o
  BY <1>2, <1>5, <1>6
<1> QED BY <1>7 DEF o, m, i

\* What lies below an object has the object's steps.
LEMMA PrefixSteps ==
    ASSUME NEW o \in Path, NEW p \in Path
    PROVE  /\ IsPrefix(o, p) <=> Len(o) <= Len(p) /\ \A k \in 1 .. Len(o) : o[k] = p[k]
           /\ IsStrictPrefix(o, p) <=> Len(o) < Len(p) /\ \A k \in 1 .. Len(o) : o[k] = p[k]
<1>1. Len(o) \in Nat /\ Len(p) \in Nat
  BY PathSeq
<1>2. IsPrefix(o, p) <=> Len(o) <= Len(p) /\ \A k \in 1 .. Len(o) : o[k] = p[k]
  <2>1. CASE Len(o) <= Len(p)
    <3>1. Len(o) \in 0 .. Len(o) /\ Len(o) \in 0 .. Len(p)
      BY <1>1, <2>1
    <3>2. /\ SubSeq(o, 1, Len(o)) \in Path /\ Len(SubSeq(o, 1, Len(o))) = Len(o)
          /\ \A k \in 1 .. Len(o) : SubSeq(o, 1, Len(o))[k] = o[k]
          /\ SubSeq(p, 1, Len(o)) \in Path /\ Len(SubSeq(p, 1, Len(o))) = Len(o)
          /\ \A k \in 1 .. Len(o) : SubSeq(p, 1, Len(o))[k] = p[k]
      BY <3>1, Cut
    <3>3. (\A k \in 1 .. Len(o) : o[k] = p[k]) =>
            SubSeq(o, 1, Len(o)) = SubSeq(p, 1, Len(o))
      BY <3>2, PathEqual
    <3>4. SubSeq(o, 1, Len(o)) = SubSeq(p, 1, Len(o)) =>
            \A k \in 1 .. Len(o) : o[k] = p[k]
      BY <3>2
    <3> QED BY <2>1, <3>3, <3>4 DEF IsPrefix
  <2>2. CASE ~(Len(o) <= Len(p))
    BY <2>2 DEF IsPrefix
  <2> QED BY <2>1, <2>2
<1>3. Len(o) = Len(p) /\ (\A k \in 1 .. Len(o) : o[k] = p[k]) => o = p
  BY PathEqual
<1> QED BY <1>1, <1>2, <1>3 DEF IsStrictPrefix

-----------------------------------------------------------------------------
(***************************************************************************)
(* What each operation on the memory leaves of it.                         *)
(***************************************************************************)

Counts == UNION {[D -> Nat] : D \in SUBSET Inner}
Reads == UNION {[D -> SUBSET Nat] : D \in SUBSET Path}

\* The memory behind a message, place by place.
Memory == {m \in [ptr : SUBSET Inner, has : SUBSET Inner,
                 count : Counts, room : Counts, done : Reads] : IsFiniteSet(m.ptr)}

\* What a table of numbers is made of.
LEMMA CountsParts ==
    ASSUME NEW fn \in Counts
    PROVE  /\ DOMAIN fn \subseteq Inner /\ fn = [p \in DOMAIN fn |-> fn[p]]
           /\ \A p \in DOMAIN fn : fn[p] \in Nat
           /\ \A p : Get(fn, p) \in Nat
<1>1. PICK D \in SUBSET Inner : fn \in [D -> Nat]
  BY DEF Counts
<1> QED BY <1>1 DEF Get

\* What a table of required fields is made of.
LEMMA ReadsParts ==
    ASSUME NEW fn \in Reads
    PROVE  /\ DOMAIN fn \subseteq Path /\ fn = [p \in DOMAIN fn |-> fn[p]]
           /\ \A p \in DOMAIN fn : fn[p] \in SUBSET Nat
<1>1. PICK D \in SUBSET Path : fn \in [D -> SUBSET Nat]
  BY DEF Reads
<1> QED BY <1>1

\* An entry of a table of numbers is set.
LEMMA PutCounts ==
    ASSUME NEW fn \in Counts, NEW p \in Inner, NEW v \in Nat
    PROVE  /\ Put(fn, p, v) \in Counts
           /\ DOMAIN Put(fn, p, v) = DOMAIN fn \cup {p}
           /\ Put(fn, p, v)[p] = v
           /\ \A q \in DOMAIN fn : q # p => Put(fn, p, v)[q] = fn[q]
           /\ Get(Put(fn, p, v), p) = v
           /\ \A q : q # p => Get(Put(fn, p, v), q) = Get(fn, q)
<1>1. DOMAIN fn \subseteq Inner /\ \A q \in DOMAIN fn : fn[q] \in Nat
  BY CountsParts
<1> DEFINE D == DOMAIN fn \cup {p}
           g == [q \in D |-> IF q = p THEN v ELSE fn[q]]
<1>2. D \in SUBSET Inner
  BY <1>1
<1>3. \A q \in D : (IF q = p THEN v ELSE fn[q]) \in Nat
  BY <1>1
<1>4. g \in [D -> Nat]
  BY <1>3
<1>5. g \in Counts
  BY <1>2, <1>4 DEF Counts
<1>6. Put(fn, p, v) = g
  BY DEF Put
<1>7. DOMAIN g = D /\ \A q \in D : g[q] = IF q = p THEN v ELSE fn[q]
  OBVIOUS
<1>8. \A q : Get(g, q) = IF q = p THEN v ELSE Get(fn, q)
  BY <1>7 DEF Get
<1> QED BY <1>5, <1>6, <1>7, <1>8

\* An entry of a table of required fields is set.
LEMMA PutReads ==
    ASSUME NEW fn \in Reads, NEW p \in Path, NEW v \in SUBSET Nat
    PROVE  /\ Put(fn, p, v) \in Reads
           /\ DOMAIN Put(fn, p, v) = DOMAIN fn \cup {p}
           /\ Put(fn, p, v)[p] = v
           /\ \A q \in DOMAIN fn : q # p => Put(fn, p, v)[q] = fn[q]
<1>1. DOMAIN fn \subseteq Path /\ \A q \in DOMAIN fn : fn[q] \in SUBSET Nat
  BY ReadsParts
<1> DEFINE D == DOMAIN fn \cup {p}
           g == [q \in D |-> IF q = p THEN v ELSE fn[q]]
<1>2. D \in SUBSET Path
  BY <1>1
<1>3. \A q \in D : (IF q = p THEN v ELSE fn[q]) \in SUBSET Nat
  BY <1>1
<1>4. g \in [D -> SUBSET Nat]
  BY <1>3
<1>5. g \in Reads
  BY <1>2, <1>4 DEF Reads
<1>6. Put(fn, p, v) = g
  BY DEF Put
<1>7. DOMAIN g = D /\ \A q \in D : g[q] = IF q = p THEN v ELSE fn[q]
  OBVIOUS
<1> QED BY <1>5, <1>6, <1>7

\* A pointer is set, and there is room for n items.
LEMMA AllocatedMem ==
    ASSUME NEW m \in Memory, NEW p \in Inner, NEW n \in Nat
    PROVE  /\ Allocated(m, p, n) \in Memory
           /\ Allocated(m, p, n).ptr = m.ptr \cup {p} /\ Allocated(m, p, n).has = m.has
           /\ Allocated(m, p, n).count = m.count /\ Allocated(m, p, n).done = m.done
           /\ Allocated(m, p, n).room = Put(m.room, p, n)
<1>1. Put(m.room, p, n) \in Counts
  BY PutCounts DEF Memory
<1>2. IsFiniteSet(m.ptr \cup {p})
  BY FS_AddElement DEF Memory
<1> QED BY <1>1, <1>2 DEF Allocated, Memory

\* An array counts n items.
LEMMA CountedMem ==
    ASSUME NEW m \in Memory, NEW p \in Inner, NEW n \in Nat
    PROVE  /\ Counted(m, p, n) \in Memory
           /\ Counted(m, p, n).ptr = m.ptr /\ Counted(m, p, n).has = m.has
           /\ Counted(m, p, n).room = m.room /\ Counted(m, p, n).done = m.done
           /\ Counted(m, p, n).count = Put(m.count, p, n)
<1>1. Put(m.count, p, n) \in Counts
  BY PutCounts DEF Memory
<1> QED BY <1>1 DEF Counted, Memory

\* which_ names a member.
LEMMA WhichMem ==
    ASSUME NEW m \in Memory, NEW p \in Inner
    PROVE  /\ Which(m, p) \in Memory
           /\ Which(m, p).ptr = m.ptr /\ Which(m, p).count = m.count
           /\ Which(m, p).room = m.room /\ Which(m, p).done = m.done
           /\ \A q : q \in Which(m, p).has <=>
                 \/ q = p
                 \/ q \in m.has /\ ~(Front(q) = Front(p) /\ FieldAt(Last(q)).rule = "oneof")
<1> DEFINE H == {q \in m.has : ~(Front(q) = Front(p) /\ FieldAt(Last(q)).rule = "oneof")} \cup {p}
<1>1. H \in SUBSET Inner
  BY DEF Memory
<1>2. Which(m, p) = [m EXCEPT !.has = H]
  BY DEF Which
<1>3. \A q : q \in H <=>
                 \/ q = p
                 \/ q \in m.has /\ ~(Front(q) = Front(p) /\ FieldAt(Last(q)).rule = "oneof")
  OBVIOUS
<1> HIDE DEF H
<1> QED BY <1>1, <1>2, <1>3 DEF Memory

\* has_ is set.
LEMMA HasMem ==
    ASSUME NEW m \in Memory, NEW p \in Inner
    PROVE  LET h == [m EXCEPT !.has = @ \cup {p}]
           IN  /\ h \in Memory /\ h.has = m.has \cup {p}
               /\ h.ptr = m.ptr /\ h.count = m.count /\ h.room = m.room /\ h.done = m.done
  BY DEF Memory

\* A required field of the object at o was read.
ReadAt(m, o, i) == [m EXCEPT !.done = Put(@, o, @[o] \cup {i})]

\* It counts as read from then on.
LEMMA ReadMem ==
    ASSUME NEW m \in Memory, NEW o \in DOMAIN m.done, NEW i \in Nat
    PROVE  /\ ReadAt(m, o, i) \in Memory
           /\ ReadAt(m, o, i).ptr = m.ptr /\ ReadAt(m, o, i).has = m.has
           /\ ReadAt(m, o, i).count = m.count /\ ReadAt(m, o, i).room = m.room
           /\ DOMAIN ReadAt(m, o, i).done = DOMAIN m.done
           /\ ReadAt(m, o, i).done[o] = m.done[o] \cup {i}
           /\ \A q \in DOMAIN m.done : q # o => ReadAt(m, o, i).done[q] = m.done[q]
<1> DEFINE v == m.done[o] \cup {i}
<1>1. /\ o \in Path /\ v \in SUBSET Nat /\ m.done \in Reads
  BY ReadsParts DEF Memory
<1>2. v = m.done[o] \cup {i}
  OBVIOUS
<1>3. ReadAt(m, o, i) = [m EXCEPT !.done = Put(m.done, o, v)]
  BY DEF ReadAt
<1> HIDE DEF v
<1>4. /\ Put(m.done, o, v) \in Reads
      /\ DOMAIN Put(m.done, o, v) = DOMAIN m.done \cup {o}
      /\ Put(m.done, o, v)[o] = v
      /\ \A q \in DOMAIN m.done : q # o => Put(m.done, o, v)[q] = m.done[q]
  BY <1>1, PutReads
<1>5. /\ ReadAt(m, o, i) \in Memory /\ ReadAt(m, o, i).done = Put(m.done, o, v)
      /\ ReadAt(m, o, i).ptr = m.ptr /\ ReadAt(m, o, i).has = m.has
      /\ ReadAt(m, o, i).count = m.count /\ ReadAt(m, o, i).room = m.room
  BY <1>3, <1>4 DEF Memory
<1> QED BY <1>2, <1>4, <1>5

\* A release takes pointers away and counts arrays empty, and touches nothing else.
LEMMA ReleasedMem ==
    ASSUME NEW m \in Memory, NEW ps, NEW n
    PROVE  /\ Released(m, ps, n) \in Memory
           /\ Released(m, ps, n).has = m.has /\ Released(m, ps, n).done = m.done
           /\ \A p : p \in Released(m, ps, n).ptr <=>
                 p \in m.ptr /\ ~(p \in ps /\ \A k \in n .. Len(p) : Visits(m, p, k))
           /\ DOMAIN Released(m, ps, n).count = DOMAIN m.count
           /\ DOMAIN Released(m, ps, n).room = DOMAIN m.room
           /\ \A p \in DOMAIN m.count : Released(m, ps, n).count[p] =
                 IF /\ p \in ps /\ \A k \in n .. Len(p) : Visits(m, p, k)
                    /\ FieldAt(Last(p)).rule = "repeated" /\ FieldAt(Last(p)).alloc = "pointer"
                 THEN 0 ELSE m.count[p]
           /\ \A p \in DOMAIN m.room : Released(m, ps, n).room[p] =
                 IF p \in ps /\ \A k \in n .. Len(p) : Visits(m, p, k) THEN 0 ELSE m.room[p]
<1> DEFINE V == {p \in ps : \A k \in n .. Len(p) : Visits(m, p, k)}
           A(p) == FieldAt(Last(p)).rule = "repeated" /\ FieldAt(Last(p)).alloc = "pointer"
           P == m.ptr \ V
           C == [p \in DOMAIN m.count |-> IF p \in V /\ A(p) THEN 0 ELSE m.count[p]]
           R == [p \in DOMAIN m.room |-> IF p \in V THEN 0 ELSE m.room[p]]
<1>1. /\ DOMAIN m.count \in SUBSET Inner /\ \A p \in DOMAIN m.count : m.count[p] \in Nat
      /\ DOMAIN m.room \in SUBSET Inner /\ \A p \in DOMAIN m.room : m.room[p] \in Nat
  BY CountsParts DEF Memory
<1>2. C \in Counts
  <2>1. C \in [DOMAIN m.count -> Nat]
    BY <1>1
  <2> QED BY <1>1, <2>1 DEF Counts
<1>3. R \in Counts
  <2>1. R \in [DOMAIN m.room -> Nat]
    BY <1>1
  <2> QED BY <1>1, <2>1 DEF Counts
<1>4. P \in SUBSET Inner /\ IsFiniteSet(P)
  <2>1. P \subseteq m.ptr /\ IsFiniteSet(m.ptr) /\ m.ptr \in SUBSET Inner
    BY DEF Memory
  <2> HIDE DEF P
  <2> QED BY <2>1, FS_Subset
<1>5. Released(m, ps, n) = [m EXCEPT !.ptr = P, !.count = C, !.room = R]
  BY DEF Released
<1>6. /\ \A p : p \in P <=> p \in m.ptr /\ ~(p \in ps /\ \A k \in n .. Len(p) : Visits(m, p, k))
      /\ DOMAIN C = DOMAIN m.count /\ DOMAIN R = DOMAIN m.room
      /\ \A p \in DOMAIN m.count : C[p] =
                 IF /\ p \in ps /\ \A k \in n .. Len(p) : Visits(m, p, k)
                    /\ FieldAt(Last(p)).rule = "repeated" /\ FieldAt(Last(p)).alloc = "pointer"
                 THEN 0 ELSE m.count[p]
      /\ \A p \in DOMAIN m.room : R[p] =
                 IF p \in ps /\ \A k \in n .. Len(p) : Visits(m, p, k) THEN 0 ELSE m.room[p]
  OBVIOUS
<1> HIDE DEF P, C, R
<1>7. /\ Released(m, ps, n) \in Memory
      /\ Released(m, ps, n).has = m.has /\ Released(m, ps, n).done = m.done
      /\ Released(m, ps, n).ptr = P /\ Released(m, ps, n).count = C
      /\ Released(m, ps, n).room = R
  BY <1>2, <1>3, <1>4, <1>5 DEF Memory
<1> QED BY <1>6, <1>7

\* Clearing an object forgets whatever is below it and keeps the rest.
LEMMA ClearedMem ==
    ASSUME NEW m \in Memory, NEW o \in Path
    PROVE  /\ Cleared(m, o) \in Memory
           /\ \A p : p \in Cleared(m, o).ptr <=> p \in m.ptr /\ ~IsPrefix(o, p)
           /\ \A p : p \in Cleared(m, o).has <=> p \in m.has /\ ~IsPrefix(o, p)
           /\ \A p : p \in DOMAIN Cleared(m, o).count <=> p \in DOMAIN m.count /\ ~IsPrefix(o, p)
           /\ \A p : p \in DOMAIN Cleared(m, o).room <=> p \in DOMAIN m.room /\ ~IsPrefix(o, p)
           /\ \A p : p \in DOMAIN Cleared(m, o).done <=> p \in DOMAIN m.done /\ ~IsPrefix(o, p)
           /\ \A p \in DOMAIN Cleared(m, o).count : Cleared(m, o).count[p] = m.count[p]
           /\ \A p \in DOMAIN Cleared(m, o).room : Cleared(m, o).room[p] = m.room[p]
           /\ \A p \in DOMAIN Cleared(m, o).done : Cleared(m, o).done[p] = m.done[p]
<1> DEFINE K(fn) == {p \in DOMAIN fn : ~IsPrefix(o, p)}
           P == {p \in m.ptr : ~IsPrefix(o, p)}
           H == {p \in m.has : ~IsPrefix(o, p)}
           C == [p \in K(m.count) |-> m.count[p]]
           R == [p \in K(m.room) |-> m.room[p]]
           D == [p \in K(m.done) |-> m.done[p]]
<1>1. /\ DOMAIN m.count \in SUBSET Inner /\ \A p \in DOMAIN m.count : m.count[p] \in Nat
      /\ DOMAIN m.room \in SUBSET Inner /\ \A p \in DOMAIN m.room : m.room[p] \in Nat
  BY CountsParts DEF Memory
<1>2. DOMAIN m.done \in SUBSET Path /\ \A p \in DOMAIN m.done : m.done[p] \in SUBSET Nat
  BY ReadsParts DEF Memory
<1>3. C \in Counts
  <2>1. C \in [K(m.count) -> Nat] /\ K(m.count) \in SUBSET Inner
    BY <1>1
  <2> QED BY <2>1 DEF Counts
<1>4. R \in Counts
  <2>1. R \in [K(m.room) -> Nat] /\ K(m.room) \in SUBSET Inner
    BY <1>1
  <2> QED BY <2>1 DEF Counts
<1>5. D \in Reads
  <2>1. D \in [K(m.done) -> SUBSET Nat] /\ K(m.done) \in SUBSET Path
    BY <1>2
  <2> QED BY <2>1 DEF Reads
<1>6. P \in SUBSET Inner /\ H \in SUBSET Inner /\ IsFiniteSet(P)
  <2>1. /\ P \subseteq m.ptr /\ IsFiniteSet(m.ptr) /\ m.ptr \in SUBSET Inner
        /\ H \in SUBSET Inner
    BY DEF Memory
  <2> HIDE DEF P, H
  <2> QED BY <2>1, FS_Subset
<1>7. Cleared(m, o) = [ptr |-> P, has |-> H, count |-> C, room |-> R, done |-> D]
  BY DEF Cleared, Below, Restrict
<1>8. /\ \A p : p \in P <=> p \in m.ptr /\ ~IsPrefix(o, p)
      /\ \A p : p \in H <=> p \in m.has /\ ~IsPrefix(o, p)
      /\ \A p : p \in DOMAIN C <=> p \in DOMAIN m.count /\ ~IsPrefix(o, p)
      /\ \A p : p \in DOMAIN R <=> p \in DOMAIN m.room /\ ~IsPrefix(o, p)
      /\ \A p : p \in DOMAIN D <=> p \in DOMAIN m.done /\ ~IsPrefix(o, p)
      /\ \A p \in DOMAIN C : C[p] = m.count[p]
      /\ \A p \in DOMAIN R : R[p] = m.room[p]
      /\ \A p \in DOMAIN D : D[p] = m.done[p]
  OBVIOUS
<1> HIDE DEF P, H, C, R, D
<1>9. /\ Cleared(m, o) \in Memory
      /\ Cleared(m, o).ptr = P /\ Cleared(m, o).has = H /\ Cleared(m, o).count = C
      /\ Cleared(m, o).room = R /\ Cleared(m, o).done = D
  BY <1>3, <1>4, <1>5, <1>6, <1>7 DEF Memory
<1> QED BY <1>8, <1>9

\* What is not cleared has the numbers it had.
LEMMA ClearedGet ==
    ASSUME NEW m \in Memory, NEW o \in Path, NEW p, ~IsPrefix(o, p)
    PROVE  /\ Get(Cleared(m, o).count, p) = Get(m.count, p)
           /\ Get(Cleared(m, o).room, p) = Get(m.room, p)
  BY ClearedMem DEF Get

\* An object is not in another field's member, nor in its own.
LEMMA NotInMember ==
    ASSUME NEW o \in Path, NEW p \in Path, Len(p) = Len(o), o # p
    PROVE  ~IsPrefix(o, p)
  BY PrefixSteps, PathEqual

\* A struct before anything is decoded into it.
LEMMA NothingMem ==
    /\ Nothing \in Memory
    /\ Nothing.ptr = {} /\ Nothing.has = {} /\ DOMAIN Nothing.count = {}
    /\ DOMAIN Nothing.room = {} /\ DOMAIN Nothing.done = {}
<1>1. <<>> \in Counts /\ <<>> \in Reads /\ DOMAIN <<>> = {}
  <2>1. <<>> \in [{} -> Nat] /\ <<>> \in [{} -> SUBSET Nat] /\ DOMAIN <<>> = {}
    OBVIOUS
  <2> QED BY <2>1 DEF Counts, Reads
<1> QED BY <1>1, FS_EmptySet DEF Nothing, Memory

\* What is forgotten is counted.
LEMMA ForgottenCounted ==
    ASSUME NEW m \in Memory, NEW o
    PROVE  Forgets(m, o) \in Nat /\ Cardinality(m.ptr) \in Nat
<1>1. IsFiniteSet(m.ptr) /\ {p \in m.ptr : Below(o, p)} \subseteq m.ptr
  BY DEF Memory
<1>2. IsFiniteSet({p \in m.ptr : Below(o, p)})
  BY <1>1, FS_Subset
<1> QED BY <1>1, <1>2, FS_CardinalityType DEF Forgets

-----------------------------------------------------------------------------
(***************************************************************************)
(* Every block hangs on a pointer that a release finds.                    *)
(***************************************************************************)

\* The item s of a field holds a message of type m.
Holds(s, m) ==
    FieldAt(s).type = "message" /\ FieldAt(s).alloc # "callback" /\ s[3] > 0 /\ FieldAt(s).sub = m

\* In a struct of type r, p is a place.
Placed(r, p) ==
    p[1][1] = r /\ \A n \in 1 .. Len(p) - 1 : Holds(p[n], p[n + 1][1])

\* In a struct of type r, there is one of type m at o.
Reaches(r, o, m) ==
    /\ Len(o) = 0 => m = r
    /\ Len(o) > 0 => Placed(r, o) /\ Holds(o[Len(o)], m)

\* A release visits every step of p.
Standing(m, p) == \A n \in 1 .. Len(p) : Visits(m, p, n)

\* A field with a pointer, or an item of an array of texts that has one.
Holder(p) ==
    /\ FieldAt(Last(p)).alloc = "pointer"
    /\ Last(p)[3] > 0 => FieldAt(Last(p)).type = "text" /\ FieldAt(Last(p)).rule = "repeated"

\* A member of a union.
OneOf(p) == FieldAt(Last(p)).rule = "oneof"

\* What a release is told of a struct of type r.
Rooted(r, m) ==
    /\ \A p \in m.ptr : Placed(r, p) /\ Holder(p) /\ Standing(m, p)
    /\ \A p \in m.has : Placed(r, p) /\ Last(p)[3] = 0
    /\ \A p, q \in m.has : Front(p) = Front(q) /\ OneOf(p) /\ OneOf(q) => p = q

\* The member of step n depends on the first n steps only.
LEMMA SameMember ==
    ASSUME NEW p \in Path, NEW q \in Path, NEW n \in 1 .. Len(p), n <= Len(q),
           \A k \in 1 .. n : p[k] = q[k]
    PROVE  MemberOf(p, n) = MemberOf(q, n)
<1>1. n \in Nat /\ n \in 1 .. Len(q) /\ Len(p) \in Nat /\ Len(q) \in Nat
  BY PathSeq
<1>2. /\ MemberOf(p, n) \in Inner /\ Len(MemberOf(p, n)) = n
      /\ \A k \in 1 .. n - 1 : MemberOf(p, n)[k] = p[k]
      /\ MemberOf(p, n)[n] = <<p[n][1], p[n][2], 0>>
  BY MemberOfPath
<1>3. /\ MemberOf(q, n) \in Inner /\ Len(MemberOf(q, n)) = n
      /\ \A k \in 1 .. n - 1 : MemberOf(q, n)[k] = q[k]
      /\ MemberOf(q, n)[n] = <<q[n][1], q[n][2], 0>>
  BY <1>1, MemberOfPath
<1>4. p[n] = q[n] /\ \A k \in 1 .. n - 1 : p[k] = q[k]
  BY <1>1
<1>5. \A k \in 1 .. n : MemberOf(p, n)[k] = MemberOf(q, n)[k]
  <2> SUFFICES ASSUME NEW k \in 1 .. n
               PROVE  MemberOf(p, n)[k] = MemberOf(q, n)[k]
    OBVIOUS
  <2>1. CASE k = n
    BY <1>2, <1>3, <1>4, <2>1
  <2>2. CASE k # n
    <3>1. k \in 1 .. n - 1
      BY <1>1, <2>2
    <3> QED BY <1>2, <1>3, <1>4, <3>1
  <2> QED BY <2>1, <2>2
<1> QED BY <1>2, <1>3, <1>5, PathEqual DEF Inner

\* The member of a step of a member.
LEMMA MemberOfMember ==
    ASSUME NEW p \in Path, NEW k \in 1 .. Len(p), NEW n \in 1 .. k
    PROVE  MemberOf(MemberOf(p, k), n) = MemberOf(p, n)
<1> DEFINE m == MemberOf(p, k)
<1>1. /\ m \in Inner /\ Len(m) = k /\ \A j \in 1 .. k - 1 : m[j] = p[j]
      /\ m[k] = <<p[k][1], p[k][2], 0>>
  BY MemberOfPath
<1> HIDE DEF m
<1>a. m \in Path
  BY <1>1 DEF Inner
<1>b. Len(p) \in Nat
  BY PathSeq
<1>2. m \in Path /\ n \in 1 .. Len(m) /\ n \in 1 .. Len(p) /\ n \in Nat /\ k \in Nat /\ Len(p) \in Nat
  BY <1>1, <1>a, <1>b
<1>3. /\ MemberOf(p, n) \in Inner /\ Len(MemberOf(p, n)) = n
      /\ \A j \in 1 .. n - 1 : MemberOf(p, n)[j] = p[j]
      /\ MemberOf(p, n)[n] = <<p[n][1], p[n][2], 0>>
  BY <1>2, MemberOfPath
<1>4. /\ MemberOf(m, n) \in Inner /\ Len(MemberOf(m, n)) = n
      /\ \A j \in 1 .. n - 1 : MemberOf(m, n)[j] = m[j]
      /\ MemberOf(m, n)[n] = <<m[n][1], m[n][2], 0>>
  BY <1>2, MemberOfPath
<1>5. /\ \A j \in 1 .. n - 1 : m[j] = p[j]
      /\ <<m[n][1], m[n][2], 0>> = <<p[n][1], p[n][2], 0>>
  <2>1. \A j \in 1 .. n - 1 : m[j] = p[j]
    BY <1>1, <1>2
  <2>2. CASE n = k
    BY <1>1, <2>1, <2>2
  <2>3. CASE n # k
    <3>1. n \in 1 .. k - 1
      BY <1>2, <2>3
    <3> QED BY <1>1, <2>1, <3>1
  <2> QED BY <2>2, <2>3
<1>6. \A j \in 1 .. n : MemberOf(m, n)[j] = MemberOf(p, n)[j]
  <2> SUFFICES ASSUME NEW j \in 1 .. n
               PROVE  MemberOf(m, n)[j] = MemberOf(p, n)[j]
    OBVIOUS
  <2>1. CASE j = n
    BY <1>3, <1>4, <1>5, <2>1
  <2>2. CASE j # n
    <3>1. j \in 1 .. n - 1
      BY <1>2, <2>2
    <3> QED BY <1>3, <1>4, <1>5, <3>1
  <2> QED BY <2>1, <2>2
<1> QED BY <1>3, <1>4, <1>6, PathEqual DEF Inner, m

\* The member of the last step of a place, and of an item.
LEMMA MemberOfLast ==
    ASSUME NEW o \in Path, NEW m \in Messages, NEW i \in DOMAIN Msg[m], NEW j \in Nat
    PROVE  MemberOf(Item(o, m, i, j), Len(o) + 1) = Item(o, m, i, 0)
<1> DEFINE p == Item(o, m, i, j)
           n == Len(o) + 1
           q == Item(o, m, i, 0)
<1>1. /\ p \in Inner /\ Len(p) = n /\ p[n] = <<m, i, j>> /\ \A k \in 1 .. Len(o) : p[k] = o[k]
  BY Extended
<1>2. 0 \in Nat /\ Len(o) \in Nat
  BY PathSeq
<1>3. /\ q \in Inner /\ Len(q) = n /\ q[n] = <<m, i, 0>> /\ \A k \in 1 .. Len(o) : q[k] = o[k]
  BY <1>2, Extended
<1> HIDE DEF p, q
<1>4. n \in 1 .. Len(p) /\ p \in Path
  BY <1>1, <1>2 DEF Inner
<1>5. /\ MemberOf(p, n) \in Inner /\ Len(MemberOf(p, n)) = n
      /\ \A k \in 1 .. n - 1 : MemberOf(p, n)[k] = p[k]
      /\ MemberOf(p, n)[n] = <<p[n][1], p[n][2], 0>>
  BY <1>4, MemberOfPath
<1>6. n - 1 = Len(o) /\ <<p[n][1], p[n][2], 0>> = <<m, i, 0>>
  BY <1>1, <1>2
<1> HIDE DEF n
<1>7. \A k \in 1 .. n : MemberOf(p, n)[k] = q[k]
  <2> SUFFICES ASSUME NEW k \in 1 .. n
               PROVE  MemberOf(p, n)[k] = q[k]
    OBVIOUS
  <2>1. CASE k = n
    BY <1>3, <1>5, <1>6, <2>1
  <2>2. CASE k # n
    <3>1. k \in 1 .. Len(o) /\ k \in 1 .. n - 1
      BY <1>2, <1>6, <2>2 DEF n
    <3> QED BY <1>1, <1>3, <1>5, <3>1
  <2> QED BY <2>1, <2>2
<1> QED BY <1>3, <1>5, <1>7, PathEqual DEF Inner, p, q, n

\* Below what a release visits, and what it does not see of a place.
LEMMA ObjectBelow ==
    ASSUME NEW o \in Path, NEW p \in Path, NEW k \in 1 .. Len(p), IsStrictPrefix(o, MemberOf(p, k))
    PROVE  IsStrictPrefix(o, p)
<1>1. /\ MemberOf(p, k) \in Inner /\ Len(MemberOf(p, k)) = k
      /\ \A j \in 1 .. k - 1 : MemberOf(p, k)[j] = p[j]
  BY MemberOfPath
<1>2. Len(o) < k /\ \A j \in 1 .. Len(o) : o[j] = MemberOf(p, k)[j]
  BY <1>1, PrefixSteps DEF Inner
<1>3. Len(o) \in Nat /\ Len(p) \in Nat /\ k \in Nat /\ k <= Len(p)
  BY PathSeq
<1>4. Len(o) < Len(p)
  BY <1>2, <1>3
<1>5. ASSUME NEW j \in 1 .. Len(o)
      PROVE  o[j] = p[j]
  <2>1. j \in 1 .. k - 1
    BY <1>2, <1>3
  <2>2. o[j] = MemberOf(p, k)[j] /\ MemberOf(p, k)[j] = p[j]
    BY <1>1, <1>2, <2>1
  <2> QED BY <2>2
<1> QED BY <1>4, <1>5, PrefixSteps

\* A cleared item is no member: what is below a member of p there is above p.
LEMMA ItemBelow ==
    ASSUME NEW o \in Inner, Last(o)[3] > 0, NEW p \in Path, NEW k \in 1 .. Len(p),
           IsPrefix(o, MemberOf(p, k))
    PROVE  IsPrefix(o, p) /\ Len(o) < k
<1>1. /\ MemberOf(p, k) \in Inner /\ Len(MemberOf(p, k)) = k
      /\ \A j \in 1 .. k - 1 : MemberOf(p, k)[j] = p[j]
      /\ MemberOf(p, k)[k] = <<p[k][1], p[k][2], 0>>
  BY MemberOfPath
<1>2. Len(o) <= k /\ \A j \in 1 .. Len(o) : o[j] = MemberOf(p, k)[j]
  BY <1>1, PrefixSteps DEF Inner
<1>3. Last(o) = o[Len(o)] /\ Len(o) \in 1 .. Len(o) /\ Len(o) \in Nat /\ o \in Path
  BY FrontLast DEF Inner
<1>4. Len(o) # k
  <2> SUFFICES ASSUME Len(o) = k
               PROVE  FALSE
    OBVIOUS
  <2>1. o[k] = <<p[k][1], p[k][2], 0>>
    BY <1>1, <1>2, <1>3
  <2>2. Last(o)[3] = 0
    BY <1>3, <2>1
  <2> QED BY <2>2
<1>a. Len(p) \in Nat /\ k \in Nat /\ Len(o) <= k - 1 /\ Len(o) <= Len(p)
  <2>1. Len(p) \in Nat
    BY PathSeq
  <2> QED BY <1>2, <1>3, <1>4, <2>1
<1>5. Len(o) <= Len(p) /\ \A j \in 1 .. Len(o) : o[j] = p[j]
  <2> SUFFICES ASSUME NEW j \in 1 .. Len(o)
               PROVE  o[j] = p[j]
    BY <1>a
  <2>1. j \in 1 .. k - 1
    BY <1>3, <1>a
  <2> QED BY <1>1, <1>2, <2>1
<1> QED BY <1>3, <1>5, <1>a, PrefixSteps

\* The smaller of two numbers.
LEMMA MinOfTwo ==
    ASSUME NEW a \in Nat, NEW b \in Nat
    PROVE  /\ Min({a, b}) \in Nat /\ Min({a, b}) <= a /\ Min({a, b}) <= b
           /\ Min({a, b}) = a \/ Min({a, b}) = b
<1>1. \E x \in {a, b} : \A y \in {a, b} : x <= y
  <2>1. CASE a <= b
    BY <2>1
  <2>2. CASE b <= a
    BY <2>2
  <2> QED BY <2>1, <2>2
<1> DEFINE c == CHOOSE x \in {a, b} : \A y \in {a, b} : x <= y
<1>2. c \in {a, b} /\ \A y \in {a, b} : c <= y
  BY <1>1
<1>3. Min({a, b}) = c
  BY DEF Min
<1> HIDE DEF c
<1> QED BY <1>2, <1>3

\* More items counted, more are visited.
LEMMA MoreItems ==
    ASSUME NEW m \in Memory, NEW r \in Memory, NEW f \in FieldType, NEW p,
           f.rule = "repeated" => Get(m.count, p) <= Get(r.count, p)
    PROVE  Items(m, f, p) <= Items(r, f, p) /\ Items(m, f, p) \in Nat /\ Items(r, f, p) \in Nat
<1>0. m.count \in Counts /\ r.count \in Counts
  BY DEF Memory
<1>a. f.cap \in Nat
  BY DEF FieldType
<1>b. ASSUME NEW fn \in Counts
      PROVE  Get(fn, p) \in Nat
  BY CountsParts
<1>1. Get(m.count, p) \in Nat /\ Get(r.count, p) \in Nat /\ f.cap \in Nat
  BY <1>0, <1>a, <1>b
<1>2. CASE f.rule # "repeated"
  <2>1. Items(m, f, p) = 1 /\ Items(r, f, p) = 1
    BY <1>2 DEF Items
  <2> QED BY <2>1
<1>3. CASE f.rule = "repeated" /\ f.alloc = "pointer"
  BY <1>1, <1>3 DEF Items
<1>4. CASE f.rule = "repeated" /\ f.alloc # "pointer"
  <2> DEFINE a == Min({f.cap, Get(m.count, p)})
             b == Min({f.cap, Get(r.count, p)})
  <2>1. Items(m, f, p) = a /\ Items(r, f, p) = b
    BY <1>4 DEF Items
  <2>2. a \in Nat /\ a <= f.cap /\ a <= Get(m.count, p)
    BY <1>1, MinOfTwo
  <2>3. b \in Nat /\ (b = f.cap \/ b = Get(r.count, p))
    BY <1>1, MinOfTwo
  <2> HIDE DEF a, b
  <2> QED BY <1>1, <1>4, <2>1, <2>2, <2>3
<1> QED BY <1>2, <1>3, <1>4

\* A step that is visited still is, if nothing it needs is taken away.
LEMMA VisitsKept ==
    ASSUME NEW m \in Memory, NEW r \in Memory, NEW p \in Path, NEW n \in 1 .. Len(p),
           Visits(m, p, n),
           FieldAt(p[n]).rule = "oneof" /\ MemberOf(p, n) \in m.has => MemberOf(p, n) \in r.has,
           FieldAt(p[n]).alloc = "pointer" /\ p[n][3] > 0 /\ MemberOf(p, n) \in m.ptr
              => MemberOf(p, n) \in r.ptr,
           FieldAt(p[n]).rule = "repeated"
              => Get(m.count, MemberOf(p, n)) <= Get(r.count, MemberOf(p, n))
    PROVE  Visits(r, p, n)
<1> DEFINE f == FieldAt(p[n])
           q == MemberOf(p, n)
<1>1. f \in FieldType /\ p[n][3] \in Nat
  BY StepTyped
<1>2. /\ f.rule = "oneof" => q \in m.has
      /\ p[n][3] > 0 => p[n][3] <= Items(m, f, q) /\ (f.alloc = "pointer" => q \in m.ptr)
  BY DEF Visits
<1>3. /\ f.rule = "oneof" => q \in r.has
      /\ f.alloc = "pointer" /\ p[n][3] > 0 => q \in r.ptr
      /\ f.rule = "repeated" => Get(m.count, q) <= Get(r.count, q)
  BY <1>2
<1> HIDE DEF f, q
<1>4. Items(m, f, q) <= Items(r, f, q) /\ Items(m, f, q) \in Nat /\ Items(r, f, q) \in Nat
  BY <1>1, <1>3, MoreItems
<1>5. p[n][3] > 0 => p[n][3] <= Items(r, f, q)
  BY <1>1, <1>2, <1>4
<1> QED BY <1>2, <1>3, <1>5 DEF Visits, f, q

\* The field of a step is the field of its member.
LEMMA FieldOfMember ==
    ASSUME NEW p \in Path, NEW n \in 1 .. Len(p)
    PROVE  /\ FieldAt(Last(MemberOf(p, n))) = FieldAt(p[n])
           /\ Last(MemberOf(p, n))[3] = 0 /\ MemberOf(p, n) \in Inner
<1>1. Last(MemberOf(p, n)) = <<p[n][1], p[n][2], 0>> /\ MemberOf(p, n) \in Inner
  BY MemberOfPath
<1> QED BY <1>1 DEF FieldAt

\* A place that stands, in a memory with more of everything.
LEMMA StandingMore ==
    ASSUME NEW m \in Memory, NEW r \in Memory, NEW p \in Path, Standing(m, p),
           m.has \subseteq r.has, m.ptr \subseteq r.ptr,
           \A q \in Inner : FieldAt(Last(q)).rule = "repeated" => Get(m.count, q) <= Get(r.count, q)
    PROVE  Standing(r, p)
<1> SUFFICES ASSUME NEW n \in 1 .. Len(p)
             PROVE  Visits(r, p, n)
  BY DEF Standing
<1>1. /\ FieldAt(Last(MemberOf(p, n))) = FieldAt(p[n]) /\ MemberOf(p, n) \in Inner
      /\ Visits(m, p, n)
  BY FieldOfMember DEF Standing
<1> QED BY <1>1, VisitsKept

\* A block more hides no place.
LEMMA StandingAllocated ==
    ASSUME NEW m \in Memory, NEW q \in Inner, NEW n \in Nat, NEW p \in Path, Standing(m, p)
    PROVE  Standing(Allocated(m, q, n), p)
<1> DEFINE r == Allocated(m, q, n)
<1>1. r \in Memory /\ r.ptr = m.ptr \cup {q} /\ r.has = m.has /\ r.count = m.count
  BY AllocatedMem
<1>2. \A s \in Inner : Get(m.count, s) <= Get(r.count, s)
  BY <1>1, CountsParts DEF Memory
<1> HIDE DEF r
<1>3. Standing(r, p)
  BY <1>1, <1>2, StandingMore
<1> QED BY <1>3 DEF r

\* A count that grows, or one of an array a release does not count.
LEMMA StandingCounted ==
    ASSUME NEW m \in Memory, NEW q \in Inner, NEW n \in Nat, NEW p \in Path, Standing(m, p),
           FieldAt(Last(q)).rule = "repeated" => Get(m.count, q) <= n
    PROVE  Standing(Counted(m, q, n), p)
<1> DEFINE r == Counted(m, q, n)
           f == Put(m.count, q, n)
<1>1. r \in Memory /\ r.ptr = m.ptr /\ r.has = m.has /\ r.count = f
  BY CountedMem
<1>2. m.count \in Counts
  BY DEF Memory
<1>3. Get(f, q) = n /\ \A s : s # q => Get(f, s) = Get(m.count, s)
  BY DEF Get, Put
<1>4. \A s : Get(m.count, s) \in Nat
  BY <1>2, CountsParts
<1> HIDE DEF r, f
<1>5. \A s \in Inner : FieldAt(Last(s)).rule = "repeated" => Get(m.count, s) <= Get(r.count, s)
  <2> SUFFICES ASSUME NEW s \in Inner, FieldAt(Last(s)).rule = "repeated"
               PROVE  Get(m.count, s) <= Get(r.count, s)
    OBVIOUS
  <2>1. CASE s = q
    BY <1>1, <1>3, <2>1
  <2>2. CASE s # q
    BY <1>1, <1>3, <1>4, <2>2
  <2> QED BY <2>1, <2>2
<1>6. Standing(r, p)
  BY <1>1, <1>5, StandingMore
<1> QED BY <1>6 DEF r

\* Naming another member of a union leaves what is not in the old one.
LEMMA StandingWhich ==
    ASSUME NEW m \in Memory, NEW q \in Inner, NEW p \in Path, Standing(m, p),
           \A n \in 1 .. Len(p) :
              FieldAt(p[n]).rule = "oneof" /\ Front(MemberOf(p, n)) = Front(q) => MemberOf(p, n) = q
    PROVE  Standing(Which(m, q), p)
<1> DEFINE r == Which(m, q)
<1>1. /\ r \in Memory /\ r.ptr = m.ptr /\ r.count = m.count
      /\ \A s : s \in r.has <=>
            s = q \/ (s \in m.has /\ ~(Front(s) = Front(q) /\ FieldAt(Last(s)).rule = "oneof"))
  BY WhichMem
<1> HIDE DEF r
<1>2. ASSUME NEW n \in 1 .. Len(p)
      PROVE  Visits(r, p, n)
  <2>1. FieldAt(Last(MemberOf(p, n))) = FieldAt(p[n]) /\ Visits(m, p, n)
    BY FieldOfMember DEF Standing
  <2>2. FieldAt(p[n]).rule = "oneof" /\ MemberOf(p, n) \in m.has => MemberOf(p, n) \in r.has
    BY <1>1, <2>1
  <2>3. Get(m.count, MemberOf(p, n)) <= Get(r.count, MemberOf(p, n))
    BY <1>1, CountsParts DEF Memory
  <2> QED BY <1>1, <2>1, <2>2, <2>3, VisitsKept
<1> QED BY <1>2 DEF Standing, r

\* Clearing an item leaves what is not in it.
LEMMA StandingCleared ==
    ASSUME NEW m \in Memory, NEW o \in Inner, Last(o)[3] > 0, NEW p \in Path, Standing(m, p),
           ~IsPrefix(o, p) \/ Len(p) <= Len(o)
    PROVE  Standing(Cleared(m, o), p)
<1> DEFINE r == Cleared(m, o)
<1>1. o \in Path
  BY DEF Inner
<1>2. /\ r \in Memory
      /\ \A s : s \in r.ptr <=> s \in m.ptr /\ ~IsPrefix(o, s)
      /\ \A s : s \in r.has <=> s \in m.has /\ ~IsPrefix(o, s)
  BY <1>1, ClearedMem
<1>3. \A s : ~IsPrefix(o, s) => Get(r.count, s) = Get(m.count, s)
  BY <1>1, ClearedGet
<1> HIDE DEF r
<1>4. ASSUME NEW n \in 1 .. Len(p)
      PROVE  Visits(r, p, n)
  <2>0. Len(p) \in Nat /\ Len(o) \in Nat
    BY <1>1, PathSeq
  <2>1. Visits(m, p, n) /\ ~IsPrefix(o, MemberOf(p, n))
    BY <2>0, ItemBelow DEF Standing
  <2>2. Get(m.count, MemberOf(p, n)) <= Get(r.count, MemberOf(p, n))
    BY <1>3, <2>1, CountsParts DEF Memory
  <2> QED BY <1>2, <2>1, <2>2, VisitsKept
<1> QED BY <1>4 DEF Standing, r

\* A release leaves what hangs on nothing it frees.
LEMMA StandingReleased ==
    ASSUME NEW m \in Memory, NEW ps, NEW n, NEW p \in Path, Standing(m, p),
           \A k \in 1 .. Len(p) : MemberOf(p, k) \notin ps
    PROVE  Standing(Released(m, ps, n), p)
<1> DEFINE r == Released(m, ps, n)
<1>1. /\ r \in Memory /\ r.has = m.has /\ DOMAIN r.count = DOMAIN m.count
      /\ \A s : s \notin ps => (s \in r.ptr <=> s \in m.ptr)
      /\ \A s \in DOMAIN m.count : s \notin ps => r.count[s] = m.count[s]
  BY ReleasedMem
<1> HIDE DEF r
<1>2. ASSUME NEW k \in 1 .. Len(p)
      PROVE  Visits(r, p, k)
  <2>1. Visits(m, p, k) /\ MemberOf(p, k) \notin ps
    BY DEF Standing
  <2>2. Get(m.count, MemberOf(p, k)) = Get(r.count, MemberOf(p, k))
    BY <1>1, <2>1 DEF Get
  <2>3. Get(m.count, MemberOf(p, k)) <= Get(r.count, MemberOf(p, k))
    BY <2>2, CountsParts DEF Memory
  <2> QED BY <1>1, <2>1, <2>3, VisitsKept
<1> QED BY <1>2 DEF Standing, r

\* What a release of an object, or of a field, starts from.
InObject(m, o) == {p \in Places(m) : IsStrictPrefix(o, p)}
InField(m, q) == {p \in Places(m) : Len(p) >= Len(q) /\ MemberOf(p, Len(q)) = q}

\* The two releases, by where they start.
LEMMA ReleaseForms ==
    ASSUME NEW m, NEW o
    PROVE  /\ ReleaseObject(m, o) = Released(m, InObject(m, o), Len(o) + 1)
           /\ ReleaseField(m, o) = Released(m, InField(m, o), Len(o))
  BY DEF ReleaseObject, ReleaseField, InObject, InField

\* A release of an object frees all blocks in it, and leaves the others.
LEMMA ObjectReleased ==
    ASSUME NEW m \in Memory, NEW o \in Path
    PROVE  /\ ReleaseObject(m, o) \in Memory /\ ReleaseObject(m, o).has = m.has
           /\ ReleaseObject(m, o).done = m.done
           /\ ReleaseObject(m, o).ptr \subseteq m.ptr
           /\ \A p \in ReleaseObject(m, o).ptr : Standing(m, p) => ~IsStrictPrefix(o, p)
           /\ \A p \in m.ptr : ~IsStrictPrefix(o, p) => p \in ReleaseObject(m, o).ptr
           /\ \A p \in Path : Standing(m, p) /\ ~IsStrictPrefix(o, p) => Standing(ReleaseObject(m, o), p)
<1> DEFINE ps == InObject(m, o)
           n == Len(o) + 1
           r == Released(m, ps, n)
<1>1. ReleaseObject(m, o) = r
  BY ReleaseForms
<1>2. /\ r \in Memory /\ r.has = m.has /\ r.done = m.done
      /\ \A p : p \in r.ptr <=> p \in m.ptr /\ ~(p \in ps /\ \A k \in n .. Len(p) : Visits(m, p, k))
  BY ReleasedMem
<1>3. ASSUME NEW p \in r.ptr, Standing(m, p)
      PROVE  ~IsStrictPrefix(o, p)
  <2> SUFFICES ASSUME IsStrictPrefix(o, p)
               PROVE  FALSE
    OBVIOUS
  <2>1. p \in m.ptr /\ p \in ps
    BY <1>2 DEF InObject, Places
  <2>2. n \in Nat \ {0}
    BY PathSeq
  <2>3. \A k \in n .. Len(p) : Visits(m, p, k)
    BY <1>3, <2>2 DEF Standing
  <2> QED BY <1>2, <2>1, <2>3
<1>4. ASSUME NEW p \in Path, Standing(m, p), ~IsStrictPrefix(o, p)
      PROVE  Standing(r, p)
  <2>1. \A k \in 1 .. Len(p) : MemberOf(p, k) \notin ps
    BY <1>4, ObjectBelow DEF InObject
  <2> QED BY <1>4, <2>1, StandingReleased
<1>5. \A p \in m.ptr : ~IsStrictPrefix(o, p) => p \in r.ptr
  BY <1>2 DEF InObject
<1> HIDE DEF r
<1> QED BY <1>1, <1>2, <1>3, <1>4, <1>5

\* A release of a field frees all blocks in it, and leaves the others.
LEMMA FieldReleased ==
    ASSUME NEW m \in Memory, NEW q \in Inner
    PROVE  /\ ReleaseField(m, q) \in Memory /\ ReleaseField(m, q).has = m.has
           /\ ReleaseField(m, q).done = m.done
           /\ ReleaseField(m, q).ptr \subseteq m.ptr
           /\ \A p \in ReleaseField(m, q).ptr :
                 Standing(m, p) => ~(Len(p) >= Len(q) /\ MemberOf(p, Len(q)) = q)
           /\ \A p \in m.ptr : ~(Len(p) >= Len(q) /\ MemberOf(p, Len(q)) = q)
                 => p \in ReleaseField(m, q).ptr
           /\ \A p \in Path : Standing(m, p) /\ ~(Len(p) >= Len(q) /\ MemberOf(p, Len(q)) = q)
                 => Standing(ReleaseField(m, q), p)
<1> DEFINE ps == InField(m, q)
           n == Len(q)
           r == Released(m, ps, n)
<1>1. ReleaseField(m, q) = r
  BY ReleaseForms
<1>2. /\ r \in Memory /\ r.has = m.has /\ r.done = m.done
      /\ \A p : p \in r.ptr <=> p \in m.ptr /\ ~(p \in ps /\ \A k \in n .. Len(p) : Visits(m, p, k))
  BY ReleasedMem
<1>3. n \in Nat \ {0}
  BY PathSeq DEF Inner
<1>4. ASSUME NEW p \in r.ptr, Standing(m, p), Len(p) >= n, MemberOf(p, n) = q
      PROVE  FALSE
  <2>1. p \in m.ptr /\ p \in ps
    BY <1>2, <1>4 DEF InField, Places
  <2>2. \A k \in n .. Len(p) : Visits(m, p, k)
    BY <1>3, <1>4 DEF Standing
  <2> QED BY <1>2, <2>1, <2>2
<1>5. ASSUME NEW p \in Path, Standing(m, p), ~(Len(p) >= n /\ MemberOf(p, n) = q)
      PROVE  Standing(r, p)
  <2>1. ASSUME NEW k \in 1 .. Len(p), MemberOf(p, k) \in ps
        PROVE  FALSE
    <3>1. Len(MemberOf(p, k)) >= n /\ MemberOf(MemberOf(p, k), n) = q /\ Len(MemberOf(p, k)) = k
      BY <2>1, MemberOfPath DEF InField
    <3>2. Len(p) \in Nat
      BY PathSeq
    <3>3. n \in 1 .. k /\ Len(p) >= n
      BY <1>3, <3>1, <3>2
    <3>4. MemberOf(p, n) = q
      BY <3>1, <3>3, MemberOfMember
    <3> QED BY <1>5, <3>3, <3>4
  <2> QED BY <1>5, <2>1, StandingReleased
<1>6. \A p \in m.ptr : ~(Len(p) >= n /\ MemberOf(p, n) = q) => p \in r.ptr
  BY <1>2 DEF InField
<1> HIDE DEF r
<1> QED BY <1>1, <1>2, <1>4, <1>5, <1>6

-----------------------------------------------------------------------------
(* What each operation on the memory leaves rooted. *)

\* A pointer, or has_ or which_, is a place.
LEMMA PointerPlaces ==
    ASSUME NEW m \in Memory
    PROVE  m.ptr \subseteq Inner /\ m.has \subseteq Inner /\ Inner \subseteq Path
  BY DEF Memory, Inner

\* What a release is told by pointers, which_ and counts is all it is told.
LEMMA RootedSame ==
    ASSUME NEW t, NEW m \in Memory, Rooted(t, m), NEW r \in Memory,
           r.ptr = m.ptr, r.has = m.has, r.count = m.count
    PROVE  Rooted(t, r) /\ \A p \in Path : Standing(m, p) => Standing(r, p)
<1>1. \A p \in Path : Standing(m, p) => Standing(r, p)
  <2>1. \A q \in Inner : Get(m.count, q) <= Get(r.count, q)
    BY CountsParts DEF Memory
  <2> QED BY <2>1, StandingMore
<1> QED BY <1>1, PointerPlaces DEF Rooted

\* A release of an object takes away what lies in it, and leaves the rest rooted.
LEMMA RootedReleaseObject ==
    ASSUME NEW t, NEW m \in Memory, Rooted(t, m), NEW o \in Path
    PROVE  /\ Rooted(t, ReleaseObject(m, o))
           /\ \A p \in ReleaseObject(m, o).ptr : ~IsStrictPrefix(o, p)
<1> DEFINE r == ReleaseObject(m, o)
<1>1. /\ r \in Memory /\ r.has = m.has /\ r.ptr \subseteq m.ptr
      /\ \A p \in r.ptr : Standing(m, p) => ~IsStrictPrefix(o, p)
      /\ \A p \in Path : Standing(m, p) /\ ~IsStrictPrefix(o, p) => Standing(r, p)
  BY ObjectReleased
<1> HIDE DEF r
<1>2. \A p \in r.ptr : ~IsStrictPrefix(o, p) /\ Placed(t, p) /\ Holder(p) /\ Standing(r, p)
  BY <1>1, PointerPlaces DEF Rooted
<1> QED BY <1>1, <1>2 DEF Rooted, r

\* So does a release of a field.
LEMMA RootedReleaseField ==
    ASSUME NEW t, NEW m \in Memory, Rooted(t, m), NEW q \in Inner
    PROVE  /\ Rooted(t, ReleaseField(m, q))
           /\ \A p \in ReleaseField(m, q).ptr : ~(Len(p) >= Len(q) /\ MemberOf(p, Len(q)) = q)
<1> DEFINE r == ReleaseField(m, q)
           in(p) == Len(p) >= Len(q) /\ MemberOf(p, Len(q)) = q
<1>1. /\ r \in Memory /\ r.has = m.has /\ r.ptr \subseteq m.ptr
      /\ \A p \in r.ptr : Standing(m, p) => ~in(p)
      /\ \A p \in Path : Standing(m, p) /\ ~in(p) => Standing(r, p)
  BY FieldReleased
<1> HIDE DEF r, in
<1>2. \A p \in r.ptr : ~in(p) /\ Placed(t, p) /\ Holder(p) /\ Standing(r, p)
  BY <1>1, PointerPlaces DEF Rooted
<1> QED BY <1>1, <1>2 DEF Rooted, r, in

\* Another member of a union is named once nothing hangs on the old one.
LEMMA RootedWhich ==
    ASSUME NEW t, NEW m \in Memory, Rooted(t, m), NEW q \in Inner, Placed(t, q), Last(q)[3] = 0,
           \A p \in m.ptr : \A n \in 1 .. Len(p) :
              FieldAt(p[n]).rule = "oneof" /\ Front(MemberOf(p, n)) = Front(q) => MemberOf(p, n) = q
    PROVE  Rooted(t, Which(m, q))
<1> DEFINE r == Which(m, q)
<1>1. /\ r.ptr = m.ptr
      /\ \A s : s \in r.has <=>
            s = q \/ (s \in m.has /\ ~(Front(s) = Front(q) /\ FieldAt(Last(s)).rule = "oneof"))
  BY WhichMem
<1>2. \A p \in m.ptr : Standing(r, p)
  BY PointerPlaces, StandingWhich DEF Rooted
<1> HIDE DEF r
<1>3. \A p \in r.has : Placed(t, p) /\ Last(p)[3] = 0
  BY <1>1 DEF Rooted
<1>4. \A p, s \in r.has : Front(p) = Front(s) /\ OneOf(p) /\ OneOf(s) => p = s
  BY <1>1 DEF Rooted, OneOf
<1> QED BY <1>1, <1>2, <1>3, <1>4 DEF Rooted, r

\* An optional field is there.
LEMMA RootedHas ==
    ASSUME NEW t, NEW m \in Memory, Rooted(t, m), NEW q \in Inner, Placed(t, q), Last(q)[3] = 0,
           ~OneOf(q)
    PROVE  Rooted(t, [m EXCEPT !.has = @ \cup {q}])
<1> DEFINE r == [m EXCEPT !.has = @ \cup {q}]
<1>1. r \in Memory /\ r.ptr = m.ptr /\ r.has = m.has \cup {q} /\ r.count = m.count
  BY DEF Memory
<1> HIDE DEF r
<1>2. \A s \in Inner : Get(m.count, s) <= Get(r.count, s)
  BY <1>1, CountsParts DEF Memory
<1>3. \A p \in m.ptr : Standing(r, p)
  BY <1>1, <1>2, PointerPlaces, StandingMore DEF Rooted
<1> QED BY <1>1, <1>3 DEF Rooted, r

\* A block is allocated for a pointer a release finds.
LEMMA RootedAllocated ==
    ASSUME NEW t, NEW m \in Memory, Rooted(t, m), NEW q \in Inner, NEW n \in Nat,
           Placed(t, q), Holder(q), Standing(m, q)
    PROVE  Rooted(t, Allocated(m, q, n))
<1> DEFINE r == Allocated(m, q, n)
<1>1. r.ptr = m.ptr \cup {q} /\ r.has = m.has
  BY AllocatedMem
<1>2. \A p \in m.ptr \cup {q} : Standing(r, p)
  BY PointerPlaces, StandingAllocated DEF Rooted
<1> HIDE DEF r
<1> QED BY <1>1, <1>2 DEF Rooted, r

\* An array that counts no less leaves all rooted.
LEMMA RootedCounted ==
    ASSUME NEW t, NEW m \in Memory, Rooted(t, m), NEW q \in Inner, NEW n \in Nat,
           FieldAt(Last(q)).rule = "repeated" => Get(m.count, q) <= n
    PROVE  Rooted(t, Counted(m, q, n))
<1> DEFINE r == Counted(m, q, n)
<1>1. r.ptr = m.ptr /\ r.has = m.has
  BY CountedMem
<1>2. \A p \in m.ptr : Standing(r, p)
  BY PointerPlaces, StandingCounted DEF Rooted
<1> HIDE DEF r
<1> QED BY <1>1, <1>2 DEF Rooted, r

\* So does what is cleared: nothing below it is left.
LEMMA RootedCleared ==
    ASSUME NEW t, NEW m \in Memory, Rooted(t, m), NEW o \in Inner, Last(o)[3] > 0
    PROVE  Rooted(t, Cleared(m, o)) /\ \A p \in Cleared(m, o).ptr : ~IsPrefix(o, p)
<1> DEFINE r == Cleared(m, o)
<1>1. /\ \A s : s \in r.ptr <=> s \in m.ptr /\ ~IsPrefix(o, s)
      /\ \A s : s \in r.has <=> s \in m.has /\ ~IsPrefix(o, s)
  BY PointerPlaces, ClearedMem
<1>2. \A p \in m.ptr : ~IsPrefix(o, p) => Standing(r, p)
  BY PointerPlaces, StandingCleared DEF Rooted
<1> HIDE DEF r
<1> QED BY <1>1, <1>2 DEF Rooted, r

\* The places of a struct.
LEMMA PlacedItem ==
    ASSUME NEW t \in Messages, NEW o \in Path, NEW m \in Messages, Reaches(t, o, m),
           NEW i \in DOMAIN Msg[m], NEW j \in Nat
    PROVE  /\ Placed(t, Item(o, m, i, j))
           /\ Msg[m][i].type = "message" /\ Msg[m][i].alloc # "callback" /\ j > 0 =>
                 Reaches(t, Item(o, m, i, j), Msg[m][i].sub)
<1> DEFINE p == Item(o, m, i, j)
           n == Len(o) + 1
<1>1. /\ Len(p) = n /\ p[n] = <<m, i, j>> /\ \A k \in 1 .. Len(o) : p[k] = o[k]
      /\ Len(o) \in Nat
  BY Extended, PathSeq
<1> HIDE DEF p
<1>2. FieldAt(p[n]) = Msg[m][i] /\ p[n][1] = m /\ p[n][3] = j
  BY <1>1 DEF FieldAt
<1>3. p[1][1] = t
  <2>1. CASE Len(o) = 0
    BY <1>1, <1>2, <2>1 DEF Reaches
  <2>2. CASE Len(o) > 0
    <3>1. 1 \in 1 .. Len(o) /\ o[1][1] = t
      BY <1>1, <2>2 DEF Reaches, Placed
    <3> QED BY <1>1, <3>1
  <2> QED BY <1>1, <2>1, <2>2
<1>4. ASSUME NEW k \in 1 .. Len(p) - 1
      PROVE  Holds(p[k], p[k + 1][1])
  <2>1. k \in 1 .. Len(o) /\ Len(o) > 0
    BY <1>1, <1>4
  <2>2. CASE k = Len(o)
    <3>1. Holds(o[k], m) /\ p[k] = o[k] /\ p[k + 1][1] = m
      BY <1>1, <1>2, <2>1, <2>2 DEF Reaches
    <3> QED BY <3>1
  <2>3. CASE k # Len(o)
    <3>1. k \in 1 .. Len(o) - 1 /\ k + 1 \in 1 .. Len(o)
      BY <1>1, <2>1, <2>3
    <3>2. Holds(o[k], o[k + 1][1])
      BY <2>1, <3>1 DEF Reaches, Placed
    <3> QED BY <1>1, <2>1, <3>1, <3>2
  <2> QED BY <2>2, <2>3
<1>5. Placed(t, p)
  BY <1>3, <1>4 DEF Placed
<1>6. Msg[m][i].type = "message" /\ Msg[m][i].alloc # "callback" /\ j > 0 =>
         Holds(p[n], Msg[m][i].sub)
  BY <1>2 DEF Holds
<1> QED BY <1>1, <1>5, <1>6 DEF Reaches, p

\* The steps of an item are those of its object, and one more.
LEMMA StandingItem ==
    ASSUME NEW w \in Memory, NEW o \in Path, NEW m \in Messages, NEW i \in DOMAIN Msg[m],
           NEW j \in Nat, Standing(w, o),
           Msg[m][i].rule = "oneof" => Item(o, m, i, 0) \in w.has,
           j > 0 => /\ j <= Items(w, Msg[m][i], Item(o, m, i, 0))
                    /\ Msg[m][i].alloc = "pointer" => Item(o, m, i, 0) \in w.ptr
    PROVE  Standing(w, Item(o, m, i, j))
<1> DEFINE p == Item(o, m, i, j)
           n == Len(o) + 1
<1>1. /\ Len(p) = n /\ p[n] = <<m, i, j>> /\ \A k \in 1 .. Len(o) : p[k] = o[k]
      /\ Len(o) \in Nat /\ p \in Path
  BY Extended, PathSeq DEF Inner
<1>2. MemberOf(p, n) = Item(o, m, i, 0)
  BY MemberOfLast
<1> HIDE DEF p
<1>3. FieldAt(p[n]) = Msg[m][i] /\ p[n][3] = j
  BY <1>1 DEF FieldAt
<1>4. Visits(w, p, n)
  BY <1>2, <1>3 DEF Visits
<1>5. ASSUME NEW k \in 1 .. Len(p), k # n
      PROVE  Visits(w, p, k)
  <2>1. k \in 1 .. Len(o) /\ k <= Len(p) /\ k \in Nat
    BY <1>1, <1>5
  <2>2. Visits(w, o, k)
    BY <2>1 DEF Standing
  <2>3. \A h \in 1 .. k : o[h] = p[h]
    BY <1>1, <2>1
  <2>4. MemberOf(o, k) = MemberOf(p, k) /\ o[k] = p[k]
    BY <1>1, <2>1, <2>3, SameMember
  <2> QED BY <2>2, <2>4 DEF Visits
<1>6. \A k \in 1 .. Len(p) : Visits(w, p, k)
  BY <1>4, <1>5
<1> QED BY <1>6 DEF Standing, p

\* What is below a place that stands, and above.
LEMMA StandingUnder ==
    ASSUME NEW w \in Memory, NEW p \in Path, NEW o \in Path, Standing(w, p), Under(o, p)
    PROVE  Standing(w, o)
<1> SUFFICES ASSUME NEW k \in 1 .. Len(o)
             PROVE  Visits(w, o, k)
  BY DEF Standing
<1>1. Len(o) \in Nat /\ Len(p) \in Nat /\ Len(o) <= Len(p)
  BY PathSeq DEF Under
<1>2. k \in 1 .. Len(p) /\ k <= Len(p) /\ \A h \in 1 .. k : o[h] = p[h]
  BY <1>1 DEF Under
<1>3. MemberOf(o, k) = MemberOf(p, k) /\ o[k] = p[k]
  BY <1>2, SameMember
<1>4. Visits(w, p, k)
  BY <1>2 DEF Standing
<1> QED BY <1>3, <1>4 DEF Visits
=============================================================================
