------------------------------ MODULE PbMemory ------------------------------
(***************************************************************************)
(* The memory behind a message nanopb's decoder fills: which pointers are  *)
(* set, which has_ and which_ members, how many items each array counts    *)
(* and has room for.  What pb_release frees and what memset or             *)
(* pb_message_set_to_defaults only forgets is decided by walking it.       *)
(*                                                                         *)
(* A place is a path from the caller's struct: steps <<m, i, j>> for item  *)
(* j of field i of message m.  Item 0 is the member itself: the pointer,   *)
(* has_, which_ or _count of the field.                                    *)
(***************************************************************************)
EXTENDS SequencesExt

CONSTANTS Messages,   \* the message types, numbered
          Msg,        \* the fields of each
          SizeMax     \* PB_SIZE_MAX

FieldType ==
    [rule : {"required", "optional", "repeated", "fixed", "oneof"},
     alloc : {"static", "pointer", "callback"},
     type : {"varint", "fixed", "text", "message"},
     sub : Messages,        \* of a message
     cap : Nat,             \* array_size
     width : Nat \ {0},     \* data_size
     handled : BOOLEAN]     \* the caller gave a callback

\* A union has members of one kind of allocation and is the only one of its
\* message; members of static ones own no memory here.  A fixed-count array
\* holds scalars: nanopb neither counts nor initialises its items.
ASSUME MessageAssumption ==
    /\ Messages \subseteq Nat /\ SizeMax \in Nat
    /\ Msg \in [Messages -> Seq(FieldType)]
    /\ \A m \in Messages : \A i, k \in DOMAIN Msg[m] :
          /\ Msg[m][i].rule = "fixed" =>
                Msg[m][i].alloc = "static" /\ Msg[m][i].type \in {"varint", "fixed"}
          /\ Msg[m][i].rule = "oneof" =>
                /\ Msg[m][i].alloc # "callback"
                /\ Msg[m][k].rule = "oneof" => Msg[m][k].alloc = Msg[m][i].alloc

FieldAt(s) == Msg[s[1]][s[2]]
Member(o, m, i) == Append(o, <<m, i, 0>>)
MemberOf(p, n) == Member(SubSeq(p, 1, n - 1), p[n][1], p[n][2])

Nothing ==
    [ptr |-> {},         \* pointers that are not NULL
     has |-> {},         \* has_ that are true, and the member each which_ names
     count |-> <<>>,     \* items counted, by array
     room |-> <<>>,      \* observer: items allocated, by array
     done |-> <<>>]      \* observer: required fields read, by object

MemoryType(mem) ==
    LET Place(p) == \A n \in DOMAIN p :
            p[n][1] \in Messages /\ p[n][2] \in DOMAIN Msg[p[n][1]] /\ p[n][3] \in Nat
        Arrays(fn) == \A p \in DOMAIN fn : Place(p) /\ fn[p] \in Nat
    IN  /\ DOMAIN mem = DOMAIN Nothing
        /\ \A p \in mem.ptr \cup mem.has : Place(p)
        /\ Arrays(mem.count) /\ Arrays(mem.room)
        /\ \A p \in DOMAIN mem.done : Place(p) /\ mem.done[p] \subseteq Nat

Get(fn, p) == IF p \in DOMAIN fn THEN fn[p] ELSE 0
Put(fn, p, v) == [q \in DOMAIN fn \cup {p} |-> IF q = p THEN v ELSE fn[q]]

Allocated(mem, p, n) ==
    [mem EXCEPT !.ptr = @ \cup {p}, !.room = Put(@, p, n)]
Counted(mem, p, n) == [mem EXCEPT !.count = Put(@, p, n)]

\* which_ names this member, whichever it named before.
Which(mem, p) ==
    [mem EXCEPT !.has =
        {q \in @ : ~ (Front(q) = Front(p) /\ FieldAt(Last(q)).rule = "oneof")} \cup {p}]

-----------------------------------------------------------------------------
(* pb_release *)

\* How many items the release of an array visits.
Items(mem, f, p) ==
    IF f.rule # "repeated" THEN 1
    ELSE IF f.alloc = "pointer" THEN Get(mem.count, p)
    ELSE Min({f.cap, Get(mem.count, p)})

\* Mutant: the release of an array stops before its last item.
Visits_ButLast(mem, p, n) ==
    LET f == FieldAt(p[n])
        member == MemberOf(p, n)
    IN  /\ f.rule = "oneof" => member \in mem.has
        /\ p[n][3] > 0 => /\ p[n][3] < Items(mem, f, member)
                          /\ f.alloc = "pointer" => member \in mem.ptr

\* pb_release_single_field takes step n of the path to p: the member is the
\* union's current one, the pointer is set, the item is counted.
Visits(mem, p, n) ==
    LET f == FieldAt(p[n])
        member == MemberOf(p, n)
    IN  /\ f.rule = "oneof" => member \in mem.has
        /\ p[n][3] > 0 => /\ p[n][3] <= Items(mem, f, member)
                          /\ f.alloc = "pointer" => member \in mem.ptr

\* What a release frees of the places ps, when it starts at depth n of them:
\* arrays of pointers are counted empty, whether they had been allocated or not.
Released(mem, ps, n) ==
    LET visited == {p \in ps : \A k \in n .. Len(p) : Visits(mem, p, k)}
        Array(p) == FieldAt(Last(p)).rule = "repeated" /\ FieldAt(Last(p)).alloc = "pointer"
    IN  [mem EXCEPT !.ptr = @ \ visited,
                    !.count = [p \in DOMAIN @ |->
                                  IF p \in visited /\ Array(p) THEN 0 ELSE @[p]],
                    !.room = [p \in DOMAIN @ |-> IF p \in visited THEN 0 ELSE @[p]]]

Places(mem) == mem.ptr \cup DOMAIN mem.count

\* pb_release of the object at o.
ReleaseObject(mem, o) ==
    Released(mem, {p \in Places(mem) : IsStrictPrefix(o, p)}, Len(o) + 1)

\* pb_release_single_field of the field whose member is p.
ReleaseField(mem, p) ==
    Released(mem, {q \in Places(mem) : /\ Len(q) >= Len(p)
                                       /\ MemberOf(q, Len(p)) = p}, Len(p))

-----------------------------------------------------------------------------
(* memset and pb_message_set_to_defaults: all pointers there become NULL *)

Below(o, p) == IsPrefix(o, p)

Cleared(mem, o) ==
    LET kept(fn) == Restrict(fn, {p \in DOMAIN fn : ~ Below(o, p)})
    IN  [ptr |-> {p \in mem.ptr : ~ Below(o, p)},
         has |-> {p \in mem.has : ~ Below(o, p)},
         count |-> kept(mem.count), room |-> kept(mem.room), done |-> kept(mem.done)]

\* The blocks no pointer leads to after that.
Forgets(mem, o) == Cardinality({p \in mem.ptr : Below(o, p)})

-----------------------------------------------------------------------------
(* What the caller sees *)

\* The object at o is part of the message: the release would visit it, and a
\* static optional one is marked as present.
InUse(mem, o) ==
    \A n \in DOMAIN o :
        /\ Visits(mem, o, n)
        /\ FieldAt(o[n]).rule = "optional" /\ FieldAt(o[n]).alloc = "static" =>
              MemberOf(o, n) \in mem.has
=============================================================================
