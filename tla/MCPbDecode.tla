----------------------------- MODULE MCPbDecode -----------------------------
(***************************************************************************)
(* Response has the shape of gdt_cct_LogResponse: an optional scalar and   *)
(* an optional static submessage, with a repeated pointer to a third.      *)
(* Arrays has an array of every kind, Union a union of pointers, Strict    *)
(* three required fields, Calls the callbacks.  Choice is decoded by a run   *)
(* of its own.                                                             *)
(***************************************************************************)
EXTENDS PbDecode

F == [rule |-> "optional", alloc |-> "static", type |-> "varint", sub |-> 1,
      cap |-> 2, width |-> 2, handled |-> FALSE]
P == [F EXCEPT !.alloc = "pointer"]
R(f) == [f EXCEPT !.rule = "repeated"]
Sub(f, m) == [f EXCEPT !.type = "message", !.sub = m]
Text(f) == [f EXCEPT !.type = "text"]

Tier == 1
Tiers == 2
Response == 3
Arrays == 4
Union == 5
Strict == 6
Calls == 7
Frozen == 8
Switch == 9
Choice == 10
Note == 11
MCMessages == 1 .. 11
MCMsg ==
  [m \in MCMessages |->
    CASE m = Tier -> <<[F EXCEPT !.rule = "required"], Text(P)>>
      [] m = Tiers -> <<R(Sub(P, Tier)), F>>
      [] m = Response -> <<F, Sub(F, Tiers)>>
      [] m = Arrays -> <<R(F), R(P), R(Text(P)), R(Sub(F, Tier))>>
      [] m = Union -> <<[Sub(P, Note) EXCEPT !.rule = "oneof"],
                        [Text(P) EXCEPT !.rule = "oneof"], Sub(P, Note)>>
      [] m = Note -> <<Text(P)>>
      [] m = Strict -> <<[F EXCEPT !.rule = "required"],
                         [Text(F) EXCEPT !.rule = "required", !.width = 2],
                         [Sub(P, Calls) EXCEPT !.rule = "required"]>>
      [] m = Calls -> <<[F EXCEPT !.alloc = "callback", !.handled = TRUE]>>
      [] m = Frozen -> <<[F EXCEPT !.rule = "fixed"],
                         [F EXCEPT !.rule = "fixed", !.type = "fixed", !.width = 1, !.cap = 1],
                         [P EXCEPT !.type = "fixed"]>>
      [] m = Switch -> <<[Sub(F, Calls) EXCEPT !.rule = "oneof"],
                         [F EXCEPT !.rule = "oneof"], Sub(F, Calls)>>
      [] m = Choice -> <<[Sub(F, Arrays) EXCEPT !.rule = "oneof"]>>]
MCRoots == {Response, Arrays, Union, Strict, Frozen, Switch}
MCStreamSizes ==
  [m \in MCRoots |-> CASE m = Arrays -> {5} [] m \in {Union, Switch} -> {0, 5} [] OTHER -> {6}]

\* Choice has a union of one static submessage, which owns memory.
ChoiceRoots == {Choice}
ChoiceSizes == [m \in ChoiceRoots |-> {6}]
=============================================================================
