----------------------------- MODULE MCPbEncode -----------------------------
(***************************************************************************)
(* Groups of two bits, so that a length of 4 takes a second byte and one   *)
(* of 16 a third.  Log has the shapes of gdt_cct_BatchedLogRequest:      *)
(* repeated pointers to submessages, nested twice, optional scalars, a     *)
(* oneof and bytes; Odd and Nest have what is left of encode_array and *)
(* of the errors; Two is pb_encode_delimited.                            *)
(***************************************************************************)
EXTENDS PbEncode

F == [rule |-> "optional", alloc |-> "static", type |-> "varint", tag |-> 1,
      implicit |-> FALSE, width |-> 1, max |-> 2, items |-> <<1>>, writes |-> {}]
P == [F EXCEPT !.alloc = "pointer"]

Log == 1
Event == 2
Client == 3
Odd == 4
Nest == 5
Lost == 6
Two == 7
Nil == 8
MCMessages == 1 .. 8
MCMsg ==
  [m \in MCMessages |->
    CASE m = Log -> <<[P EXCEPT !.rule = "repeated", !.type = "submessage",
                                  !.items = <<Event, Client>>]>>
      [] m = Event -> <<F, [F EXCEPT !.items = <<>>],
                          [P EXCEPT !.type = "bytes", !.items = <<3>>],
                          [F EXCEPT !.type = "submessage", !.items = <<Client>>],
                          [F EXCEPT !.rule = "oneof", !.items = <<5>>]>>
      [] m = Client -> <<[F EXCEPT !.alloc = "callback", !.writes = {1, 2}],
                           [F EXCEPT !.items = <<17>>]>>
      [] m = Odd -> <<[F EXCEPT !.rule = "repeated", !.items = <<1, 4>>],
                        [F EXCEPT !.rule = "repeated", !.type = "fixed", !.items = <<1, 1>>],
                        [P EXCEPT !.rule = "repeated", !.type = "string", !.items = <<2, 0>>],
                        [F EXCEPT !.type = "string", !.items = <<3>>, !.width = 2],
                        [F EXCEPT !.implicit = TRUE, !.items = <<0>>],
                        [F EXCEPT !.implicit = TRUE, !.type = "submessage",
                                  !.items = <<Nil>>],
                        [F EXCEPT !.alloc = "callback", !.writes = {2}]>>
      [] m = Nest -> <<[F EXCEPT !.rule = "repeated", !.type = "submessage",
                                   !.items = <<Odd, Odd>>],
                         [F EXCEPT !.type = "bytes", !.items = <<2>>]>>
      [] m = Lost -> <<F, [P EXCEPT !.rule = "required", !.items = <<>>]>>
      [] m = Two -> <<[F EXCEPT !.rule = "required", !.type = "delimited",
                                  !.items = <<Log>>],
                        [F EXCEPT !.rule = "repeated", !.items = <<1, 1, 1>>]>>
      [] m = Nil -> <<[F EXCEPT !.implicit = TRUE, !.items = <<0>>]>>]
MCRoots == {Log, Odd, Nest, Lost, Two, Nil}
=============================================================================
