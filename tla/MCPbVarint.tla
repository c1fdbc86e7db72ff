---------------------------- MODULE MCPbVarint ----------------------------
(***************************************************************************)
(* Widths scaled down so that every byte can be sent: bytes of 2 payload   *)
(* bits, a word of 3 and a double word of 9.  As in the code the words are *)
(* no multiple of the group and one bit of the last group fits.            *)
(***************************************************************************)
EXTENDS PbVarint

AllBytes == SUBSET (0 .. 2)
=============================================================================
