------------------------------- MODULE Outbox -------------------------------
(***************************************************************************)
(* What a program that hands events to the data transport counts on: an    *)
(* event that was stored is sent once, and is only removed when it was.    *)
(***************************************************************************)
CONSTANTS Events
VARIABLES kept,   \* events in the store
          sent    \* events that were part of a request

vars == <<kept, sent>>

Init == kept = {} /\ sent = {}

Keep(e) == e \notin kept \cup sent /\ kept' = kept \cup {e} /\ UNCHANGED sent

Send(S) == S # {} /\ S \subseteq kept \ sent /\ sent' = sent \cup S /\ UNCHANGED kept

Remove(S) == S # {} /\ S \subseteq kept \cap sent /\ kept' = kept \ S /\ UNCHANGED sent

Next == (\E e \in Events : Keep(e)) \/ (\E S \in SUBSET Events : Send(S) \/ Remove(S))

Spec == Init /\ [][Next]_vars
=============================================================================
