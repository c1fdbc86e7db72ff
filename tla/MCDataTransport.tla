--------------------------- MODULE MCDataTransport ---------------------------
(* Instances of the data transport: two or three events of one or two        *)
(* targets.                                                                  *)
EXTENDS DataTransport, TLC

CONSTANTS e1, e2, e3

OneTarget == <<CCT>>
TwoTargets == <<CCT, FLL>>

\* Ordinary events of two targets.
ThreeEvents == {e1, e2, e3}
OrdinaryTargetOf == e1 :> CCT @@ e2 :> CCT @@ e3 :> FLL
OrdinaryQosOf == e1 :> "default" @@ e2 :> "wifi" @@ e3 :> "telemetry"

TwoEvents == {e1, e2}
\* A fast event of one target and a batched one of another.
TwoTargetOf == e1 :> CCT @@ e2 :> FLL
TwoQosOf == e1 :> "fast" @@ e2 :> "default"

\* An event and a fast one of the same target.
SameTargetOf == e1 :> CCT @@ e2 :> CCT
FastQosOf == e1 :> "default" @@ e2 :> "fast"
DefaultQosOf == e1 :> "default" @@ e2 :> "default"

AllNets == {"none", "mobile", "wifi"}
SomeNets == {"none", "wifi"}
Wifi == {"wifi"}

Done == {"done"}
DoneOrRetry == {"done", "retry"}
=============================================================================
