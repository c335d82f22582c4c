----------------------------- MODULE EventStream -----------------------------
(***************************************************************************)
(* What a client may see of one optimize request: the events arrive in one *)
(* order, exactly one of them is terminal, a result follows at least one   *)
(* chunk, and only the metric may follow a result.  OptimizeRequest        *)
(* implements this specification.                                          *)
(***************************************************************************)
VARIABLE last  \* the latest event written for the request

Failures == {"error", "timeout", "cancelled"}
Progress == {"nothing", "analyzing", "scene", "request", "chunk"}
Events   == Progress \cup Failures \cup {"done", "metric"}

Init == last = "nothing"

Advance ==
  \/ last = "nothing"   /\ last' = "analyzing"
  \/ last = "analyzing" /\ last' = "scene"
  \/ last = "scene"     /\ last' = "request"
  \/ last = "request"   /\ last' = "chunk"

Fail == last \in Progress /\ last' \in Failures

Succeed ==
  \/ last = "chunk" /\ last' = "done"
  \/ last = "done"  /\ last' = "metric"

Next == Advance \/ Fail \/ Succeed

Spec == Init /\ [][Next]_last
==============================================================================
