---------------------------- MODULE TaskLifecycle ----------------------------
(***************************************************************************)
(* What the runtime promises about one asynchronous command, whatever the  *)
(* threads do: an attempt is either rejected or accepted; an accepted      *)
(* attempt is either run once or cancelled once before it runs; and two    *)
(* attempts that carry the same request id are never alive together.       *)
(* TaskScheduler implements this specification.                            *)
(***************************************************************************)
CONSTANTS
  Tasks,       \* attempts to submit a command
  RequestIds,  \* the ids clients put on their commands
  RidOf        \* the request id of each attempt

VARIABLE phase

Alive(t) == phase[t] \in {"accepted", "running"}

Init == phase = [t \in Tasks |-> "new"]

Move(t, from, to) ==
  /\ phase[t] = from
  /\ phase' = [phase EXCEPT ![t] = to]

Reject(t) == Move(t, "new", "rejected")

Accept(t) ==
  /\ \A u \in Tasks : RidOf[u] = RidOf[t] => ~Alive(u)
  /\ Move(t, "new", "accepted")

Start(t)  == Move(t, "accepted", "running")
Finish(t) == Move(t, "running", "done")

\* One call may cancel everything that has not started.
Cancel(S) ==
  /\ \A t \in S : phase[t] = "accepted"
  /\ phase' = [t \in Tasks |-> IF t \in S THEN "cancelled" ELSE phase[t]]

Next ==
  \/ \E t \in Tasks : Reject(t) \/ Accept(t) \/ Start(t) \/ Finish(t)
  \/ \E S \in SUBSET Tasks : Cancel(S)

Spec == Init /\ [][Next]_phase

\* The requests a client can still hear from: one attempt per request id.
OneAlivePerRequest ==
  \A t, u \in Tasks : Alive(t) /\ Alive(u) /\ RidOf[t] = RidOf[u] => t = u
==============================================================================
