------------------------------- MODULE MCCloud -------------------------------
(***************************************************************************)
(* A behaviour is one of the quota and budget of optimize requests, one of *)
(* three calls under one id on a single day without faults, or one of      *)
(* feedback, screenshots and quality releases; what it is not about rests. *)
(* The user cancels in the second only: to the books a cancel is a Stop.   *)
(***************************************************************************)
EXTENDS Cloud, TLC

CONSTANTS r1, r2, r3, r4, i1, i2, a, b,   \* of CloudOptimize
          f1, q1, q2, q3                  \* of CloudFeedback

VARIABLE half

\* r1 is tried again as r2 with the same id, and another installation uses that id too.
MCIdOf == (r1 :> a) @@ (r2 :> a) @@ (r3 :> a) @@ (r4 :> b)
MCInstallOf == (r1 :> i1) @@ (r2 :> i1) @@ (r3 :> i2) @@ (r4 :> i2)

MCOwnerOf == f1 :> i1
MCSourcesOf == (q1 :> {f1}) @@ (q2 :> {f1}) @@ (q3 :> {f1})

\* The releases are alike, and no two of those that are kept have the same time.
MCSymmetry == Permutations({q1, q2, q3})

MCInit == half \in {"optimize", "crowd", "feedback"} /\ Init /\ Feedback!Init

MCNext ==
  /\ UNCHANGED half
  /\ \/ half = "optimize" /\ Next /\ pc'[r3] = pc[r3] /\ UNCHANGED feedbackVars
        /\ ~\E i \in Installs, id \in Ids : Cancel(i, id)
     \/ half = "crowd" /\ Next /\ today' = today /\ faults' = faults /\ pc'[r4] = pc[r4]
        /\ UNCHANGED feedbackVars
     \/ half = "feedback" /\ Feedback!Next /\ UNCHANGED vars

MCSpec == MCInit /\ [][MCNext]_<<half, vars, feedbackVars>>
==============================================================================
