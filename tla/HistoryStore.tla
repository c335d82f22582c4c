----------------------------- MODULE HistoryStore -----------------------------
(***************************************************************************)
(* What the user expects of the history, whatever happens to its keys and  *)
(* its file: a record is there from the call that saved it until a call    *)
(* that deletes it, unless a backup is restored, which brings back exactly *)
(* the records the backup was taken of.  HistoryRotation implements this   *)
(* specification.                                                          *)
(***************************************************************************)
CONSTANT Records  \* the identifiers of records
VARIABLES
  stored,    \* the records a user can list
  kept,      \* the records of the latest backup
  restoring  \* has the user asked for that backup?

vars == <<stored, kept, restoring>>

Init == stored = {} /\ kept = {} /\ restoring = FALSE

Save(r)   == r \notin stored /\ stored' = stored \cup {r} /\ UNCHANGED <<kept, restoring>>
Delete(r) == r \in stored /\ stored' = stored \ {r} /\ UNCHANGED <<kept, restoring>>
Backup    == kept' = stored /\ UNCHANGED <<stored, restoring>>
Ask       == restoring' = ~restoring /\ UNCHANGED <<stored, kept>>
Restore   == restoring /\ stored' = kept /\ UNCHANGED <<kept, restoring>>

Next == Backup \/ Ask \/ Restore \/ \E r \in Records : Save(r) \/ Delete(r)

Spec == Init /\ [][Next]_vars
==============================================================================
