------------------------ MODULE HistoryRotation_proofs ------------------------
(***************************************************************************)
(* Proofs about HistoryRotation, for every set of records and of clients,  *)
(* any number of key versions, requests and crashes.  RotationInv, an      *)
(* inductive invariant in groups, says which operation takes which step,   *)
(* who is frozen out, where the database file is, what an undo would bring *)
(* back and which keys it needs; each group rests on the others.           *)
(***************************************************************************)
EXTENDS HistoryRotation, TLAPS

\* The steps of a call after it froze the history, and after it had it to itself.
Inside == Steps \ {"begin"}
Alone  == Steps \ {"begin", "drain"}

\* The operations that replace the database file, perhaps.
Replacers == {"prepare", "rollback", "restore"}

\* Which operation takes which step.
StepInv ==
  /\ call.op = "none" <=> call.at = "none"
  /\ call.at \in {"backup", "note", "batch"} => call.op = "prepare"
  /\ call.at = "repair" => call.op = "repair"
  /\ call.at \in Replacing \cup {"mark aside"} => call.op \in Replacers
  /\ call.at = "clear" => call.op \in Rotations
  /\ call.at = "drain" => call.op # "finalize"
  /\ call.op = "prepare" /\ call.at \in Replacing \cup {"mark aside", "clear"} => ~call.ok

\* The host waits for its call before it touches a key, and a prepare is about the
\* pending one.
CallInv ==
  /\ call.op = "none" => call = NoCall
  /\ call.op = "prepare" => call.target = pending /\ pending # 0
  /\ host \in {"promote", "promoted", "undo", "keyRollback"} => call.op = "none"
  /\ host \in {"send", "promote", "undo"} => pending # 0

\* The freeze: a call that began one has it until its last step, and has the
\* history to itself once it drained.
FreezeInv ==
  /\ call.at \in Inside /\ call.op # "finalize" => frozen
  /\ call.at \in Inside /\ call.op \in Replacers => readsBlocked
  /\ frozen /\ Writing # {} => call.at = "drain" /\ call.op # "rollback"
  /\ call.at \in Alone /\ call.op \in Replacers => Reading = {}

\* The files: where the database is at each step of a replacement.
FileInv ==
  /\ call.at \in {"check", "backup", "repair", "note", "batch", "mark aside", "clear"} => ~marker
  /\ Writing # {} => ~marker
  /\ Reading # {} => ~marker
  /\ call.at = "move aside" => marker /\ aside = NoFile
  /\ call.at = "move in" => aside # NoFile /\ main = NoFile
  /\ call.at = "drop aside" => aside # NoFile /\ main = backup
  /\ call.at = "unmark" => aside = NoFile /\ main = backup
  /\ call.at \in Replacing \cup {"note", "batch", "mark aside"} => backup # NoFile

\* The records: what an undo would bring back is what there is.
StoreInv ==
  /\ Writing # {} => Live.checkpoint = NoCheckpoint
  /\ Live.checkpoint # NoCheckpoint => backup # NoFile /\ Ids(backup) = Ids(Live)
  /\ call.op \in {"prepare", "rollback"}
       /\ call.at \in Replacing \cup {"note", "batch", "mark aside"} => Ids(backup) = Ids(Live)

Own(file) == \A r \in Records : file.key[r] \in 0..active

\* Which checkpoint each step of a rotation has in front of it.
CheckpointInv ==
  /\ backup # NoFile => backup.checkpoint = NoCheckpoint
  /\ aside # NoFile => main \in {NoFile, backup}
  /\ call.at \in {"backup", "note", "repair"} => main.checkpoint = NoCheckpoint
  /\ call.at = "batch" => main.checkpoint.target = call.target
  /\ call.at = "end" /\ call.ok /\ call.op = "prepare" =>
       Live.checkpoint.verified /\ Live.checkpoint.target = call.target
  /\ call.at = "clear" => \/ call.op \in {"finalize", "resume"} /\ Promoted
                          \/ Live.checkpoint = NoCheckpoint
  /\ call.at = "end" /\ call.op = "rollback" /\ call.ok => Live.checkpoint = NoCheckpoint

\* What the host relies on when it promotes or drops the pending key.
HostInv ==
  /\ host \in {"promote", "undo"} => Live.checkpoint.verified /\ Live.checkpoint.target = pending
  /\ host = "keyRollback" => Live.checkpoint = NoCheckpoint

\* The keys: only a file with a checkpoint may use the pending key, and a verified
\* checkpoint vouches for every record.
FileKeys ==
  /\ backup # NoFile => Own(backup)
  /\ Live.checkpoint = NoCheckpoint => Own(Live)
  /\ Live.checkpoint # NoCheckpoint =>
       /\ Live.checkpoint.target \in Keyring
       /\ \A r \in Records : Live.key[r] \in 0..active \cup {Live.checkpoint.target}
  /\ Live.checkpoint.verified => \A r \in Records : Live.key[r] \in {0, Live.checkpoint.target}

\* No call knows a later key than the active one.
CallKeys == (\A c \in Clients : snapshot[c] <= active) /\ call.active <= active

KeyInv == CallKeys /\ FileKeys

RotationInv ==
  /\ TypeOK /\ StepInv /\ CallInv /\ FreezeInv /\ FileInv /\ StoreInv
  /\ CheckpointInv /\ HostInv /\ KeyInv

-----------------------------------------------------------------------------
\* A file is a record, and what an edit of one of its parts leaves alone.
LEMMA FileParts ==
  ASSUME NEW f \in Files
  PROVE  /\ f # NoFile /\ f.key \in [Records -> 0..MaxVersion] /\ f.checkpoint \in Checkpoints
  BY NoFileAssumption DEF Files

LEMMA CheckpointEdited ==
  ASSUME NEW f \in Files, NEW cp \in Checkpoints
  PROVE  /\ [f EXCEPT !.checkpoint = cp] \in Files
         /\ [f EXCEPT !.checkpoint = cp].key = f.key
         /\ [f EXCEPT !.checkpoint = cp].checkpoint = cp
  BY DEF Files

LEMMA KeysEdited ==
  ASSUME NEW f \in Files, NEW k \in [Records -> 0..MaxVersion]
  PROVE  /\ [f EXCEPT !.key = k] \in Files
         /\ [f EXCEPT !.key = k].key = k
         /\ [f EXCEPT !.key = k].checkpoint = f.checkpoint
  BY DEF Files

LEMMA NoCheckpointIsOne == NoCheckpoint \in Checkpoints /\ ~NoCheckpoint.verified
  BY RotationAssumption DEF Checkpoints, NoCheckpoint

\* Without a marker the database is where it belongs.
LEMMA MainIsThere ==
  ASSUME TypeOK, ~marker
  PROVE  main \in Files /\ aside = NoFile /\ Live = main
  BY DEF TypeOK, Live

LEMMA LiveIsAFile ==
  ASSUME TypeOK
  PROVE  Live \in Files
  BY DEF TypeOK, Live

\* To put the file back, or to recover, changes no record.
LEMMA PutBackKeepsLive ==
  ASSUME TypeOK, PutBack
  PROVE  /\ Live' = Live /\ marker' = FALSE /\ aside' = NoFile /\ main' = Live
  BY NoFileAssumption DEF TypeOK, PutBack, Live

LEMMA RecoverKeepsLive ==
  ASSUME TypeOK, RecoverFiles
  PROVE  /\ Live' = Live /\ marker' = FALSE /\ aside' = NoFile /\ main' = Live
  BY NoFileAssumption DEF TypeOK, RecoverFiles, PutBack, Live, fileVars

-----------------------------------------------------------------------------
\* What a step of the plugin makes of its call.
SameCall ==
  /\ call' \in Calls
  /\ call'.op = call.op /\ call'.target = call.target
  /\ call'.active = call.active /\ call'.pending = call.pending
  /\ call'.cancelled = call.cancelled /\ call'.heard = call.heard
  /\ host' = host /\ attached' = attached

LEMMA GoesOn ==
  ASSUME TypeOK, NEW at \in Steps, Goto(at)
  PROVE  SameCall /\ call'.at = at /\ call'.ok = call.ok
  BY DEF TypeOK, Calls, Goto, SameCall, hostVars

LEMMA FailsAt ==
  ASSUME TypeOK, NEW at \in Steps, FailAt(at)
  PROVE  SameCall /\ call'.at = at /\ ~call'.ok
  BY DEF TypeOK, Calls, FailAt, SameCall, hostVars

LEMMA NoCallIsOne ==
  /\ NoCall \in Calls /\ NoCall.op = "none" /\ NoCall.at = "none"
  /\ NoCall.active = 0 /\ ~NoCall.heard
  BY RotationAssumption DEF Calls, NoCall, Operations

\* The steps of the host that send nothing, and those that send a call.
KeyStep ==
  \/ SkipResume \/ BeginRotation \/ BeginRotationFails \/ Promote \/ PromoteFails
  \/ RollbackLost \/ KeyRollback \/ KeyRollbackFails

SendStep ==
  StartResume \/ StartMaintenance \/ SendPrepare \/ SendRollback \/ SendFinalize

LEMMA KeyStepFrame ==
  ASSUME KeyStep
  PROVE  UNCHANGED <<attached, configured, call, freezeVars, clientVars, fileVars, backup,
                     recovery, crashes>>
  BY DEF KeyStep, SkipResume, BeginRotation, BeginRotationFails, Promote, PromoteFails,
         RollbackLost, KeyRollback, KeyRollbackFails, HostOnly, bounds

LEMMA SentIsACall ==
  ASSUME TypeOK, NEW op \in Operations, NEW target \in 0..MaxVersion
  PROVE  /\ Sent(op, target) \in Calls
         /\ Sent(op, target).op = op /\ Sent(op, target).at = "begin"
         /\ Sent(op, target).target = target /\ Sent(op, target).active = active
         /\ Sent(op, target).ok
<1>1. active \in 0..MaxVersion /\ pending \in 0..MaxVersion
  BY RotationAssumption DEF TypeOK, Versions
<1>2. "begin" \in Steps
  BY DEF Steps
<1> QED
  BY <1>1, <1>2 DEF Sent, Calls

\* What is sent is a call that begins, about the pending key if it is a prepare.
LEMMA SendStepSends ==
  ASSUME TypeOK, SendStep
  PROVE  /\ UNCHANGED <<attached, keyVars, freezeVars, clientVars, fileVars, backup, recovery,
                        crashes>>
         /\ configured' = active
         /\ host \in {"idle", "send", "undo", "promoted"}
         /\ \/ call' = call /\ host' = "idle"
            \/ /\ call = NoCall /\ call' \in Calls /\ call'.at = "begin" /\ call'.ok
               /\ call'.op \in Operations /\ host' = call'.op /\ call'.active = active
               /\ call'.op = "prepare" => host = "send" /\ call'.target = pending
  BY SentIsACall, RotationAssumption DEF TypeOK, SendStep, StartResume, StartMaintenance, SendPrepare, SendRollback,
         SendFinalize, Start, Send, Operations, Rotations, Maintenance, Versions
-----------------------------------------------------------------------------
\* The types, in three parts: the host and its call, the plugin and its clients,
\* the files.
HostTypes ==
  /\ host \in Operations \cup {"idle", "begin", "send", "promote", "promoted", "undo", "keyRollback"}
  /\ attached \in BOOLEAN
  /\ active \in Versions /\ configured \in Versions /\ used \in Versions
  /\ pending \in 0..MaxVersion
  /\ active <= used /\ pending <= used /\ configured <= active
  /\ pending # 0 => active < pending
  /\ call \in Calls /\ (call.heard => host = call.op)
  /\ requests \in 0..MaxRequests /\ crashes \in 0..MaxCrashes

PluginTypes ==
  /\ frozen \in BOOLEAN /\ readsBlocked \in BOOLEAN /\ recovery \in BOOLEAN
  /\ client \in [Clients -> {"idle", "gated", "writing", "reading"}]
  /\ snapshot \in [Clients -> Versions]

FileTypes ==
  /\ main \in Files \cup {NoFile} /\ aside \in Files \cup {NoFile}
  /\ backup \in Files \cup {NoFile} /\ marker \in BOOLEAN
  /\ main = NoFile => aside # NoFile
  /\ aside # NoFile => marker

LEMMA TypesInParts == TypeOK <=> HostTypes /\ PluginTypes /\ FileTypes
  BY DEF TypeOK, HostTypes, PluginTypes, FileTypes

\* A call that returns: the host goes on, if it still listens.
Returned ==
  /\ call' = NoCall
  /\ call.heard \/ host' = host
  /\ host' \in {host, "idle", "begin", "promote", "keyRollback"}
  /\ attached' \in BOOLEAN

\* A step of the plugin keeps its call or returns from it.
LEMMA PluginCalls ==
  ASSUME RotationInv, PluginStep
  PROVE  SameCall \/ Returned \/ UNCHANGED <<call, hostVars>>
<1> USE DEF RotationInv
<1>1. CASE Refuse
  BY <1>1 DEF Refuse, Return, Returned, TypeOK
<1>2. CASE Freeze
  BY <1>2, GoesOn DEF Freeze, Busy, Steps, Replacing
<1>3. CASE Drained
  BY <1>3, GoesOn DEF Drained, Steps, Replacing
<1>4. CASE DrainCancelled
  BY <1>4 DEF DrainCancelled, Return, Returned, TypeOK
<1>5. CASE Recover
  BY <1>5, GoesOn DEF Recover, Steps, Replacing
<1>6. CASE CheckPromoted
  BY <1>6, GoesOn DEF CheckPromoted, Checked, Steps, Replacing
<1>7. CASE CheckFresh
  BY <1>7, GoesOn DEF CheckFresh, Checked, Steps, Replacing
<1>8. CASE CheckAgain
  BY <1>8, GoesOn DEF CheckAgain, Checked, Steps, Replacing
<1>9. CASE CheckRollback
  BY <1>9, GoesOn DEF CheckRollback, Checked, Steps, Replacing
<1>10. CASE CheckRepair
  BY <1>10, GoesOn DEF CheckRepair, Checked, Steps, Replacing
<1>11. CASE CheckRestore
  BY <1>11, GoesOn DEF CheckRestore, Checked, Steps, Replacing
<1>12. CASE NothingToResume
  BY <1>12 DEF NothingToResume, Return, Returned, TypeOK
<1>13. CASE CheckFails
  BY <1>13 DEF CheckFails, Return, Returned, TypeOK
<1>14. CASE Backup
  BY <1>14, GoesOn DEF Backup, Steps, Replacing
<1>15. CASE BackupFails
  BY <1>15, FailsAt DEF BackupFails, Steps, Replacing
<1>16. CASE NoteCheckpoint
  BY <1>16, GoesOn DEF NoteCheckpoint, Steps, Replacing
<1>17. CASE Reencrypt
  BY <1>17 DEF Reencrypt, hostVars
<1>18. CASE Verify
  BY <1>18, GoesOn DEF Verify, Steps, Replacing
<1>19. CASE PrepareFails
  BY <1>19, FailsAt DEF PrepareFails, Steps, Replacing
<1>20. CASE MarkAside
  BY <1>20, GoesOn DEF MarkAside, Steps, Replacing
<1>21. CASE MoveAside
  BY <1>21, GoesOn DEF MoveAside, Steps, Replacing
<1>22. CASE MoveIn
  BY <1>22, GoesOn DEF MoveIn, Steps, Replacing
<1>23. CASE DropAside
  BY <1>23, GoesOn DEF DropAside, Steps, Replacing
<1>24. CASE Unmark
  BY <1>24, GoesOn DEF Unmark, Steps, Replacing
<1>25. CASE ReplaceFails
  BY <1>25, FailsAt DEF ReplaceFails, Steps, Replacing
<1>26. CASE ReplaceBreaks
  BY <1>26, FailsAt DEF ReplaceBreaks, Steps, Replacing
<1>27. CASE Clear
  BY <1>27, GoesOn DEF Clear, Steps, Replacing
<1>28. CASE ClearFails
  BY <1>28, FailsAt DEF ClearFails, Steps, Replacing
<1>29. CASE End
  BY <1>29 DEF End, Return, Returned, TypeOK, StepInv, After, At, Calls, Operations,
     Rotations, Maintenance, NoCall, Steps
<1> QED
  BY <1>1, <1>2, <1>3, <1>4, <1>5, <1>6, <1>7, <1>8, <1>9, <1>10, <1>11, <1>12, <1>13,
     <1>14, <1>15, <1>16, <1>17, <1>18, <1>19, <1>20, <1>21, <1>22, <1>23, <1>24, <1>25,
     <1>26, <1>27, <1>28, <1>29 DEF PluginStep

\* The plugin writes neither the keys of the host nor its clients' calls.
LEMMA PluginFrame ==
  ASSUME PluginStep
  PROVE  UNCHANGED <<keyVars, configured, clientVars, bounds>>
  BY  DEF PluginStep, Refuse, Freeze, Drained, DrainCancelled, Recover, CheckPromoted,
     CheckFresh, CheckAgain, CheckRollback, CheckRepair, CheckRestore, NothingToResume,
     CheckFails, Backup, BackupFails, NoteCheckpoint, Reencrypt, Verify, PrepareFails,
     MarkAside, MoveAside, MoveIn, DropAside, Unmark, ReplaceFails, ReplaceBreaks,
     Clear, ClearFails, End, Checked, PluginOnly

\* Clients write neither the host's nor the plugin's variables.
ClientStep == \E c \in Clients : Gate(c) \/ StartRead(c) \/ ClientEnds(c)

LEMMA ClientFrame ==
  ASSUME ClientStep
  PROVE  UNCHANGED <<hostVars, keyVars, configured, call, freezeVars, backup, recovery, bounds>>
  BY DEF ClientStep, Gate, StartRead, ClientEnds, EnterWrite, EnterRefused, Leave, Save, Delete,
         Write, ClientOnly

\* The types of the host and of its call.
LEMMA HostTypesHold ==
  ASSUME RotationInv, [Next]_vars
  PROVE  HostTypes'
<1> USE RotationAssumption DEF RotationInv, TypeOK, HostTypes, Versions, keyVars, bounds
<1>1. CASE KeyStep
  <2>1. CASE SkipResume
    BY <1>1, <2>1, KeyStepFrame DEF SkipResume, HostOnly, Start, NewKey, Operations,
       Rotations, Maintenance, Calls
  <2>2. CASE BeginRotation
    BY <1>1, <2>2, KeyStepFrame DEF BeginRotation, HostOnly, Start, NewKey, Operations,
       Rotations, Maintenance, Calls
  <2>3. CASE BeginRotationFails
    BY <1>1, <2>3, KeyStepFrame DEF BeginRotationFails, HostOnly, Start, NewKey,
       Operations, Rotations, Maintenance, Calls
  <2>4. CASE Promote
    <3>1. pending # 0 /\ call' = NoCall
      BY <1>1, <2>4, KeyStepFrame DEF Promote, CallInv
    <3>2. active' = pending /\ pending' = 0 /\ UNCHANGED <<attached, used, configured, requests, crashes>>
      BY <2>4 DEF Promote, HostOnly
    <3>3. host' = "promoted" /\ call' \in Calls /\ ~call'.heard
      BY <2>4, <3>1, NoCallIsOne DEF Promote
    <3> QED
      BY <3>1, <3>2, <3>3
  <2>5. CASE PromoteFails
    BY <1>1, <2>5, KeyStepFrame DEF PromoteFails, HostOnly, Start, NewKey, Operations,
       Rotations, Maintenance, Calls
  <2>6. CASE RollbackLost
    BY <1>1, <2>6, KeyStepFrame DEF RollbackLost, HostOnly, Start, NewKey, Operations,
       Rotations, Maintenance, Calls
  <2>7. CASE KeyRollback
    BY <1>1, <2>7, KeyStepFrame DEF KeyRollback, HostOnly, Start, NewKey, Operations,
       Rotations, Maintenance, Calls
  <2>8. CASE KeyRollbackFails
    BY <1>1, <2>8, KeyStepFrame DEF KeyRollbackFails, HostOnly, Start, NewKey, Operations,
       Rotations, Maintenance, Calls
  <2> QED
    BY <1>1, <2>1, <2>2, <2>3, <2>4, <2>5, <2>6, <2>7, <2>8 DEF KeyStep
<1>2. CASE SendStep
  BY <1>2, SendStepSends, NoCallIsOne DEF Calls, Operations, Rotations, Maintenance,
     SendStep, StartResume, StartMaintenance, SendPrepare, SendRollback, SendFinalize,
     Start
<1>3. CASE GiveUp
  BY <1>3 DEF GiveUp, Calls
<1>4. CASE PluginStep
  BY <1>4, PluginCalls, PluginFrame, NoCallIsOne DEF SameCall, Returned, hostVars
<1>5. CASE ClientStep
  BY <1>5, ClientFrame DEF hostVars
<1>6. CASE Crash
  <2>1. call' \in Calls /\ ~call'.heard
    BY <1>6, NoCallIsOne DEF Crash
  <2>2. crashes' \in 0..MaxCrashes /\ UNCHANGED <<active, pending, used, requests>>
    BY <1>6 DEF Crash
  <2>3. host' \in Operations \cup {"idle", "begin", "send", "promote", "promoted", "undo", "keyRollback"}
    BY <1>6 DEF Crash
  <2>4. attached' = FALSE /\ configured' = active
    BY <1>6 DEF Crash
  <2>5. active' \in Versions /\ configured' \in Versions /\ used' \in Versions /\ configured' <= active'
    BY <2>2, <2>4
  <2>6. pending' \in 0..MaxVersion /\ active' <= used' /\ pending' <= used' /\ (pending' # 0 => active' < pending')
    BY <2>2
  <2>7. requests' \in 0..MaxRequests /\ attached' \in BOOLEAN
    BY <2>2, <2>4
  <2>8. call'.heard => host' = call'.op
    BY <2>1
  <2> QED
    BY <2>1, <2>2, <2>3, <2>5, <2>6, <2>7, <2>8
<1>7. CASE UNCHANGED vars
  BY <1>7 DEF vars, hostVars
<1> QED
  BY <1>1, <1>2, <1>3, <1>4, <1>5, <1>6, <1>7 DEF Next, HostStep, KeyStep, SendStep,
     ClientStep

LEMMA FreezeIsBoolean ==
  ASSUME Freeze, TypeOK
  PROVE  frozen' \in BOOLEAN /\ readsBlocked' \in BOOLEAN
<1>1. CASE Op({"finalize"})
  BY <1>1 DEF Freeze, freezeVars, TypeOK
<1>2. CASE ~Op({"finalize"})
  <2>1. frozen' = TRUE /\ readsBlocked' = (call.op \in {"prepare", "restore", "rollback"})
    BY <1>2 DEF Freeze, Op
  <2>2. CASE call.op \in {"prepare", "restore", "rollback"}
    BY <2>1, <2>2
  <2>3. CASE call.op \notin {"prepare", "restore", "rollback"}
    BY <2>1, <2>3
  <2> QED
    BY <2>2, <2>3
<1> QED
  BY <1>1, <1>2

\* The types of the freeze, of the recovery mode and of the clients.
LEMMA PluginTypesHold ==
  ASSUME RotationInv, [Next]_vars
  PROVE  PluginTypes'
<1> USE RotationAssumption DEF RotationInv, TypeOK, PluginTypes, Versions, freezeVars, clientVars
<1>1. CASE KeyStep
  BY <1>1, KeyStepFrame
<1>2. CASE SendStep
  BY <1>2, SendStepSends
<1>3. CASE GiveUp
  BY <1>3 DEF GiveUp
<1>4. CASE PluginStep
  <2>1. CASE Refuse
    BY <1>4, <2>1, PluginFrame DEF Refuse, Checked, Broken
  <2>2. CASE Freeze
    BY <1>4, <2>2, FreezeIsBoolean, PluginFrame DEF Freeze
  <2>3. CASE Drained
    BY <1>4, <2>3, PluginFrame DEF Drained, Checked, Broken
  <2>4. CASE DrainCancelled
    BY <1>4, <2>4, PluginFrame DEF DrainCancelled, Checked, Broken
  <2>5. CASE Recover
    BY <1>4, <2>5, PluginFrame DEF Recover, Checked, Broken
  <2>6. CASE CheckPromoted
    BY <1>4, <2>6, PluginFrame DEF CheckPromoted, Checked, Broken
  <2>7. CASE CheckFresh
    BY <1>4, <2>7, PluginFrame DEF CheckFresh, Checked, Broken
  <2>8. CASE CheckAgain
    BY <1>4, <2>8, PluginFrame DEF CheckAgain, Checked, Broken
  <2>9. CASE CheckRollback
    BY <1>4, <2>9, PluginFrame DEF CheckRollback, Checked, Broken
  <2>10. CASE CheckRepair
    BY <1>4, <2>10, PluginFrame DEF CheckRepair, Checked, Broken
  <2>11. CASE CheckRestore
    BY <1>4, <2>11, PluginFrame DEF CheckRestore, Checked, Broken
  <2>12. CASE NothingToResume
    BY <1>4, <2>12, PluginFrame DEF NothingToResume, Checked, Broken
  <2>13. CASE CheckFails
    BY <1>4, <2>13, PluginFrame DEF CheckFails, Checked, Broken
  <2>14. CASE Backup
    BY <1>4, <2>14, PluginFrame DEF Backup, Checked, Broken
  <2>15. CASE BackupFails
    BY <1>4, <2>15, PluginFrame DEF BackupFails, Checked, Broken
  <2>16. CASE NoteCheckpoint
    BY <1>4, <2>16, PluginFrame DEF NoteCheckpoint, Checked, Broken
  <2>17. CASE Reencrypt
    BY <1>4, <2>17, PluginFrame DEF Reencrypt, Checked, Broken
  <2>18. CASE Verify
    BY <1>4, <2>18, PluginFrame DEF Verify, Checked, Broken
  <2>19. CASE PrepareFails
    BY <1>4, <2>19, PluginFrame DEF PrepareFails, Checked, Broken
  <2>20. CASE MarkAside
    BY <1>4, <2>20, PluginFrame DEF MarkAside, Checked, Broken
  <2>21. CASE MoveAside
    BY <1>4, <2>21, PluginFrame DEF MoveAside, Checked, Broken
  <2>22. CASE MoveIn
    BY <1>4, <2>22, PluginFrame DEF MoveIn, Checked, Broken
  <2>23. CASE DropAside
    BY <1>4, <2>23, PluginFrame DEF DropAside, Checked, Broken
  <2>24. CASE Unmark
    BY <1>4, <2>24, PluginFrame DEF Unmark, Checked, Broken
  <2>25. CASE ReplaceFails
    BY <1>4, <2>25, PluginFrame DEF ReplaceFails, Checked, Broken
  <2>26. CASE ReplaceBreaks
    BY <1>4, <2>26, PluginFrame DEF ReplaceBreaks, Checked, Broken
  <2>27. CASE Clear
    BY <1>4, <2>27, PluginFrame DEF Clear, Checked, Broken
  <2>28. CASE ClearFails
    BY <1>4, <2>28, PluginFrame DEF ClearFails, Checked, Broken
  <2>29. CASE End
    BY <1>4, <2>29, PluginFrame DEF End, Checked, Broken
  <2> QED
    BY <1>4, <2>1, <2>2, <2>3, <2>4, <2>5, <2>6, <2>7, <2>8, <2>9, <2>10, <2>11, <2>12,
       <2>13, <2>14, <2>15, <2>16, <2>17, <2>18, <2>19, <2>20, <2>21, <2>22, <2>23,
       <2>24, <2>25, <2>26, <2>27, <2>28, <2>29 DEF PluginStep
<1>5. CASE ClientStep
  BY <1>5, ClientFrame DEF ClientStep, Gate, StartRead, ClientEnds, EnterWrite,
     EnterRefused, Leave, Save, Delete, Write
<1>6. CASE Crash
  BY <1>6 DEF Crash
<1>7. CASE UNCHANGED vars
  BY <1>7 DEF vars
<1> QED
  BY <1>1, <1>2, <1>3, <1>4, <1>5, <1>6, <1>7 DEF Next, HostStep, KeyStep, SendStep,
     ClientStep
-----------------------------------------------------------------------------
\* What the steps that edit the database in its place make of it.
Edited ==
  /\ main \in Files /\ main' \in Files /\ Live = main /\ Live' = main'
  /\ aside = NoFile /\ aside' = NoFile /\ ~marker /\ marker' = FALSE /\ backup' = backup

LEMMA EditInPlace ==
  ASSUME TypeOK, ~marker, main' \in Files, UNCHANGED <<aside, marker, backup>>
  PROVE  Edited
  BY MainIsThere DEF Edited, Live, TypeOK

LEMMA CheckpointNoted ==
  ASSUME RotationInv, NoteCheckpoint
  PROVE  Edited /\ main'.key = main.key
         /\ main'.checkpoint.target = call.target /\ ~main'.checkpoint.verified
<1> DEFINE cp == [target |-> call.target, source |-> call.active, verified |-> FALSE]
<1>1. ~marker /\ main \in Files
  BY MainIsThere DEF RotationInv, FileInv, NoteCheckpoint, At
<1>2. cp \in Checkpoints /\ cp.target = call.target /\ ~cp.verified
  BY DEF RotationInv, TypeOK, Calls, Checkpoints
<1>3. main' = [main EXCEPT !.checkpoint = cp] /\ UNCHANGED <<aside, marker, backup>>
  BY DEF NoteCheckpoint
<1> HIDE DEF cp
<1> QED
  BY <1>1, <1>2, <1>3, CheckpointEdited, EditInPlace DEF RotationInv

LEMMA RecordsReencrypted ==
  ASSUME RotationInv, Reencrypt
  PROVE  Edited /\ main'.checkpoint = main.checkpoint
         /\ \A r \in Records : main'.key[r] = main.key[r]
                                 \/ (main.key[r] # 0 /\ main'.key[r] = call.target)
<1>1. ~marker /\ main \in Files
  BY MainIsThere DEF RotationInv, FileInv, Reencrypt, At
<1>2. call.target \in 0..MaxVersion
  BY DEF RotationInv, TypeOK, Calls
<1>3. PICK batch \in SUBSET Left :
        main' = [main EXCEPT !.key = [r \in Records |-> IF r \in batch THEN call.target ELSE main.key[r]]]
  BY <1>1, FileParts DEF Reencrypt
<1> DEFINE k == [r \in Records |-> IF r \in batch THEN call.target ELSE main.key[r]]
<1>4. k \in [Records -> 0..MaxVersion]
  BY <1>1, <1>2, FileParts
<1>5. \A r \in Records : k[r] = main.key[r] \/ (main.key[r] # 0 /\ k[r] = call.target)
  BY DEF Left
<1>6. main' = [main EXCEPT !.key = k] /\ UNCHANGED <<aside, marker, backup>>
  BY <1>3 DEF Reencrypt
<1> HIDE DEF k
<1> QED
  BY <1>1, <1>4, <1>5, <1>6, KeysEdited, EditInPlace DEF RotationInv

LEMMA RecordsVerified ==
  ASSUME RotationInv, Verify
  PROVE  Edited /\ main'.key = main.key
         /\ main'.checkpoint.target = main.checkpoint.target /\ main'.checkpoint.verified
<1> DEFINE cp == [main.checkpoint EXCEPT !.verified = TRUE]
<1>1. ~marker /\ main \in Files
  BY MainIsThere DEF RotationInv, FileInv, Verify, At
<1>2. cp \in Checkpoints /\ cp.target = main.checkpoint.target /\ cp.verified
  BY <1>1, FileParts DEF Checkpoints
<1>3. main' = [main EXCEPT !.checkpoint = cp] /\ UNCHANGED <<aside, marker, backup>>
  BY DEF Verify
<1> HIDE DEF cp
<1> QED
  BY <1>1, <1>2, <1>3, CheckpointEdited, EditInPlace DEF RotationInv

LEMMA CheckpointCleared ==
  ASSUME RotationInv, Clear
  PROVE  Edited /\ main'.key = main.key /\ main'.checkpoint = NoCheckpoint
<1>1. ~marker /\ main \in Files
  BY MainIsThere DEF RotationInv, FileInv, Clear, At
<1>2. main' = [main EXCEPT !.checkpoint = NoCheckpoint] /\ UNCHANGED <<aside, marker, backup>>
  BY DEF Clear
<1> QED
  BY <1>1, <1>2, CheckpointEdited, NoCheckpointIsOne, EditInPlace DEF RotationInv

LEMMA RecordWritten ==
  ASSUME RotationInv, NEW c \in Clients, NEW r \in Records, NEW v \in 0..MaxVersion,
         client[c] = "writing", Write(c, r, v)
  PROVE  Edited /\ main'.key = [main.key EXCEPT ![r] = v] /\ main'.checkpoint = main.checkpoint
<1>1. ~marker /\ main \in Files
  BY MainIsThere DEF RotationInv, FileInv, Writing
<1> DEFINE k == [main.key EXCEPT ![r] = v]
<1>2. k \in [Records -> 0..MaxVersion]
  BY <1>1, FileParts
<1>3. main' = [main EXCEPT !.key = k] /\ UNCHANGED <<aside, marker, backup>>
  BY DEF Write, ClientOnly
<1> HIDE DEF k
<1>4. main'.key = k /\ Edited /\ main'.checkpoint = main.checkpoint
  BY <1>1, <1>2, <1>3, KeysEdited, EditInPlace DEF RotationInv
<1> QED
  BY <1>4 DEF k

\* A client that saves or deletes writes so.
LEMMA SaveWrites ==
  ASSUME RotationInv, NEW c \in Clients, NEW r \in Records, Save(c, r)
  PROVE  /\ Edited /\ client[c] = "writing" /\ client' = [client EXCEPT ![c] = "idle"]
         /\ main'.key = [main.key EXCEPT ![r] = snapshot[c]] /\ main'.checkpoint = main.checkpoint
         /\ snapshot[c] \in Versions /\ main.key[r] = 0
<1>1. snapshot[c] \in Versions /\ snapshot[c] \in 0..MaxVersion
  BY RotationAssumption DEF RotationInv, TypeOK, Versions
<1>2. client[c] = "writing" /\ main.key[r] = 0 /\ Write(c, r, snapshot[c])
  BY DEF Save
<1>3. client' = [client EXCEPT ![c] = "idle"]
  BY <1>2 DEF Write
<1> QED
  BY <1>1, <1>2, <1>3, RecordWritten

LEMMA DeleteWrites ==
  ASSUME RotationInv, NEW c \in Clients, NEW r \in Records, Delete(c, r)
  PROVE  /\ Edited /\ client[c] = "writing" /\ client' = [client EXCEPT ![c] = "idle"]
         /\ main'.key = [main.key EXCEPT ![r] = 0] /\ main'.checkpoint = main.checkpoint
         /\ main.key[r] # 0
<1>1. 0 \in 0..MaxVersion
  BY RotationAssumption
<1>2. client[c] = "writing" /\ main.key[r] # 0 /\ Write(c, r, 0)
  BY DEF Delete
<1> QED
  BY <1>1, <1>2, RecordWritten DEF Write

\* The types of the files, and that there is always one to go on with.
LEMMA FileTypesHold ==
  ASSUME RotationInv, [Next]_vars
  PROVE  FileTypes'
<1> USE NoFileAssumption DEF RotationInv, TypeOK, FileTypes, fileVars
<1>1. CASE KeyStep
  BY <1>1, KeyStepFrame
<1>2. CASE SendStep
  BY <1>2, SendStepSends
<1>3. CASE GiveUp
  BY <1>3 DEF GiveUp
<1>4. CASE PluginStep
  <2>1. CASE Refuse
    BY <1>4, <2>1 DEF Refuse, Checked
  <2>2. CASE Freeze
    BY <1>4, <2>2 DEF Freeze, Checked
  <2>3. CASE Drained
    BY <1>4, <2>3 DEF Drained, Checked
  <2>4. CASE DrainCancelled
    BY <1>4, <2>4 DEF DrainCancelled, Checked
  <2>5. CASE Recover
    BY <1>4, <2>5, RecoverKeepsLive, LiveIsAFile DEF Recover
  <2>6. CASE CheckPromoted
    BY <1>4, <2>6 DEF CheckPromoted, Checked
  <2>7. CASE CheckFresh
    BY <1>4, <2>7 DEF CheckFresh, Checked
  <2>8. CASE CheckAgain
    BY <1>4, <2>8 DEF CheckAgain, Checked
  <2>9. CASE CheckRollback
    BY <1>4, <2>9 DEF CheckRollback, Checked
  <2>10. CASE CheckRepair
    BY <1>4, <2>10 DEF CheckRepair, Checked
  <2>11. CASE CheckRestore
    BY <1>4, <2>11 DEF CheckRestore, Checked
  <2>12. CASE NothingToResume
    BY <1>4, <2>12 DEF NothingToResume, Checked
  <2>13. CASE CheckFails
    BY <1>4, <2>13 DEF CheckFails, Checked
  <2>14. CASE Backup
    BY <1>4, <2>14 DEF Backup, FileInv
  <2>15. CASE BackupFails
    BY <1>4, <2>15 DEF BackupFails, Checked
  <2>16. CASE NoteCheckpoint
    BY <1>4, <2>16, CheckpointNoted DEF NoteCheckpoint, Edited
  <2>17. CASE Reencrypt
    BY <1>4, <2>17, RecordsReencrypted DEF Reencrypt, Edited
  <2>18. CASE Verify
    BY <1>4, <2>18, RecordsVerified DEF Verify, Edited
  <2>19. CASE PrepareFails
    BY <1>4, <2>19 DEF PrepareFails, Checked
  <2>20. CASE MarkAside
    BY <1>4, <2>20 DEF MarkAside, FileInv, At, Replacing
  <2>21. CASE MoveAside
    BY <1>4, <2>21 DEF MoveAside, FileInv, At, Replacing
  <2>22. CASE MoveIn
    BY <1>4, <2>22 DEF MoveIn, FileInv, At, Replacing
  <2>23. CASE DropAside
    BY <1>4, <2>23 DEF DropAside, FileInv, At, Replacing
  <2>24. CASE Unmark
    BY <1>4, <2>24 DEF Unmark, FileInv, At, Replacing
  <2>25. CASE ReplaceFails
    BY <1>4, <2>25, PutBackKeepsLive, LiveIsAFile DEF ReplaceFails
  <2>26. CASE ReplaceBreaks
    BY <1>4, <2>26 DEF ReplaceBreaks, Checked
  <2>27. CASE Clear
    BY <1>4, <2>27, CheckpointCleared DEF Clear, Edited
  <2>28. CASE ClearFails
    BY <1>4, <2>28 DEF ClearFails, Checked
  <2>29. CASE End
    BY <1>4, <2>29 DEF End, Checked
  <2> QED
    BY <1>4, <2>1, <2>2, <2>3, <2>4, <2>5, <2>6, <2>7, <2>8, <2>9, <2>10, <2>11, <2>12,
       <2>13, <2>14, <2>15, <2>16, <2>17, <2>18, <2>19, <2>20, <2>21, <2>22, <2>23,
       <2>24, <2>25, <2>26, <2>27, <2>28, <2>29 DEF PluginStep
<1>5. ASSUME NEW c \in Clients, Gate(c)
      PROVE  FileTypes'
  BY <1>5 DEF Gate, ClientOnly
<1>6. ASSUME NEW c \in Clients, StartRead(c)
      PROVE  FileTypes'
  BY <1>6, RecoverKeepsLive, LiveIsAFile DEF StartRead, ClientOnly
<1>7. ASSUME NEW c \in Clients, EnterWrite(c)
      PROVE  FileTypes'
  BY <1>7, RecoverKeepsLive, LiveIsAFile DEF EnterWrite, ClientOnly
<1>8. ASSUME NEW c \in Clients, EnterRefused(c)
      PROVE  FileTypes'
  BY <1>8 DEF EnterRefused, ClientOnly
<1>9. ASSUME NEW c \in Clients, Leave(c)
      PROVE  FileTypes'
  BY <1>9 DEF Leave, ClientOnly
<1>10. ASSUME NEW c \in Clients, NEW r \in Records, Save(c, r)
       PROVE  FileTypes'
  BY <1>10, SaveWrites DEF Edited
<1>11. ASSUME NEW c \in Clients, NEW r \in Records, Delete(c, r)
       PROVE  FileTypes'
  BY <1>11, DeleteWrites DEF Edited
<1>12. CASE Crash
  BY <1>12 DEF Crash
<1>13. CASE UNCHANGED vars
  BY <1>13 DEF vars
<1> QED
  BY <1>1, <1>2, <1>3, <1>4, <1>5, <1>6, <1>7, <1>8, <1>9, <1>10, <1>11, <1>12, <1>13
     DEF Next, HostStep, KeyStep, SendStep, ClientEnds

LEMMA TypesHold ==
  ASSUME RotationInv, [Next]_vars
  PROVE  TypeOK'
<1>1. HostTypes' /\ PluginTypes' /\ FileTypes'
  BY HostTypesHold, PluginTypesHold, FileTypesHold
<1> QED
  BY <1>1 DEF TypeOK, HostTypes, PluginTypes, FileTypes
-----------------------------------------------------------------------------
\* A step that a call takes after it froze the history, to another such step.
MoveStep ==
  \/ Drained \/ Recover \/ CheckPromoted \/ CheckFresh \/ CheckAgain
  \/ CheckRollback \/ CheckRepair \/ CheckRestore \/ Backup \/ BackupFails
  \/ NoteCheckpoint \/ Verify \/ PrepareFails \/ MarkAside \/ MoveAside \/ MoveIn
  \/ DropAside \/ Unmark \/ ReplaceFails \/ ReplaceBreaks \/ Clear \/ ClearFails

Moved ==
  /\ SameCall /\ call.at \in Inside /\ call'.at \in Alone /\ call.op # "none"
  /\ call.at = "drain" => Idle
  /\ StepInv'

LEMMA DrainedStep ==
  ASSUME TypeOK, Drained
  PROVE  /\ SameCall /\ call'.ok = call.ok
         /\ call.at = "drain" /\ Idle
         /\ call'.at = "recover"
         /\ UNCHANGED <<main, aside, marker, backup>>
<1>1. /\ call.at = "drain" /\ Idle
      /\ UNCHANGED <<main, aside, marker, backup>>
  BY  DEF Drained, At, Op, fileVars
<1> QED
  BY <1>1, GoesOn DEF Drained, At, Op, Steps, Replacing

LEMMA RecoverStep ==
  ASSUME TypeOK, Recover
  PROVE  /\ SameCall /\ call'.ok = call.ok
         /\ call.at = "recover"
         /\ call'.at = "check"
         /\ RecoverFiles /\ backup' = backup
<1>1. /\ call.at = "recover"
      /\ RecoverFiles /\ backup' = backup
  BY  DEF Recover, At, Op, fileVars
<1> QED
  BY <1>1, GoesOn DEF Recover, At, Op, Steps, Replacing

LEMMA CheckPromotedStep ==
  ASSUME TypeOK, CheckPromoted
  PROVE  /\ SameCall /\ call'.ok = call.ok
         /\ call.at = "check" /\ call.op \in {"resume", "finalize"}
         /\ call'.at = "clear"
         /\ Promoted /\ UNCHANGED <<main, aside, marker, backup>>
<1>1. /\ call.at = "check" /\ call.op \in {"resume", "finalize"}
      /\ Promoted /\ UNCHANGED <<main, aside, marker, backup>>
  BY  DEF CheckPromoted, Checked, At, Op, fileVars
<1> QED
  BY <1>1, GoesOn DEF CheckPromoted, Checked, At, Op, Steps, Replacing

LEMMA CheckFreshStep ==
  ASSUME TypeOK, CheckFresh
  PROVE  /\ SameCall /\ call'.ok = call.ok
         /\ call.at = "check" /\ call.op = "prepare"
         /\ call'.at = "backup"
         /\ NoRotation /\ UNCHANGED <<main, aside, marker, backup>>
<1>1. /\ call.at = "check" /\ call.op = "prepare"
      /\ NoRotation /\ UNCHANGED <<main, aside, marker, backup>>
  BY  DEF CheckFresh, Checked, At, Op, fileVars
<1> QED
  BY <1>1, GoesOn DEF CheckFresh, Checked, At, Op, Steps, Replacing

LEMMA CheckAgainStep ==
  ASSUME TypeOK, CheckAgain
  PROVE  /\ SameCall /\ call'.ok = call.ok
         /\ call.at = "check" /\ call.op = "prepare"
         /\ call'.at = "batch"
         /\ ~NoRotation /\ Valid /\ UNCHANGED <<main, aside, marker, backup>>
<1>1. /\ call.at = "check" /\ call.op = "prepare"
      /\ ~NoRotation /\ Valid /\ UNCHANGED <<main, aside, marker, backup>>
  BY  DEF CheckAgain, Checked, At, Op, fileVars
<1> QED
  BY <1>1, GoesOn DEF CheckAgain, Checked, At, Op, Steps, Replacing

LEMMA CheckRollbackStep ==
  ASSUME TypeOK, CheckRollback
  PROVE  /\ SameCall /\ call'.ok = call.ok
         /\ call.at = "check" /\ call.op = "rollback"
         /\ call'.at = "mark aside"
         /\ ~NoRotation /\ UNCHANGED <<main, aside, marker, backup>>
<1>1. /\ call.at = "check" /\ call.op = "rollback"
      /\ ~NoRotation /\ UNCHANGED <<main, aside, marker, backup>>
  BY  DEF CheckRollback, Checked, At, Op, fileVars
<1> QED
  BY <1>1, GoesOn DEF CheckRollback, Checked, At, Op, Steps, Replacing

LEMMA CheckRepairStep ==
  ASSUME TypeOK, CheckRepair
  PROVE  /\ SameCall /\ call'.ok = call.ok
         /\ call.at = "check" /\ call.op = "repair"
         /\ call'.at = "repair"
         /\ NoRotation /\ UNCHANGED <<main, aside, marker, backup>>
<1>1. /\ call.at = "check" /\ call.op = "repair"
      /\ NoRotation /\ UNCHANGED <<main, aside, marker, backup>>
  BY  DEF CheckRepair, Checked, At, Op, fileVars
<1> QED
  BY <1>1, GoesOn DEF CheckRepair, Checked, At, Op, Steps, Replacing

LEMMA CheckRestoreStep ==
  ASSUME TypeOK, CheckRestore
  PROVE  /\ SameCall /\ call'.ok = call.ok
         /\ call.at = "check" /\ call.op = "restore"
         /\ call'.at = "mark aside"
         /\ backup # NoFile /\ UNCHANGED <<main, aside, marker, backup>>
<1>1. /\ call.at = "check" /\ call.op = "restore"
      /\ backup # NoFile /\ UNCHANGED <<main, aside, marker, backup>>
  BY  DEF CheckRestore, Checked, At, Op, fileVars
<1> QED
  BY <1>1, GoesOn DEF CheckRestore, Checked, At, Op, Steps, Replacing

LEMMA BackupStep ==
  ASSUME TypeOK, Backup
  PROVE  /\ SameCall /\ call'.ok = call.ok
         /\ call.at \in {"backup", "repair"}
         /\ call'.at = IF call.op = "prepare" THEN "note" ELSE "end"
         /\ ~call.cancelled /\ backup' = main /\ UNCHANGED <<main, aside, marker>>
<1>1. /\ call.at \in {"backup", "repair"}
      /\ ~call.cancelled /\ backup' = main /\ UNCHANGED <<main, aside, marker>>
  BY  DEF Backup, At, Op, fileVars
<1>2. CASE call.op = "prepare"
  BY <1>2, <1>1, GoesOn DEF Backup, At, Op, Steps, Replacing
<1>3. CASE call.op # "prepare"
  BY <1>3, <1>1, GoesOn DEF Backup, At, Op, Steps, Replacing
<1> QED
  BY <1>1, <1>2, <1>3

LEMMA BackupFailsStep ==
  ASSUME TypeOK, BackupFails
  PROVE  /\ SameCall /\ ~call'.ok
         /\ call.at \in {"backup", "repair"}
         /\ call'.at = IF call.op = "prepare" THEN "clear" ELSE "end"
         /\ UNCHANGED <<main, aside, marker, backup>>
<1>1. /\ call.at \in {"backup", "repair"}
      /\ UNCHANGED <<main, aside, marker, backup>>
  BY  DEF BackupFails, At, Op, fileVars
<1>2. CASE call.op = "prepare"
  BY <1>2, <1>1, FailsAt DEF BackupFails, At, Op, Steps, Replacing
<1>3. CASE call.op # "prepare"
  BY <1>3, <1>1, FailsAt DEF BackupFails, At, Op, Steps, Replacing
<1> QED
  BY <1>1, <1>2, <1>3

LEMMA NoteCheckpointStep ==
  ASSUME TypeOK, NoteCheckpoint
  PROVE  /\ SameCall /\ call'.ok = call.ok
         /\ call.at = "note"
         /\ call'.at = "batch"
<1>1. call.at = "note"
  BY  DEF NoteCheckpoint, At, Op, fileVars
<1> QED
  BY <1>1, GoesOn DEF NoteCheckpoint, At, Op, Steps, Replacing

LEMMA VerifyStep ==
  ASSUME TypeOK, Verify
  PROVE  /\ SameCall /\ call'.ok = call.ok
         /\ call.at = "batch"
         /\ call'.at = "end"
<1>1. call.at = "batch"
  BY  DEF Verify, At, Op, fileVars
<1> QED
  BY <1>1, GoesOn DEF Verify, At, Op, Steps, Replacing

LEMMA PrepareFailsStep ==
  ASSUME TypeOK, PrepareFails
  PROVE  /\ SameCall /\ ~call'.ok
         /\ call.at \in {"note", "batch"} \/ (call.at = "check" /\ call.op = "prepare" /\ ~NoRotation)
         /\ call'.at = "mark aside"
         /\ UNCHANGED <<main, aside, marker, backup>>
<1>1. /\ call.at \in {"note", "batch"} \/ (call.at = "check" /\ call.op = "prepare" /\ ~NoRotation)
      /\ UNCHANGED <<main, aside, marker, backup>>
  BY  DEF PrepareFails, At, Op, fileVars
<1> QED
  BY <1>1, FailsAt DEF PrepareFails, At, Op, Steps, Replacing

LEMMA MarkAsideStep ==
  ASSUME TypeOK, MarkAside
  PROVE  /\ SameCall /\ call'.ok = call.ok
         /\ call.at = "mark aside"
         /\ call'.at = "move aside"
         /\ marker' = TRUE /\ UNCHANGED <<main, aside, backup>>
<1>1. /\ call.at = "mark aside"
      /\ marker' = TRUE /\ UNCHANGED <<main, aside, backup>>
  BY  DEF MarkAside, At, Op, fileVars
<1> QED
  BY <1>1, GoesOn DEF MarkAside, At, Op, Steps, Replacing

LEMMA MoveAsideStep ==
  ASSUME TypeOK, MoveAside
  PROVE  /\ SameCall /\ call'.ok = call.ok
         /\ call.at = "move aside"
         /\ call'.at = "move in"
         /\ aside' = main /\ main' = NoFile /\ UNCHANGED <<marker, backup>>
<1>1. /\ call.at = "move aside"
      /\ aside' = main /\ main' = NoFile /\ UNCHANGED <<marker, backup>>
  BY  DEF MoveAside, At, Op, fileVars
<1> QED
  BY <1>1, GoesOn DEF MoveAside, At, Op, Steps, Replacing

LEMMA MoveInStep ==
  ASSUME TypeOK, MoveIn
  PROVE  /\ SameCall /\ call'.ok = call.ok
         /\ call.at = "move in"
         /\ call'.at = "drop aside"
         /\ main' = backup /\ UNCHANGED <<aside, marker, backup>>
<1>1. /\ call.at = "move in"
      /\ main' = backup /\ UNCHANGED <<aside, marker, backup>>
  BY  DEF MoveIn, At, Op, fileVars
<1> QED
  BY <1>1, GoesOn DEF MoveIn, At, Op, Steps, Replacing

LEMMA DropAsideStep ==
  ASSUME TypeOK, DropAside
  PROVE  /\ SameCall /\ call'.ok = call.ok
         /\ call.at = "drop aside"
         /\ call'.at = "unmark"
         /\ aside' = NoFile /\ UNCHANGED <<main, marker, backup>>
<1>1. /\ call.at = "drop aside"
      /\ aside' = NoFile /\ UNCHANGED <<main, marker, backup>>
  BY  DEF DropAside, At, Op, fileVars
<1> QED
  BY <1>1, GoesOn DEF DropAside, At, Op, Steps, Replacing

LEMMA UnmarkStep ==
  ASSUME TypeOK, Unmark
  PROVE  /\ SameCall /\ call'.ok = call.ok
         /\ call.at = "unmark"
         /\ call'.at = IF call.op = "restore" THEN "end" ELSE "clear"
         /\ marker' = FALSE /\ UNCHANGED <<main, aside, backup>>
<1>1. /\ call.at = "unmark"
      /\ marker' = FALSE /\ UNCHANGED <<main, aside, backup>>
  BY  DEF Unmark, At, Op, fileVars
<1>2. CASE call.op = "restore"
  BY <1>2, <1>1, GoesOn DEF Unmark, At, Op, Steps, Replacing
<1>3. CASE call.op # "restore"
  BY <1>3, <1>1, GoesOn DEF Unmark, At, Op, Steps, Replacing
<1> QED
  BY <1>1, <1>2, <1>3

LEMMA ReplaceFailsStep ==
  ASSUME TypeOK, ReplaceFails
  PROVE  /\ SameCall /\ ~call'.ok
         /\ call.at \in Replacing \cup {"mark aside"}
         /\ call'.at = "end"
         /\ PutBack /\ backup' = backup
<1>1. /\ call.at \in Replacing \cup {"mark aside"}
      /\ PutBack /\ backup' = backup
  BY  DEF ReplaceFails, At, Op, fileVars, Replacing
<1> QED
  BY <1>1, FailsAt DEF ReplaceFails, At, Op, Steps, Replacing

LEMMA ReplaceBreaksStep ==
  ASSUME TypeOK, ReplaceBreaks
  PROVE  /\ SameCall /\ ~call'.ok
         /\ call.at \in Replacing
         /\ call'.at = "end"
         /\ UNCHANGED <<main, aside, marker, backup>>
<1>1. /\ call.at \in Replacing
      /\ UNCHANGED <<main, aside, marker, backup>>
  BY  DEF ReplaceBreaks, At, Op, fileVars, Replacing
<1> QED
  BY <1>1, FailsAt DEF ReplaceBreaks, At, Op, Steps, Replacing

LEMMA ClearStep ==
  ASSUME TypeOK, Clear
  PROVE  /\ SameCall /\ call'.ok = call.ok
         /\ call.at = "clear"
         /\ call'.at = "end"
<1>1. call.at = "clear"
  BY  DEF Clear, At, Op, fileVars
<1> QED
  BY <1>1, GoesOn DEF Clear, At, Op, Steps, Replacing

LEMMA ClearFailsStep ==
  ASSUME TypeOK, ClearFails
  PROVE  /\ SameCall /\ ~call'.ok
         /\ call.at = "clear"
         /\ call'.at = "end"
         /\ UNCHANGED <<main, aside, marker, backup>>
<1>1. /\ call.at = "clear"
      /\ UNCHANGED <<main, aside, marker, backup>>
  BY  DEF ClearFails, At, Op, fileVars
<1> QED
  BY <1>1, FailsAt DEF ClearFails, At, Op, Steps, Replacing

\* Every operation keeps to its steps.
LEMMA MovesKeepSteps ==
  ASSUME TypeOK, StepInv, MoveStep
  PROVE  Moved
<1> USE DEF StepInv, Moved, SameCall, Steps, Inside, Alone, Replacing, Replacers
<1>1. CASE Drained
  <2>1. call.at \in Inside /\ call'.at \in Alone /\ call.op # "none" /\ (call.at = "drain" => Idle)
    BY <1>1, DrainedStep
  <2> QED
    BY <1>1, <2>1, DrainedStep
<1>2. CASE Recover
  <2>1. call.at \in Inside /\ call'.at \in Alone /\ call.op # "none" /\ (call.at = "drain" => Idle)
    BY <1>2, RecoverStep
  <2> QED
    BY <1>2, <2>1, RecoverStep
<1>3. CASE CheckPromoted
  <2>1. call.at \in Inside /\ call'.at \in Alone /\ call.op # "none" /\ (call.at = "drain" => Idle)
    BY <1>3, CheckPromotedStep
  <2> QED
    BY <1>3, <2>1, CheckPromotedStep DEF Rotations
<1>4. CASE CheckFresh
  <2>1. call.at \in Inside /\ call'.at \in Alone /\ call.op # "none" /\ (call.at = "drain" => Idle)
    BY <1>4, CheckFreshStep
  <2> QED
    BY <1>4, <2>1, CheckFreshStep
<1>5. CASE CheckAgain
  <2>1. call.at \in Inside /\ call'.at \in Alone /\ call.op # "none" /\ (call.at = "drain" => Idle)
    BY <1>5, CheckAgainStep
  <2> QED
    BY <1>5, <2>1, CheckAgainStep
<1>6. CASE CheckRollback
  <2>1. call.at \in Inside /\ call'.at \in Alone /\ call.op # "none" /\ (call.at = "drain" => Idle)
    BY <1>6, CheckRollbackStep
  <2> QED
    BY <1>6, <2>1, CheckRollbackStep
<1>7. CASE CheckRepair
  <2>1. call.at \in Inside /\ call'.at \in Alone /\ call.op # "none" /\ (call.at = "drain" => Idle)
    BY <1>7, CheckRepairStep
  <2> QED
    BY <1>7, <2>1, CheckRepairStep
<1>8. CASE CheckRestore
  <2>1. call.at \in Inside /\ call'.at \in Alone /\ call.op # "none" /\ (call.at = "drain" => Idle)
    BY <1>8, CheckRestoreStep
  <2> QED
    BY <1>8, <2>1, CheckRestoreStep
<1>9. CASE Backup
  <2>1. call.at \in Inside /\ call'.at \in Alone /\ call.op # "none" /\ (call.at = "drain" => Idle)
    BY <1>9, BackupStep
  <2> QED
    BY <1>9, <2>1, BackupStep
<1>10. CASE BackupFails
  <2>1. call.at \in Inside /\ call'.at \in Alone /\ call.op # "none" /\ (call.at = "drain" => Idle)
    BY <1>10, BackupFailsStep
  <2> QED
    BY <1>10, <2>1, BackupFailsStep DEF Rotations
<1>11. CASE NoteCheckpoint
  <2>1. call.at \in Inside /\ call'.at \in Alone /\ call.op # "none" /\ (call.at = "drain" => Idle)
    BY <1>11, NoteCheckpointStep
  <2> QED
    BY <1>11, <2>1, NoteCheckpointStep
<1>12. CASE Verify
  <2>1. call.at \in Inside /\ call'.at \in Alone /\ call.op # "none" /\ (call.at = "drain" => Idle)
    BY <1>12, VerifyStep
  <2> QED
    BY <1>12, <2>1, VerifyStep
<1>13. CASE PrepareFails
  <2>1. call.at \in Inside /\ call'.at \in Alone /\ call.op # "none" /\ (call.at = "drain" => Idle)
    BY <1>13, PrepareFailsStep
  <2> QED
    BY <1>13, <2>1, PrepareFailsStep
<1>14. CASE MarkAside
  <2>1. call.at \in Inside /\ call'.at \in Alone /\ call.op # "none" /\ (call.at = "drain" => Idle)
    BY <1>14, MarkAsideStep
  <2> QED
    BY <1>14, <2>1, MarkAsideStep
<1>15. CASE MoveAside
  <2>1. call.at \in Inside /\ call'.at \in Alone /\ call.op # "none" /\ (call.at = "drain" => Idle)
    BY <1>15, MoveAsideStep
  <2> QED
    BY <1>15, <2>1, MoveAsideStep
<1>16. CASE MoveIn
  <2>1. call.at \in Inside /\ call'.at \in Alone /\ call.op # "none" /\ (call.at = "drain" => Idle)
    BY <1>16, MoveInStep
  <2> QED
    BY <1>16, <2>1, MoveInStep
<1>17. CASE DropAside
  <2>1. call.at \in Inside /\ call'.at \in Alone /\ call.op # "none" /\ (call.at = "drain" => Idle)
    BY <1>17, DropAsideStep
  <2> QED
    BY <1>17, <2>1, DropAsideStep
<1>18. CASE Unmark
  <2>1. call.at \in Inside /\ call'.at \in Alone /\ call.op # "none" /\ (call.at = "drain" => Idle)
    BY <1>18, UnmarkStep
  <2> QED
    BY <1>18, <2>1, UnmarkStep DEF Rotations
<1>19. CASE ReplaceFails
  <2>1. call.at \in Inside /\ call'.at \in Alone /\ call.op # "none" /\ (call.at = "drain" => Idle)
    BY <1>19, ReplaceFailsStep
  <2> QED
    BY <1>19, <2>1, ReplaceFailsStep
<1>20. CASE ReplaceBreaks
  <2>1. call.at \in Inside /\ call'.at \in Alone /\ call.op # "none" /\ (call.at = "drain" => Idle)
    BY <1>20, ReplaceBreaksStep
  <2> QED
    BY <1>20, <2>1, ReplaceBreaksStep
<1>21. CASE Clear
  <2>1. call.at \in Inside /\ call'.at \in Alone /\ call.op # "none" /\ (call.at = "drain" => Idle)
    BY <1>21, ClearStep
  <2> QED
    BY <1>21, <2>1, ClearStep
<1>22. CASE ClearFails
  <2>1. call.at \in Inside /\ call'.at \in Alone /\ call.op # "none" /\ (call.at = "drain" => Idle)
    BY <1>22, ClearFailsStep
  <2> QED
    BY <1>22, <2>1, ClearFailsStep
<1> QED
  BY <1>1, <1>2, <1>3, <1>4, <1>5, <1>6, <1>7, <1>8, <1>9, <1>10, <1>11, <1>12, <1>13,
     <1>14, <1>15, <1>16, <1>17, <1>18, <1>19, <1>20, <1>21, <1>22 DEF MoveStep

LEMMA MoveFrame ==
  ASSUME MoveStep
  PROVE  PluginStep /\ UNCHANGED freezeVars
  BY  DEF MoveStep, PluginStep, Checked, Drained, Recover, CheckPromoted, CheckFresh,
     CheckAgain, CheckRollback, CheckRepair, CheckRestore, Backup, BackupFails,
     NoteCheckpoint, Verify, PrepareFails, MarkAside, MoveAside, MoveIn, DropAside,
     Unmark, ReplaceFails, ReplaceBreaks, Clear, ClearFails

\* The steps of the plugin, by what becomes of the call.
ReturnStep == Refuse \/ DrainCancelled \/ NothingToResume \/ CheckFails \/ End

LEMMA PluginCases == PluginStep => MoveStep \/ ReturnStep \/ Freeze \/ Reencrypt
  BY  DEF PluginStep, MoveStep, ReturnStep

\* Where the host goes on when its call returns.
LEMMA CallReturns ==
  ASSUME RotationInv, ReturnStep
  PROVE  /\ PluginStep /\ call.at \in Steps /\ call' = NoCall
         /\ \/ host' \in {host, "idle", "begin"}
            \/ call.at = "end" /\ call.ok /\ call.op = "prepare" /\ host' = "promote"
            \/ call.at = "end" /\ call.ok /\ call.op = "rollback" /\ host' = "keyRollback"
<1>1. CASE Refuse \/ DrainCancelled \/ NothingToResume \/ CheckFails
  BY <1>1 DEF Refuse, DrainCancelled, NothingToResume, CheckFails, Return, PluginStep, At, Steps
<1>2. CASE End
  <2>1. call.at = "end" /\ call' = NoCall
    BY <1>2 DEF End, Return, At
  <2>2. call.op \in Operations
    BY <2>1 DEF RotationInv, TypeOK, Calls, StepInv
  <2>3. host' \in {host, IF call.ok THEN After[call.op] ELSE "idle"}
    BY <1>2 DEF End, Return
  <2>4. After[call.op] = "promote" => call.op = "prepare"
    BY <2>2 DEF After
  <2>5. After[call.op] = "keyRollback" => call.op = "rollback"
    BY <2>2 DEF After
  <2>6. After[call.op] \in {"idle", "promote", "keyRollback"}
    BY <2>2 DEF After
  <2> QED
    BY <1>2, <2>1, <2>3, <2>4, <2>5, <2>6 DEF PluginStep, Steps
<1> QED
  BY <1>1, <1>2 DEF ReturnStep

LEMMA FreezeMoves ==
  ASSUME RotationInv, Freeze
  PROVE  /\ PluginStep /\ SameCall /\ call.at = "begin" /\ call'.ok = call.ok
         /\ \/ call.op = "finalize" /\ call'.at = "recover" /\ UNCHANGED freezeVars
            \/ /\ call.op # "finalize" /\ call'.at = "drain"
               /\ frozen' /\ (readsBlocked' <=> call.op \in Replacers)
               /\ call.op = "rollback" => frozen
<1>1. CASE call.op = "finalize"
  BY <1>1, GoesOn DEF RotationInv, Freeze, Op, At, Steps, PluginStep
<1>2. CASE call.op # "finalize"
  <2>1. SameCall /\ call.at = "begin" /\ call'.ok = call.ok /\ call'.at = "drain"
    BY <1>2, GoesOn DEF RotationInv, Freeze, Op, At, Steps
  <2>2. frozen' = TRUE /\ readsBlocked' = (call.op \in {"prepare", "restore", "rollback"})
    BY <1>2 DEF Freeze, Op
  <2>3. call.op = "rollback" => frozen
    BY DEF Freeze, Busy, Op
  <2>4. call.op \in {"prepare", "restore", "rollback"} <=> call.op \in Replacers
    BY DEF Replacers
  <2> QED
    BY <1>2, <2>1, <2>2, <2>3, <2>4 DEF PluginStep
<1> QED
  BY <1>1, <1>2

\* Every operation keeps to its steps, and no key is touched under a prepare.
LEMMA CallsHold ==
  ASSUME RotationInv, [Next]_vars
  PROVE  StepInv' /\ CallInv'
<1> USE DEF RotationInv
<1>1. CASE KeyStep
  <2>1. call' = call
    BY <1>1, KeyStepFrame
  <2>2. StepInv'
    BY <2>1 DEF StepInv
  <2>3. call.op = "prepare" => UNCHANGED <<pending, active>>
    BY <1>1, RotationAssumption DEF KeyStep, SkipResume, BeginRotation, BeginRotationFails, Promote,
       PromoteFails, RollbackLost, KeyRollback, KeyRollbackFails, CallInv, keyVars, NewKey
  <2>4. host' \in {"promoted", "undo"} => host = "promote"
    BY <1>1 DEF KeyStep, SkipResume, BeginRotation, BeginRotationFails, Promote,
       PromoteFails, RollbackLost, KeyRollback, KeyRollbackFails
  <2>5. host' \in {"begin", "send", "promoted", "undo", "idle"}
    BY <1>1 DEF KeyStep, SkipResume, BeginRotation, BeginRotationFails, Promote,
       PromoteFails, RollbackLost, KeyRollback, KeyRollbackFails
  <2>6. host' = "send" => pending' # 0
    BY <1>1, RotationAssumption DEF KeyStep, SkipResume, BeginRotation, BeginRotationFails, Promote,
       PromoteFails, RollbackLost, KeyRollback, KeyRollbackFails, NewKey, keyVars, TypeOK, Versions
  <2>7. host' = "undo" => pending' = pending
    BY <1>1 DEF KeyStep, SkipResume, BeginRotation, BeginRotationFails, Promote,
       PromoteFails, RollbackLost, KeyRollback, KeyRollbackFails, keyVars
  <2> QED
    BY <2>1, <2>2, <2>3, <2>4, <2>5, <2>6, <2>7 DEF CallInv
<1>2. CASE SendStep
  <2>1. pending' = pending
    BY <1>2, SendStepSends DEF keyVars
  <2>2. CASE call' = call /\ host' = "idle"
    BY <2>1, <2>2 DEF CallInv, StepInv
  <2>3. CASE /\ call = NoCall /\ call'.at = "begin" /\ call'.op \in Operations /\ host' = call'.op
             /\ call'.op = "prepare" => host = "send" /\ call'.target = pending
    BY <2>1, <2>3 DEF CallInv, StepInv, Operations, Rotations, Maintenance, Replacing
  <2> QED
    BY <1>2, <2>2, <2>3, SendStepSends
<1>3. CASE GiveUp
  <2>1. /\ call'.op = call.op /\ call'.at = call.at /\ call'.target = call.target /\ call'.ok = call.ok
        /\ host' = "idle" /\ pending' = pending /\ call.heard
    BY <1>3 DEF GiveUp, TypeOK, Calls, keyVars
  <2>2. call.op # "none"
    BY <2>1, NoCallIsOne DEF CallInv
  <2> QED
    BY <2>1, <2>2 DEF CallInv, StepInv
<1>4. CASE MoveStep
  <2>1. Moved /\ pending' = pending
    BY <1>4, MovesKeepSteps, MoveFrame, PluginFrame DEF keyVars
  <2> QED
    BY <2>1 DEF Moved, SameCall, CallInv
<1>5. CASE ReturnStep
  <2>1. call' = NoCall /\ pending' = pending
    BY <1>5, CallReturns, PluginFrame DEF keyVars
  <2>2. StepInv'
    BY <2>1, NoCallIsOne DEF StepInv, Replacing
  <2> QED
    BY <1>5, <2>1, <2>2, CallReturns, NoCallIsOne DEF CallInv
<1>6. CASE Freeze
  <2>1. pending' = pending
    BY <1>6, FreezeMoves, PluginFrame DEF keyVars
  <2>2. call.op # "none"
    BY <1>6, FreezeMoves DEF StepInv
  <2>3. StepInv'
    BY <1>6, <2>2, FreezeMoves DEF SameCall, StepInv, Replacing
  <2> QED
    BY <1>6, <2>1, <2>2, <2>3, FreezeMoves DEF SameCall, CallInv
<1>7. CASE Reencrypt
  <2>1. UNCHANGED <<call, host, pending>>
    BY <1>7, PluginFrame DEF Reencrypt, PluginStep, hostVars, keyVars
  <2> QED
    BY <2>1 DEF CallInv, StepInv
<1>8. CASE ClientStep
  <2>1. UNCHANGED <<call, host, pending>>
    BY <1>8, ClientFrame DEF hostVars, keyVars
  <2> QED
    BY <2>1 DEF CallInv, StepInv
<1>9. CASE Crash
  <2>1. call' = NoCall /\ pending' = pending /\ (host' = "idle" \/ host' = host)
    BY <1>9 DEF Crash, keyVars
  <2> QED
    BY <2>1, NoCallIsOne DEF CallInv, StepInv, Replacing
<1>10. CASE UNCHANGED vars
  BY <1>10 DEF vars, hostVars, keyVars, CallInv, StepInv
<1> QED
  BY <1>1, <1>2, <1>3, <1>4, <1>5, <1>6, <1>7, <1>8, <1>9, <1>10, PluginCases DEF Next,
     HostStep, KeyStep, SendStep, ClientStep

\* A call keeps what it froze, and the writers and readers it drained stay out.
LEMMA FreezeHolds ==
  ASSUME RotationInv, [Next]_vars
  PROVE  FreezeInv'
<1> USE DEF RotationInv
<1>1. CASE KeyStep
  <2>1. UNCHANGED <<call, frozen, readsBlocked, client>>
    BY <1>1, KeyStepFrame DEF freezeVars, clientVars
  <2> QED
    BY <2>1 DEF FreezeInv, Writing, Reading
<1>2. CASE SendStep
  <2>1. UNCHANGED <<frozen, readsBlocked, Writing, Reading>>
    BY <1>2, SendStepSends DEF freezeVars, clientVars, Writing, Reading
  <2>2. call' = call \/ (call.at = "none" /\ call'.at = "begin")
    BY <1>2, SendStepSends, NoCallIsOne
  <2> QED
    BY <2>1, <2>2 DEF FreezeInv, Inside, Alone
<1>3. CASE GiveUp
  <2>1. /\ call'.op = call.op /\ call'.at = call.at
        /\ UNCHANGED <<frozen, readsBlocked, client>>
    BY <1>3 DEF GiveUp, TypeOK, Calls, freezeVars, clientVars
  <2> QED
    BY <2>1 DEF FreezeInv, Writing, Reading
<1>4. CASE MoveStep
  <2>1. Moved /\ UNCHANGED <<frozen, readsBlocked, Writing, Reading>>
    BY <1>4, MovesKeepSteps, MoveFrame, PluginFrame DEF freezeVars, clientVars, Writing, Reading
  <2>2. call.at = "drain" => call.op # "finalize" /\ (call.op = "rollback" \/ Writing = {}) /\ (readsBlocked => Reading = {})
    BY <2>1 DEF Moved, Idle, Op, StepInv
  <2>3. call.at \in Alone \/ call.at = "drain"
    BY <2>1 DEF Moved, Alone, Inside
  <2> QED
    BY <2>1, <2>2, <2>3 DEF Moved, SameCall, FreezeInv, Inside, Alone
<1>5. CASE ReturnStep
  <2>1. call'.at = "none" /\ UNCHANGED <<Writing, Reading>>
    BY <1>5, CallReturns, PluginFrame, NoCallIsOne DEF clientVars, Writing, Reading
  <2>2. frozen' => frozen /\ (call.at = "drain" => call.op = "rollback")
    BY <1>5 DEF ReturnStep, Refuse, DrainCancelled, NothingToResume, CheckFails, End, Op, At, freezeVars, FreezeInv, Inside, Steps
  <2> QED
    BY <2>1, <2>2 DEF FreezeInv, Inside, Alone, Steps, Replacing
<1>6. CASE Freeze
  <2>1. UNCHANGED <<Writing, Reading>>
    BY <1>6, FreezeMoves, PluginFrame DEF clientVars, Writing, Reading
  <2>2. frozen => Writing = {}
    BY <1>6, FreezeMoves DEF FreezeInv
  <2>3. CASE call.op = "finalize" /\ call'.op = "finalize" /\ UNCHANGED freezeVars
    BY <2>1, <2>2, <2>3 DEF FreezeInv, Replacers, freezeVars
  <2>4. CASE /\ call.op # "finalize" /\ call'.op = call.op /\ call'.at = "drain" /\ frozen'
             /\ (readsBlocked' <=> call.op \in Replacers) /\ (call.op = "rollback" => frozen)
    BY <2>1, <2>2, <2>4 DEF FreezeInv, Alone
  <2> QED
    BY <1>6, <2>3, <2>4, FreezeMoves DEF SameCall
<1>7. CASE Reencrypt
  <2>1. UNCHANGED <<call, frozen, readsBlocked, Writing, Reading>>
    BY <1>7, PluginFrame DEF Reencrypt, PluginStep, freezeVars, clientVars, Writing, Reading
  <2> QED
    BY <2>1 DEF FreezeInv
<1>8. CASE ClientStep
  <2>1. UNCHANGED <<call, frozen, readsBlocked>>
    BY <1>8, ClientFrame DEF freezeVars
  <2>2. frozen => Writing' \subseteq Writing
    BY <1>8 DEF ClientStep, ClientEnds, Gate, StartRead, EnterWrite, EnterRefused, Leave, Save, Delete, Write, Writing, TypeOK
  <2>3. frozen /\ readsBlocked => Reading' \subseteq Reading
    BY <1>8 DEF ClientStep, ClientEnds, Gate, StartRead, EnterWrite, EnterRefused, Leave, Save, Delete, Write, Reading, TypeOK
  <2>4. call.op = "finalize" => call.op \notin Replacers
    BY DEF Replacers
  <2>5. call.at \in Alone => call.at \in Inside
    BY DEF Alone, Inside
  <2> QED
    BY <2>1, <2>2, <2>3, <2>4, <2>5 DEF FreezeInv
<1>9. CASE Crash
  <2>1. call'.at = "none" /\ ~frozen'
    BY <1>9, NoCallIsOne DEF Crash
  <2> QED
    BY <2>1 DEF FreezeInv, Inside, Alone, Steps, Replacing
<1>10. CASE UNCHANGED vars
  BY <1>10 DEF vars, freezeVars, clientVars, FreezeInv, Writing, Reading
<1> QED
  BY <1>1, <1>2, <1>3, <1>4, <1>5, <1>6, <1>7, <1>8, <1>9, <1>10, PluginCases DEF Next,
     HostStep, KeyStep, SendStep, ClientStep
-----------------------------------------------------------------------------
\* The steps that touch no file and let nobody in.
QuietStep ==
  \/ KeyStep \/ SendStep \/ GiveUp \/ ReturnStep \/ Freeze \/ Crash \/ UNCHANGED vars
  \/ \E c \in Clients : Gate(c) \/ EnterRefused(c) \/ Leave(c)

Quiet ==
  /\ UNCHANGED <<main, aside, marker, backup>>
  /\ Writing' \subseteq Writing /\ Reading' \subseteq Reading
  /\ \/ /\ call'.op = call.op /\ call'.at = call.at /\ call'.ok = call.ok
        /\ call'.target = call.target /\ call'.active = call.active /\ call'.pending = call.pending
     \/ call'.at \in {"none", "begin", "drain", "recover"}

LEMMA QuietSteps ==
  ASSUME RotationInv, QuietStep
  PROVE  Quiet
<1> USE DEF Quiet, Writing, Reading, fileVars
<1>1. CASE KeyStep
  <2>1. UNCHANGED <<call, fileVars, backup, client>>
    BY <1>1, KeyStepFrame DEF clientVars
  <2> QED
    BY <2>1
<1>2. CASE SendStep
  <2>1. UNCHANGED <<fileVars, backup, client>> /\ (call' = call \/ call'.at = "begin")
    BY <1>2, SendStepSends DEF RotationInv, clientVars
  <2> QED
    BY <2>1
<1>3. CASE GiveUp
  <2>1. /\ call'.op = call.op /\ call'.at = call.at /\ call'.ok = call.ok
        /\ call'.target = call.target /\ call'.active = call.active /\ call'.pending = call.pending
    BY <1>3 DEF RotationInv, GiveUp, TypeOK, Calls
  <2>2. UNCHANGED <<fileVars, backup, client>>
    BY <1>3 DEF GiveUp, clientVars
  <2> QED
    BY <2>1, <2>2
<1>4. CASE ReturnStep
  <2>1. call'.at = "none" /\ UNCHANGED client
    BY <1>4, CallReturns, PluginFrame, NoCallIsOne DEF clientVars
  <2>2. UNCHANGED <<fileVars, backup>>
    BY <1>4 DEF ReturnStep, Refuse, DrainCancelled, NothingToResume, CheckFails, End
  <2> QED
    BY <2>1, <2>2
<1>5. CASE Freeze
  <2>1. UNCHANGED client /\ call'.at \in {"drain", "recover"}
    BY <1>5, FreezeMoves, PluginFrame DEF clientVars
  <2>2. UNCHANGED <<fileVars, backup>>
    BY <1>5 DEF Freeze
  <2> QED
    BY <2>1, <2>2
<1>6. CASE Crash
  <2>1. UNCHANGED <<fileVars, backup>> /\ call'.at = "none"
    BY <1>6, NoCallIsOne DEF Crash
  <2>2. \A c \in Clients : client'[c] = "idle"
    BY <1>6 DEF Crash
  <2> QED
    BY <2>1, <2>2
<1>7. CASE UNCHANGED vars
  BY <1>7 DEF vars, clientVars
<1>8. ASSUME NEW c \in Clients, Gate(c) \/ EnterRefused(c) \/ Leave(c)
      PROVE  Quiet
  BY <1>8 DEF Gate, EnterRefused, Leave, ClientOnly, RotationInv, TypeOK
<1> QED
  BY <1>1, <1>2, <1>3, <1>4, <1>5, <1>6, <1>7, <1>8 DEF QuietStep

\* Every step is a quiet one, a move of the plugin's call, or one of these.
LEMMA StepCases ==
  [Next]_vars => \/ QuietStep \/ MoveStep \/ Reencrypt
                 \/ \E c \in Clients : StartRead(c) \/ EnterWrite(c)
                 \/ \E c \in Clients, r \in Records : Save(c, r) \/ Delete(c, r)
  BY PluginCases DEF Next, HostStep, KeyStep, SendStep, ClientEnds, QuietStep

\* Nobody writes while a call has the history to itself, but beside a finalize that
\* came to a runtime that was not frozen.
LEMMA WritersAreAlone ==
  ASSUME RotationInv, NEW c \in Clients, client[c] = "writing"
  PROVE  /\ ~marker /\ Live.checkpoint = NoCheckpoint
         /\ call.at \in Alone => call.op = "finalize"
         /\ call.at \notin Replacing \cup {"backup", "repair", "note", "batch", "mark aside"}
<1>1. Writing # {}
  BY DEF Writing
<1> QED
  BY <1>1 DEF RotationInv, FreezeInv, FileInv, StoreInv, StepInv, Inside, Alone, Steps, Replacing, Replacers

LEMMA FilesStay ==
  ASSUME FileInv, UNCHANGED <<main, aside, marker, backup>>,
         Writing' \subseteq Writing, Reading' \subseteq Reading, call'.at \notin Replacing,
         call'.at \in {"check", "backup", "repair", "note", "batch", "mark aside", "clear"} => ~marker,
         call'.at \in {"note", "batch", "mark aside"} => backup # NoFile
  PROVE  FileInv'
<1>1. /\ Writing' # {} => ~marker'
      /\ Reading' # {} => ~marker'
  BY DEF FileInv
<1>2. call'.at \in {"check", "backup", "repair", "note", "batch", "mark aside", "clear"} => ~marker'
  OBVIOUS
<1>3. call'.at \in {"note", "batch", "mark aside"} => backup' # NoFile
  OBVIOUS
<1> QED
  BY <1>1, <1>2, <1>3 DEF FileInv, Replacing

\* The database is where each step of a replacement expects it.
LEMMA FilesHold ==
  ASSUME RotationInv, [Next]_vars
  PROVE  FileInv'
<1> USE DEF RotationInv, FileInv
<1>1. CASE QuietStep
  <2>1. Quiet
    BY <1>1, QuietSteps
  <2>2. CASE call'.at \in {"none", "begin", "drain", "recover"}
    BY <2>1, <2>2, FilesStay DEF Quiet, Replacing
  <2>3. CASE call'.at = call.at
    <3>1. /\ Writing' # {} => ~marker'
          /\ Reading' # {} => ~marker'
      BY <2>1 DEF Quiet
    <3> QED
      BY <2>1, <2>3, <3>1 DEF Quiet
  <2> QED
    BY <2>1, <2>2, <2>3 DEF Quiet
<1>2. CASE MoveStep
  <2>1. UNCHANGED <<Writing, Reading>>
    BY <1>2, MoveFrame, PluginFrame DEF clientVars, Writing, Reading
  <2>2. CASE Drained
    <3>1. UNCHANGED <<main, aside, marker, backup>>
      BY <2>2, DrainedStep
    <3>2. call'.at \in {"check", "backup", "repair", "note", "batch", "mark aside", "clear"} => ~marker
      BY <2>2, DrainedStep DEF Replacing
    <3>3. call'.at \in {"note", "batch", "mark aside"} => backup # NoFile
      BY <2>2, DrainedStep
    <3>4. call'.at \notin Replacing
      BY <2>2, DrainedStep DEF Replacing
    <3> QED
      BY <2>1, <3>1, <3>2, <3>3, <3>4, FilesStay
  <2>3. CASE Recover
    BY <2>1, <2>3, RecoverStep, RecoverKeepsLive DEF SameCall, Replacing
  <2>4. CASE CheckPromoted
    <3>1. UNCHANGED <<main, aside, marker, backup>>
      BY <2>4, CheckPromotedStep
    <3>2. call'.at \in {"check", "backup", "repair", "note", "batch", "mark aside", "clear"} => ~marker
      BY <2>4, CheckPromotedStep DEF Replacing
    <3>3. call'.at \in {"note", "batch", "mark aside"} => backup # NoFile
      BY <2>4, CheckPromotedStep
    <3>4. call'.at \notin Replacing
      BY <2>4, CheckPromotedStep DEF Replacing
    <3> QED
      BY <2>1, <3>1, <3>2, <3>3, <3>4, FilesStay
  <2>5. CASE CheckFresh
    <3>1. UNCHANGED <<main, aside, marker, backup>>
      BY <2>5, CheckFreshStep
    <3>2. call'.at \in {"check", "backup", "repair", "note", "batch", "mark aside", "clear"} => ~marker
      BY <2>5, CheckFreshStep DEF Replacing
    <3>3. call'.at \in {"note", "batch", "mark aside"} => backup # NoFile
      BY <2>5, CheckFreshStep
    <3>4. call'.at \notin Replacing
      BY <2>5, CheckFreshStep DEF Replacing
    <3> QED
      BY <2>1, <3>1, <3>2, <3>3, <3>4, FilesStay
  <2>6. CASE CheckAgain
    <3>1. UNCHANGED <<main, aside, marker, backup>>
      BY <2>6, CheckAgainStep
    <3>2. call'.at \in {"check", "backup", "repair", "note", "batch", "mark aside", "clear"} => ~marker
      BY <2>6, CheckAgainStep DEF Replacing
    <3>3. call'.at \in {"note", "batch", "mark aside"} => backup # NoFile
      BY <2>6, CheckAgainStep DEF Valid
    <3>4. call'.at \notin Replacing
      BY <2>6, CheckAgainStep DEF Replacing
    <3> QED
      BY <2>1, <3>1, <3>2, <3>3, <3>4, FilesStay
  <2>7. CASE CheckRollback
    <3>1. UNCHANGED <<main, aside, marker, backup>>
      BY <2>7, CheckRollbackStep
    <3>2. call'.at \in {"check", "backup", "repair", "note", "batch", "mark aside", "clear"} => ~marker
      BY <2>7, CheckRollbackStep DEF Replacing
    <3>3. call'.at \in {"note", "batch", "mark aside"} => backup # NoFile
      BY <2>7, CheckRollbackStep, MainIsThere DEF NoRotation, StoreInv
    <3>4. call'.at \notin Replacing
      BY <2>7, CheckRollbackStep DEF Replacing
    <3> QED
      BY <2>1, <3>1, <3>2, <3>3, <3>4, FilesStay
  <2>8. CASE CheckRepair
    <3>1. UNCHANGED <<main, aside, marker, backup>>
      BY <2>8, CheckRepairStep
    <3>2. call'.at \in {"check", "backup", "repair", "note", "batch", "mark aside", "clear"} => ~marker
      BY <2>8, CheckRepairStep DEF Replacing
    <3>3. call'.at \in {"note", "batch", "mark aside"} => backup # NoFile
      BY <2>8, CheckRepairStep
    <3>4. call'.at \notin Replacing
      BY <2>8, CheckRepairStep DEF Replacing
    <3> QED
      BY <2>1, <3>1, <3>2, <3>3, <3>4, FilesStay
  <2>9. CASE CheckRestore
    <3>1. UNCHANGED <<main, aside, marker, backup>>
      BY <2>9, CheckRestoreStep
    <3>2. call'.at \in {"check", "backup", "repair", "note", "batch", "mark aside", "clear"} => ~marker
      BY <2>9, CheckRestoreStep DEF Replacing
    <3>3. call'.at \in {"note", "batch", "mark aside"} => backup # NoFile
      BY <2>9, CheckRestoreStep
    <3>4. call'.at \notin Replacing
      BY <2>9, CheckRestoreStep DEF Replacing
    <3> QED
      BY <2>1, <3>1, <3>2, <3>3, <3>4, FilesStay
  <2>10. CASE Backup
    <3>1. main # NoFile /\ ~marker
      BY <2>10, BackupStep, MainIsThere, FileParts
    <3>2. call'.at \in {"note", "end"} /\ backup' = main /\ UNCHANGED <<main, aside, marker>>
      BY <2>10, BackupStep
    <3> QED
      BY <2>1, <3>1, <3>2 DEF Replacing
  <2>11. CASE BackupFails
    <3>1. UNCHANGED <<main, aside, marker, backup>>
      BY <2>11, BackupFailsStep
    <3>2. call'.at \in {"check", "backup", "repair", "note", "batch", "mark aside", "clear"} => ~marker
      BY <2>11, BackupFailsStep DEF Replacing
    <3>3. call'.at \in {"note", "batch", "mark aside"} => backup # NoFile
      BY <2>11, BackupFailsStep
    <3>4. call'.at \notin Replacing
      BY <2>11, BackupFailsStep DEF Replacing
    <3> QED
      BY <2>1, <3>1, <3>2, <3>3, <3>4, FilesStay
  <2>12. CASE NoteCheckpoint
    BY <2>1, <2>12, NoteCheckpointStep, CheckpointNoted DEF Edited, SameCall, Replacing
  <2>13. CASE Verify
    BY <2>1, <2>13, VerifyStep, RecordsVerified DEF Edited, SameCall, Replacing
  <2>14. CASE PrepareFails
    <3>1. UNCHANGED <<main, aside, marker, backup>>
      BY <2>14, PrepareFailsStep
    <3>2. call'.at \in {"check", "backup", "repair", "note", "batch", "mark aside", "clear"} => ~marker
      BY <2>14, PrepareFailsStep DEF Replacing
    <3>3. call'.at \in {"note", "batch", "mark aside"} => backup # NoFile
      BY <2>14, PrepareFailsStep, MainIsThere DEF NoRotation, StoreInv
    <3>4. call'.at \notin Replacing
      BY <2>14, PrepareFailsStep DEF Replacing
    <3> QED
      BY <2>1, <3>1, <3>2, <3>3, <3>4, FilesStay
  <2>15. CASE MarkAside
    BY <2>1, <2>15, MarkAsideStep, MainIsThere DEF FreezeInv, StepInv, Inside, Alone,
       Steps, Replacers, SameCall, Replacing
  <2>16. CASE MoveAside
    BY <2>1, <2>16, MoveAsideStep, NoFileAssumption DEF TypeOK, SameCall, Replacing
  <2>17. CASE MoveIn
    <3>1. call.at = "move in" /\ call'.at = "drop aside" /\ main' = backup /\ UNCHANGED <<aside, marker, backup>>
      BY <2>17, MoveInStep
    <3>2. /\ Writing' # {} => ~marker'
          /\ Reading' # {} => ~marker'
      BY <2>1, <3>1
    <3> QED
      BY <3>1, <3>2 DEF Replacing
  <2>18. CASE DropAside
    BY <2>1, <2>18, DropAsideStep DEF TypeOK, SameCall, Replacing
  <2>19. CASE Unmark
    BY <2>1, <2>19, UnmarkStep DEF SameCall, Replacing
  <2>20. CASE ReplaceFails
    BY <2>1, <2>20, ReplaceFailsStep, PutBackKeepsLive DEF SameCall, Replacing
  <2>21. CASE ReplaceBreaks
    <3>1. UNCHANGED <<main, aside, marker, backup>>
      BY <2>21, ReplaceBreaksStep
    <3>2. call'.at \in {"check", "backup", "repair", "note", "batch", "mark aside", "clear"} => ~marker
      BY <2>21, ReplaceBreaksStep DEF Replacing
    <3>3. call'.at \in {"note", "batch", "mark aside"} => backup # NoFile
      BY <2>21, ReplaceBreaksStep
    <3>4. call'.at \notin Replacing
      BY <2>21, ReplaceBreaksStep DEF Replacing
    <3> QED
      BY <2>1, <3>1, <3>2, <3>3, <3>4, FilesStay
  <2>22. CASE Clear
    BY <2>1, <2>22, ClearStep, CheckpointCleared DEF Edited, SameCall, Replacing
  <2>23. CASE ClearFails
    <3>1. UNCHANGED <<main, aside, marker, backup>>
      BY <2>23, ClearFailsStep
    <3>2. call'.at \in {"check", "backup", "repair", "note", "batch", "mark aside", "clear"} => ~marker
      BY <2>23, ClearFailsStep DEF Replacing
    <3>3. call'.at \in {"note", "batch", "mark aside"} => backup # NoFile
      BY <2>23, ClearFailsStep
    <3>4. call'.at \notin Replacing
      BY <2>23, ClearFailsStep DEF Replacing
    <3> QED
      BY <2>1, <3>1, <3>2, <3>3, <3>4, FilesStay
  <2> QED
    BY <1>2, <2>2, <2>3, <2>4, <2>5, <2>6, <2>7, <2>8, <2>9, <2>10, <2>11, <2>12, <2>13,
       <2>14, <2>15, <2>16, <2>17, <2>18, <2>19, <2>20, <2>21, <2>22, <2>23 DEF MoveStep
<1>3. CASE Reencrypt
  <2>1. Edited /\ UNCHANGED <<call, Writing, Reading>> /\ call.at = "batch"
    BY <1>3, RecordsReencrypted, PluginFrame DEF Reencrypt, PluginStep, At, clientVars, Writing, Reading
  <2> QED
    BY <2>1 DEF Edited, Replacing
<1>4. ASSUME NEW c \in Clients, StartRead(c)
      PROVE  FileInv'
  <2>1. call.at \notin Replacing
    BY <1>4 DEF StartRead, FreezeInv, StepInv, Inside, Steps, Replacers, Replacing
  <2>2. RecoverFiles /\ UNCHANGED <<call, backup>>
    BY <1>4 DEF StartRead, ClientOnly
  <2> QED
    BY <2>1, <2>2, RecoverKeepsLive DEF Replacing
<1>5. ASSUME NEW c \in Clients, EnterWrite(c)
      PROVE  FileInv'
  <2>1. call.at \notin Replacing
    BY <1>5 DEF EnterWrite, FreezeInv, StepInv, Inside, Steps, Replacers, Replacing
  <2>2. RecoverFiles /\ UNCHANGED <<call, backup>>
    BY <1>5 DEF EnterWrite, ClientOnly
  <2> QED
    BY <2>1, <2>2, RecoverKeepsLive DEF Replacing
<1>6. ASSUME NEW c \in Clients, NEW r \in Records, Save(c, r)
      PROVE  FileInv'
  <2>1. Edited /\ call.at \notin Replacing /\ UNCHANGED call
    BY <1>6, SaveWrites, WritersAreAlone DEF Save, Write, ClientOnly
  <2> QED
    BY <2>1 DEF Edited, Replacing
<1>7. ASSUME NEW c \in Clients, NEW r \in Records, Delete(c, r)
      PROVE  FileInv'
  <2>1. Edited /\ call.at \notin Replacing /\ UNCHANGED call
    BY <1>7, DeleteWrites, WritersAreAlone DEF Delete, Write, ClientOnly
  <2> QED
    BY <2>1 DEF Edited, Replacing
<1> QED
  BY <1>1, <1>2, <1>3, <1>4, <1>5, <1>6, <1>7, StepCases

\* Steps that leave the records where they are, though perhaps in another file.
LEMMA QuietKeepsLive ==
  ASSUME Quiet
  PROVE  Live' = Live
  BY DEF Quiet, Live

KeepStep ==
  \/ Drained \/ CheckPromoted \/ CheckFresh \/ CheckAgain \/ CheckRollback
  \/ CheckRepair \/ CheckRestore \/ BackupFails \/ PrepareFails \/ ReplaceBreaks
  \/ ClearFails \/ Recover \/ MarkAside \/ MoveAside \/ MoveIn \/ Unmark
  \/ ReplaceFails
LEMMA KeepStepKeepsLive ==
  ASSUME RotationInv, KeepStep
  PROVE  Live' = Live /\ backup' = backup
<1> USE DEF RotationInv
<1>1. CASE Drained
  BY <1>1, DrainedStep DEF Live
<1>2. CASE CheckPromoted
  BY <1>2, CheckPromotedStep DEF Live
<1>3. CASE CheckFresh
  BY <1>3, CheckFreshStep DEF Live
<1>4. CASE CheckAgain
  BY <1>4, CheckAgainStep DEF Live
<1>5. CASE CheckRollback
  BY <1>5, CheckRollbackStep DEF Live
<1>6. CASE CheckRepair
  BY <1>6, CheckRepairStep DEF Live
<1>7. CASE CheckRestore
  BY <1>7, CheckRestoreStep DEF Live
<1>8. CASE BackupFails
  BY <1>8, BackupFailsStep DEF Live
<1>9. CASE PrepareFails
  BY <1>9, PrepareFailsStep DEF Live
<1>10. CASE ReplaceBreaks
  BY <1>10, ReplaceBreaksStep DEF Live
<1>11. CASE ClearFails
  BY <1>11, ClearFailsStep DEF Live
<1>12. CASE Recover
  BY <1>12, RecoverStep, RecoverKeepsLive
<1>13. CASE MarkAside
  BY <1>13, MarkAsideStep DEF Live
<1>14. CASE MoveAside
  BY <1>14, MoveAsideStep, NoFileAssumption DEF Live, FileInv, TypeOK
<1>15. CASE MoveIn
  BY <1>15, MoveInStep, NoFileAssumption DEF Live, FileInv, TypeOK
<1>16. CASE Unmark
  BY <1>16, UnmarkStep DEF Live
<1>17. CASE ReplaceFails
  BY <1>17, ReplaceFailsStep, PutBackKeepsLive
<1> QED
  BY <1>1, <1>2, <1>3, <1>4, <1>5, <1>6, <1>7, <1>8, <1>9, <1>10, <1>11, <1>12, <1>13,
     <1>14, <1>15, <1>16, <1>17 DEF KeepStep

\* Files that hold keys of the same records hold the same records.
LEMMA SameRecords ==
  ASSUME NEW f \in Files, NEW g \in Files, \A r \in Records : f.key[r] = 0 <=> g.key[r] = 0
  PROVE  Ids(f) = Ids(g)
  BY FileParts DEF Ids

\* A call that may replace the file has no writer beside it once it drained.
LEMMA NobodyWrites ==
  ASSUME RotationInv, call.at \in Alone, call.op \in Replacers
  PROVE  Writing = {}
  BY DEF RotationInv, FreezeInv, Alone, Inside, Replacers

LEMMA StoreStays ==
  ASSUME StoreInv, Live' = Live, backup' = backup, Writing' # {} => Live.checkpoint = NoCheckpoint,
         call'.op \in {"prepare", "rollback"}
           /\ call'.at \in Replacing \cup {"note", "batch", "mark aside"} => Ids(backup) = Ids(Live)
  PROVE  StoreInv'
  BY DEF StoreInv

\* What an undo would bring back stays what there is.
LEMMA StoreHolds ==
  ASSUME RotationInv, [Next]_vars
  PROVE  StoreInv'
<1> USE DEF RotationInv
<1>1. CASE QuietStep
  <2>1. Quiet /\ Live' = Live
    BY <1>1, QuietSteps, QuietKeepsLive
  <2>2. Writing' # {} => Live.checkpoint = NoCheckpoint
    BY <2>1 DEF Quiet, StoreInv
  <2>3. CASE call'.at \in {"none", "begin", "drain", "recover"}
    BY <2>1, <2>2, <2>3, StoreStays DEF Quiet, Replacing
  <2>4. CASE call'.at = call.at /\ call'.op = call.op
    BY <2>1, <2>2, <2>4 DEF Quiet, StoreInv
  <2> QED
    BY <2>1, <2>3, <2>4 DEF Quiet
<1>2. CASE MoveStep
  <2>1. UNCHANGED <<Writing, Reading>>
    BY <1>2, MoveFrame, PluginFrame DEF clientVars, Writing, Reading
  <2>2. CASE Drained
    <3>1. Live' = Live /\ backup' = backup
      BY <2>2, KeepStepKeepsLive DEF KeepStep
    <3>2. call'.op \in {"prepare", "rollback"}
            /\ call'.at \in Replacing \cup {"note", "batch", "mark aside"} => Ids(backup) = Ids(Live)
      BY <2>2, DrainedStep DEF StoreInv, SameCall, Replacing
    <3> QED
      BY <2>1, <3>1, <3>2, StoreStays DEF StoreInv
  <2>3. CASE Recover
    <3>1. Live' = Live /\ backup' = backup
      BY <2>3, KeepStepKeepsLive DEF KeepStep
    <3>2. call'.op \in {"prepare", "rollback"}
            /\ call'.at \in Replacing \cup {"note", "batch", "mark aside"} => Ids(backup) = Ids(Live)
      BY <2>3, RecoverStep DEF StoreInv, SameCall, Replacing
    <3> QED
      BY <2>1, <3>1, <3>2, StoreStays DEF StoreInv
  <2>4. CASE CheckPromoted
    <3>1. Live' = Live /\ backup' = backup
      BY <2>4, KeepStepKeepsLive DEF KeepStep
    <3>2. call'.op \in {"prepare", "rollback"}
            /\ call'.at \in Replacing \cup {"note", "batch", "mark aside"} => Ids(backup) = Ids(Live)
      BY <2>4, CheckPromotedStep DEF StoreInv, SameCall, Replacing
    <3> QED
      BY <2>1, <3>1, <3>2, StoreStays DEF StoreInv
  <2>5. CASE CheckFresh
    <3>1. Live' = Live /\ backup' = backup
      BY <2>5, KeepStepKeepsLive DEF KeepStep
    <3>2. call'.op \in {"prepare", "rollback"}
            /\ call'.at \in Replacing \cup {"note", "batch", "mark aside"} => Ids(backup) = Ids(Live)
      BY <2>5, CheckFreshStep DEF StoreInv, SameCall, Replacing
    <3> QED
      BY <2>1, <3>1, <3>2, StoreStays DEF StoreInv
  <2>6. CASE CheckAgain
    <3>1. Live' = Live /\ backup' = backup
      BY <2>6, KeepStepKeepsLive DEF KeepStep
    <3>2. call'.op \in {"prepare", "rollback"}
            /\ call'.at \in Replacing \cup {"note", "batch", "mark aside"} => Ids(backup) = Ids(Live)
      BY <2>6, MainIsThere, CheckAgainStep DEF NoRotation, FileInv, StoreInv
    <3> QED
      BY <2>1, <3>1, <3>2, StoreStays DEF StoreInv
  <2>7. CASE CheckRollback
    <3>1. Live' = Live /\ backup' = backup
      BY <2>7, KeepStepKeepsLive DEF KeepStep
    <3>2. call'.op \in {"prepare", "rollback"}
            /\ call'.at \in Replacing \cup {"note", "batch", "mark aside"} => Ids(backup) = Ids(Live)
      BY <2>7, MainIsThere, CheckRollbackStep DEF NoRotation, FileInv, StoreInv
    <3> QED
      BY <2>1, <3>1, <3>2, StoreStays DEF StoreInv
  <2>8. CASE CheckRepair
    <3>1. Live' = Live /\ backup' = backup
      BY <2>8, KeepStepKeepsLive DEF KeepStep
    <3>2. call'.op \in {"prepare", "rollback"}
            /\ call'.at \in Replacing \cup {"note", "batch", "mark aside"} => Ids(backup) = Ids(Live)
      BY <2>8, CheckRepairStep DEF StoreInv, SameCall, Replacing
    <3> QED
      BY <2>1, <3>1, <3>2, StoreStays DEF StoreInv
  <2>9. CASE CheckRestore
    <3>1. Live' = Live /\ backup' = backup
      BY <2>9, KeepStepKeepsLive DEF KeepStep
    <3>2. call'.op \in {"prepare", "rollback"}
            /\ call'.at \in Replacing \cup {"note", "batch", "mark aside"} => Ids(backup) = Ids(Live)
      BY <2>9, CheckRestoreStep DEF StoreInv, SameCall, Replacing
    <3> QED
      BY <2>1, <3>1, <3>2, StoreStays DEF StoreInv
  <2>10. CASE Backup
    <3>1. Live' = Live /\ Live = main /\ backup' = main /\ main # NoFile /\ main.checkpoint = NoCheckpoint
      BY <2>10, BackupStep, MainIsThere, FileParts DEF FileInv, CheckpointInv, Live
    <3> QED
      BY <3>1 DEF StoreInv
  <2>11. CASE BackupFails
    <3>1. Live' = Live /\ backup' = backup
      BY <2>11, KeepStepKeepsLive DEF KeepStep
    <3>2. call'.op \in {"prepare", "rollback"}
            /\ call'.at \in Replacing \cup {"note", "batch", "mark aside"} => Ids(backup) = Ids(Live)
      BY <2>11, BackupFailsStep DEF StoreInv, SameCall, Replacing
    <3> QED
      BY <2>1, <3>1, <3>2, StoreStays DEF StoreInv
  <2>12. CASE NoteCheckpoint
    <3>1. Edited /\ main'.key = main.key /\ call.at = "note" /\ call.op = "prepare" /\ UNCHANGED Writing
      BY <2>1, <2>12, NoteCheckpointStep, CheckpointNoted DEF StepInv
    <3>2. Ids(Live') = Ids(Live) /\ backup' = backup /\ backup # NoFile
      BY <3>1, SameRecords DEF Edited, FileInv
    <3>3. Ids(backup) = Ids(Live) /\ Writing' = {}
      BY <3>1, NobodyWrites DEF StoreInv, Alone, Steps, Replacers
    <3> QED
      BY <3>2, <3>3 DEF StoreInv
  <2>13. CASE Verify
    <3>1. Edited /\ main'.key = main.key /\ call.at = "batch" /\ call.op = "prepare" /\ UNCHANGED Writing
      BY <2>1, <2>13, VerifyStep, RecordsVerified DEF StepInv
    <3>2. Ids(Live') = Ids(Live) /\ backup' = backup /\ backup # NoFile
      BY <3>1, SameRecords DEF Edited, FileInv
    <3>3. Ids(backup) = Ids(Live) /\ Writing' = {}
      BY <3>1, NobodyWrites DEF StoreInv, Alone, Steps, Replacers
    <3> QED
      BY <3>2, <3>3 DEF StoreInv
  <2>14. CASE PrepareFails
    <3>1. Live' = Live /\ backup' = backup
      BY <2>14, KeepStepKeepsLive DEF KeepStep
    <3>2. call'.op \in {"prepare", "rollback"}
            /\ call'.at \in Replacing \cup {"note", "batch", "mark aside"} => Ids(backup) = Ids(Live)
      <4>1. CASE call.at = "check" /\ ~NoRotation
        BY <4>1, MainIsThere DEF NoRotation, FileInv, StoreInv
      <4>2. CASE call.at \in {"note", "batch"}
        BY <4>2 DEF StoreInv, StepInv
      <4> QED
        BY <2>14, <4>1, <4>2, PrepareFailsStep
    <3> QED
      BY <2>1, <3>1, <3>2, StoreStays DEF StoreInv
  <2>15. CASE MarkAside
    <3>1. Live' = Live /\ backup' = backup
      BY <2>15, KeepStepKeepsLive DEF KeepStep
    <3>2. call'.op \in {"prepare", "rollback"}
            /\ call'.at \in Replacing \cup {"note", "batch", "mark aside"} => Ids(backup) = Ids(Live)
      BY <2>15, MarkAsideStep DEF StoreInv, SameCall, Replacing
    <3> QED
      BY <2>1, <3>1, <3>2, StoreStays DEF StoreInv
  <2>16. CASE MoveAside
    <3>1. Live' = Live /\ backup' = backup
      BY <2>16, KeepStepKeepsLive DEF KeepStep
    <3>2. call'.op \in {"prepare", "rollback"}
            /\ call'.at \in Replacing \cup {"note", "batch", "mark aside"} => Ids(backup) = Ids(Live)
      BY <2>16, MoveAsideStep DEF StoreInv, SameCall, Replacing
    <3> QED
      BY <2>1, <3>1, <3>2, StoreStays DEF StoreInv
  <2>17. CASE MoveIn
    <3>1. Live' = Live /\ backup' = backup
      BY <2>17, KeepStepKeepsLive DEF KeepStep
    <3>2. call'.op \in {"prepare", "rollback"}
            /\ call'.at \in Replacing \cup {"note", "batch", "mark aside"} => Ids(backup) = Ids(Live)
      BY <2>17, MoveInStep DEF StoreInv, SameCall, Replacing
    <3> QED
      BY <2>1, <3>1, <3>2, StoreStays DEF StoreInv
  <2>18. CASE DropAside
    <3>1. Live' = backup /\ backup' = backup /\ backup # NoFile
      BY <2>18, DropAsideStep DEF FileInv, Replacing, Live
    <3>2. backup.checkpoint = NoCheckpoint
      BY <3>1 DEF CheckpointInv
    <3> QED
      BY <3>1, <3>2 DEF StoreInv
  <2>19. CASE Unmark
    <3>1. Live' = Live /\ backup' = backup
      BY <2>19, KeepStepKeepsLive DEF KeepStep
    <3>2. call'.op \in {"prepare", "rollback"}
            /\ call'.at \in Replacing \cup {"note", "batch", "mark aside"} => Ids(backup) = Ids(Live)
      BY <2>19, UnmarkStep DEF StoreInv, SameCall, Replacing
    <3> QED
      BY <2>1, <3>1, <3>2, StoreStays DEF StoreInv
  <2>20. CASE ReplaceFails
    <3>1. Live' = Live /\ backup' = backup
      BY <2>20, KeepStepKeepsLive DEF KeepStep
    <3>2. call'.op \in {"prepare", "rollback"}
            /\ call'.at \in Replacing \cup {"note", "batch", "mark aside"} => Ids(backup) = Ids(Live)
      BY <2>20, ReplaceFailsStep DEF StoreInv, SameCall, Replacing
    <3> QED
      BY <2>1, <3>1, <3>2, StoreStays DEF StoreInv
  <2>21. CASE ReplaceBreaks
    <3>1. Live' = Live /\ backup' = backup
      BY <2>21, KeepStepKeepsLive DEF KeepStep
    <3>2. call'.op \in {"prepare", "rollback"}
            /\ call'.at \in Replacing \cup {"note", "batch", "mark aside"} => Ids(backup) = Ids(Live)
      BY <2>21, ReplaceBreaksStep DEF StoreInv, SameCall, Replacing
    <3> QED
      BY <2>1, <3>1, <3>2, StoreStays DEF StoreInv
  <2>22. CASE Clear
    <3>1. Live'.checkpoint = NoCheckpoint /\ call'.at = "end"
      BY <2>22, ClearStep, CheckpointCleared DEF Edited
    <3> QED
      BY <3>1 DEF StoreInv, Replacing
  <2>23. CASE ClearFails
    <3>1. Live' = Live /\ backup' = backup
      BY <2>23, KeepStepKeepsLive DEF KeepStep
    <3>2. call'.op \in {"prepare", "rollback"}
            /\ call'.at \in Replacing \cup {"note", "batch", "mark aside"} => Ids(backup) = Ids(Live)
      BY <2>23, ClearFailsStep DEF StoreInv, SameCall, Replacing
    <3> QED
      BY <2>1, <3>1, <3>2, StoreStays DEF StoreInv
  <2> QED
    BY <1>2, <2>2, <2>3, <2>4, <2>5, <2>6, <2>7, <2>8, <2>9, <2>10, <2>11, <2>12, <2>13,
       <2>14, <2>15, <2>16, <2>17, <2>18, <2>19, <2>20, <2>21, <2>22, <2>23 DEF MoveStep
<1>3. CASE Reencrypt
  <2>1. Edited /\ UNCHANGED <<call, Writing>> /\ call.at = "batch" /\ call.op = "prepare"
    BY <1>3, RecordsReencrypted, PluginFrame DEF Reencrypt, PluginStep, At, clientVars, Writing, StepInv
  <2>2. call.target # 0
    BY <2>1 DEF CallInv
  <2>3. Ids(Live') = Ids(Live) /\ Live'.checkpoint = Live.checkpoint
    BY <1>3, <2>1, <2>2, RecordsReencrypted, SameRecords DEF Edited
  <2> QED
    BY <2>1, <2>3 DEF StoreInv, Edited
<1>4. ASSUME NEW c \in Clients, StartRead(c)
      PROVE  StoreInv'
  <2>1. RecoverFiles /\ UNCHANGED <<call, backup>> /\ Writing' \subseteq Writing
    BY <1>4 DEF StartRead, ClientOnly, Writing, TypeOK
  <2>2. Live' = Live
    BY <2>1, RecoverKeepsLive
  <2> QED
    BY <2>1, <2>2 DEF StoreInv
<1>5. ASSUME NEW c \in Clients, EnterWrite(c)
      PROVE  StoreInv'
  <2>1. RecoverFiles /\ UNCHANGED <<call, backup>> /\ (Writing' # {} => Writing # {} \/ Live.checkpoint = NoCheckpoint)
    BY <1>5 DEF EnterWrite, ClientOnly, Writing, TypeOK
  <2>2. Live' = Live
    BY <2>1, RecoverKeepsLive
  <2> QED
    BY <2>1, <2>2 DEF StoreInv
<1>6. ASSUME NEW c \in Clients, NEW r \in Records, Save(c, r)
      PROVE  StoreInv'
  <2>1. Edited /\ UNCHANGED call /\ main'.checkpoint = main.checkpoint
    BY <1>6, SaveWrites DEF Save, Write, ClientOnly
  <2>2. main'.checkpoint = NoCheckpoint /\ call.at \notin Replacing \cup {"note", "batch", "mark aside"}
    BY <1>6, <2>1, SaveWrites, WritersAreAlone DEF Edited
  <2> QED
    BY <2>1, <2>2 DEF StoreInv, Edited
<1>7. ASSUME NEW c \in Clients, NEW r \in Records, Delete(c, r)
      PROVE  StoreInv'
  <2>1. Edited /\ UNCHANGED call /\ main'.checkpoint = main.checkpoint
    BY <1>7, DeleteWrites DEF Delete, Write, ClientOnly
  <2>2. main'.checkpoint = NoCheckpoint /\ call.at \notin Replacing \cup {"note", "batch", "mark aside"}
    BY <1>7, <2>1, DeleteWrites, WritersAreAlone DEF Edited
  <2> QED
    BY <2>1, <2>2 DEF StoreInv, Edited
<1> QED
  BY <1>1, <1>2, <1>3, <1>4, <1>5, <1>6, <1>7, StepCases

LEMMA CheckpointStays ==
  ASSUME CheckpointInv, UNCHANGED <<main, aside, backup>>,
         call'.at \in {"backup", "note", "repair"} => main.checkpoint = NoCheckpoint,
         call'.at = "batch" => main.checkpoint.target = call'.target,
         call'.at = "clear" => \/ call'.op \in {"finalize", "resume"} /\ Promoted'
                               \/ Live.checkpoint = NoCheckpoint,
         call'.at = "end" /\ call'.ok => call'.op \notin {"prepare", "rollback"}
  PROVE  CheckpointInv'
<1>1. Live' = Live
  BY DEF Live
<1> QED
  BY <1>1 DEF CheckpointInv

\* Each step of a rotation has the checkpoint it expects in front of it.
LEMMA CheckpointHolds ==
  ASSUME RotationInv, [Next]_vars
  PROVE  CheckpointInv'
<1> USE DEF RotationInv
<1>1. CASE QuietStep
  <2>1. Quiet
    BY <1>1, QuietSteps
  <2>2. CASE call'.at \in {"none", "begin", "drain", "recover"}
    BY <2>1, <2>2, CheckpointStays DEF Quiet
  <2>3. CASE /\ call'.op = call.op /\ call'.at = call.at /\ call'.ok = call.ok
             /\ call'.target = call.target /\ call'.active = call.active /\ call'.pending = call.pending
    <3>1. UNCHANGED <<main, aside, backup, Live>>
      BY <2>1 DEF Quiet, Live
    <3> QED
      BY <2>3, <3>1 DEF CheckpointInv, Promoted
  <2> QED
    BY <2>1, <2>2, <2>3 DEF Quiet
<1>2. CASE MoveStep
  <2>1. UNCHANGED <<Writing, Reading>>
    BY <1>2, MoveFrame, PluginFrame DEF clientVars, Writing, Reading
  <2>2. CASE Drained
    BY <2>2, DrainedStep, CheckpointStays
  <2>3. CASE Recover
    <3>1. aside' = NoFile /\ backup' = backup /\ call'.at = "check"
      BY <2>3, RecoverStep, RecoverKeepsLive
    <3> QED
      BY <3>1 DEF CheckpointInv
  <2>4. CASE CheckPromoted
    <3>1. Promoted'
      BY <2>4, CheckPromotedStep DEF Promoted, SameCall
    <3> QED
      BY <2>4, <3>1, CheckPromotedStep, CheckpointStays DEF SameCall
  <2>5. CASE CheckFresh
    <3>1. main.checkpoint = NoCheckpoint
      BY <2>5, CheckFreshStep DEF NoRotation
    <3> QED
      BY <2>5, <3>1, CheckFreshStep, CheckpointStays DEF SameCall
  <2>6. CASE CheckAgain
    <3>1. main.checkpoint.target = call'.target
      BY <2>6, CheckAgainStep DEF Valid, SameCall
    <3> QED
      BY <2>6, <3>1, CheckAgainStep, CheckpointStays DEF SameCall
  <2>7. CASE CheckRollback
    BY <2>7, CheckRollbackStep, CheckpointStays
  <2>8. CASE CheckRepair
    <3>1. main.checkpoint = NoCheckpoint
      BY <2>8, CheckRepairStep DEF NoRotation
    <3> QED
      BY <2>8, <3>1, CheckRepairStep, CheckpointStays DEF SameCall
  <2>9. CASE CheckRestore
    BY <2>9, CheckRestoreStep, CheckpointStays
  <2>10. CASE Backup
    <3>1. main.checkpoint = NoCheckpoint /\ aside = NoFile
      BY <2>10, BackupStep, MainIsThere DEF FileInv, CheckpointInv
    <3>2. backup' = main /\ UNCHANGED <<main, aside>>
      BY <2>10, BackupStep
    <3>3. call'.at = "note" \/ (call'.at = "end" /\ call'.op = "repair")
      BY <2>10, BackupStep DEF StepInv, SameCall
    <3> QED
      BY <3>1, <3>2, <3>3 DEF CheckpointInv
  <2>11. CASE BackupFails
    <3>1. Live.checkpoint = NoCheckpoint
      BY <2>11, BackupFailsStep, MainIsThere DEF FileInv, CheckpointInv
    <3> QED
      BY <2>11, <3>1, BackupFailsStep, CheckpointStays DEF SameCall
  <2>12. CASE NoteCheckpoint
    <3>1. Edited /\ main'.checkpoint.target = call'.target /\ call'.at = "batch"
      BY <2>12, CheckpointNoted, NoteCheckpointStep DEF SameCall
    <3> QED
      BY <3>1 DEF CheckpointInv, Edited
  <2>13. CASE Verify
    <3>1. Edited /\ main'.checkpoint.verified /\ main'.checkpoint.target = call'.target
      BY <2>13, RecordsVerified, VerifyStep DEF SameCall, CheckpointInv
    <3>2. call'.at = "end" /\ call'.op = "prepare"
      BY <2>13, VerifyStep DEF SameCall, StepInv
    <3> QED
      BY <3>1, <3>2 DEF CheckpointInv, Edited
  <2>14. CASE PrepareFails
    BY <2>14, PrepareFailsStep, CheckpointStays
  <2>15. CASE MarkAside
    BY <2>15, MarkAsideStep, CheckpointStays
  <2>16. CASE MoveAside
    <3>1. main' = NoFile /\ backup' = backup /\ call'.at = "move in"
      BY <2>16, MoveAsideStep
    <3> QED
      BY <3>1 DEF CheckpointInv
  <2>17. CASE MoveIn
    <3>1. main' = backup /\ backup' = backup /\ call'.at = "drop aside"
      BY <2>17, MoveInStep
    <3> QED
      BY <3>1 DEF CheckpointInv
  <2>18. CASE DropAside
    <3>1. aside' = NoFile /\ backup' = backup /\ call'.at = "unmark"
      BY <2>18, DropAsideStep
    <3> QED
      BY <3>1 DEF CheckpointInv
  <2>19. CASE Unmark
    <3>1. /\ call.at = "unmark" /\ UNCHANGED <<main, aside, backup>>
          /\ call'.op = call.op /\ call'.at = IF call.op = "restore" THEN "end" ELSE "clear"
      BY <2>19, UnmarkStep DEF SameCall
    <3>2. Live = backup /\ backup # NoFile
      BY <3>1 DEF FileInv, Live, Replacing
    <3>3. Live.checkpoint = NoCheckpoint
      BY <3>2 DEF CheckpointInv
    <3> QED
      BY <3>1, <3>3, CheckpointStays
  <2>20. CASE ReplaceFails
    <3>1. aside' = NoFile /\ backup' = backup /\ call'.at = "end" /\ ~call'.ok
      BY <2>20, ReplaceFailsStep, PutBackKeepsLive
    <3> QED
      BY <3>1 DEF CheckpointInv
  <2>21. CASE ReplaceBreaks
    BY <2>21, ReplaceBreaksStep, CheckpointStays
  <2>22. CASE Clear
    <3>1. Edited /\ main'.checkpoint = NoCheckpoint /\ call.at = "clear" /\ call'.at = "end"
      BY <2>22, CheckpointCleared, ClearStep
    <3>2. call'.op = "prepare" => ~call'.ok
      BY <2>22, ClearStep DEF StepInv, SameCall
    <3> QED
      BY <3>1, <3>2 DEF CheckpointInv, Edited
  <2>23. CASE ClearFails
    BY <2>23, ClearFailsStep, CheckpointStays
  <2> QED
    BY <1>2, <2>2, <2>3, <2>4, <2>5, <2>6, <2>7, <2>8, <2>9, <2>10, <2>11, <2>12, <2>13,
       <2>14, <2>15, <2>16, <2>17, <2>18, <2>19, <2>20, <2>21, <2>22, <2>23 DEF MoveStep
<1>3. CASE Reencrypt
  <2>1. Edited /\ UNCHANGED call /\ main'.checkpoint = main.checkpoint
    BY <1>3, RecordsReencrypted DEF Reencrypt
  <2> QED
    BY <2>1 DEF CheckpointInv, Promoted, Edited
<1>4. ASSUME NEW c \in Clients, StartRead(c)
      PROVE  CheckpointInv'
  <2>1. UNCHANGED <<call, backup>> /\ RecoverFiles
    BY <1>4 DEF StartRead, ClientOnly
  <2>2. CASE marker
    <3>1. call.at \notin {"backup", "note", "repair", "batch", "clear"}
      BY <2>2 DEF FileInv
    <3>2. aside' = NoFile /\ Live' = Live
      BY <2>1, RecoverKeepsLive
    <3> QED
      BY <2>1, <3>1, <3>2 DEF CheckpointInv
  <2>3. CASE ~marker
    <3>1. UNCHANGED <<main, aside, Live>>
      BY <2>1, <2>3 DEF RecoverFiles, fileVars, Live
    <3> QED
      BY <2>1, <3>1 DEF CheckpointInv, Promoted
  <2> QED
    BY <2>2, <2>3
<1>5. ASSUME NEW c \in Clients, EnterWrite(c)
      PROVE  CheckpointInv'
  <2>1. UNCHANGED <<call, backup>> /\ RecoverFiles
    BY <1>5 DEF EnterWrite, ClientOnly
  <2>2. CASE marker
    <3>1. call.at \notin {"backup", "note", "repair", "batch", "clear"}
      BY <2>2 DEF FileInv
    <3>2. aside' = NoFile /\ Live' = Live
      BY <2>1, RecoverKeepsLive
    <3> QED
      BY <2>1, <3>1, <3>2 DEF CheckpointInv
  <2>3. CASE ~marker
    <3>1. UNCHANGED <<main, aside, Live>>
      BY <2>1, <2>3 DEF RecoverFiles, fileVars, Live
    <3> QED
      BY <2>1, <3>1 DEF CheckpointInv, Promoted
  <2> QED
    BY <2>2, <2>3
<1>6. ASSUME NEW c \in Clients, NEW r \in Records, Save(c, r)
      PROVE  CheckpointInv'
  <2>1. Edited /\ UNCHANGED call /\ main'.checkpoint = main.checkpoint
    BY <1>6, SaveWrites DEF Save, Write, ClientOnly
  <2> QED
    BY <2>1 DEF CheckpointInv, Promoted, Edited
<1>7. ASSUME NEW c \in Clients, NEW r \in Records, Delete(c, r)
      PROVE  CheckpointInv'
  <2>1. Edited /\ UNCHANGED call /\ main'.checkpoint = main.checkpoint
    BY <1>7, DeleteWrites DEF Delete, Write, ClientOnly
  <2> QED
    BY <2>1 DEF CheckpointInv, Promoted, Edited
<1> QED
  BY <1>1, <1>2, <1>3, <1>4, <1>5, <1>6, <1>7, StepCases

\* What the host waits to act on does not change meanwhile.
LEMMA HostHolds ==
  ASSUME RotationInv, [Next]_vars
  PROVE  HostInv'
<1> USE DEF RotationInv
<1>1. CASE KeyStep
  <2>1. Live' = Live
    BY <1>1, KeyStepFrame DEF fileVars, Live
  <2>2. host' = "undo" => host = "promote" /\ pending' = pending
    BY <1>1 DEF KeyStep, SkipResume, BeginRotation, BeginRotationFails, Promote,
       PromoteFails, RollbackLost, KeyRollback, KeyRollbackFails, keyVars
  <2>3. host' \in {"begin", "send", "promoted", "undo", "idle"}
    BY <1>1 DEF KeyStep, SkipResume, BeginRotation, BeginRotationFails, Promote,
       PromoteFails, RollbackLost, KeyRollback, KeyRollbackFails
  <2> QED
    BY <2>1, <2>2, <2>3 DEF HostInv
<1>2. CASE SendStep
  <2>1. host' = "idle" \/ host' \in Operations
    BY <1>2, SendStepSends
  <2> QED
    BY <2>1 DEF HostInv, Operations, Rotations, Maintenance
<1>3. CASE GiveUp
  BY <1>3 DEF GiveUp, HostInv
<1>4. CASE MoveStep
  <2>1. host' = host /\ call.op # "none"
    BY <1>4, MovesKeepSteps DEF Moved, SameCall
  <2> QED
    BY <2>1 DEF HostInv, CallInv
<1>5. CASE ReturnStep
  <2>1. pending' = pending
    BY <1>5, CallReturns, PluginFrame DEF keyVars
  <2>2. Live' = Live
    BY <1>5 DEF ReturnStep, Refuse, DrainCancelled, NothingToResume, CheckFails, End, fileVars, Live
  <2>3. CASE host' \in {host, "idle", "begin"}
    BY <2>1, <2>2, <2>3 DEF HostInv
  <2>4. CASE call.at = "end" /\ call.ok /\ call.op = "prepare" /\ host' = "promote"
    BY <2>1, <2>2, <2>4 DEF HostInv, CheckpointInv, CallInv
  <2>5. CASE call.at = "end" /\ call.ok /\ call.op = "rollback" /\ host' = "keyRollback"
    BY <2>1, <2>2, <2>5 DEF HostInv, CheckpointInv
  <2> QED
    BY <1>5, <2>3, <2>4, <2>5, CallReturns
<1>6. CASE Freeze
  <2>1. host' = host /\ call.op # "none"
    BY <1>6, FreezeMoves DEF SameCall, StepInv
  <2> QED
    BY <2>1 DEF HostInv, CallInv
<1>7. CASE Reencrypt
  <2>1. host' = host /\ call.op # "none"
    BY <1>7 DEF Reencrypt, At, StepInv, hostVars
  <2> QED
    BY <2>1 DEF HostInv, CallInv
<1>8. CASE ClientStep
  <2>1. UNCHANGED <<host, pending>>
    BY <1>8, ClientFrame DEF hostVars, keyVars
  <2>2. Live'.checkpoint = Live.checkpoint
    BY <1>8, RecoverKeepsLive, SaveWrites, DeleteWrites DEF ClientStep, ClientEnds, Gate, StartRead,
       EnterWrite, EnterRefused, Leave, fileVars, Live, Edited
  <2> QED
    BY <2>1, <2>2 DEF HostInv
<1>9. CASE Crash
  <2>1. pending' = pending /\ Live' = Live /\ host' \in {"idle", host}
    BY <1>9 DEF Crash, keyVars, fileVars, Live
  <2> QED
    BY <2>1 DEF HostInv
<1>10. CASE UNCHANGED vars
  <2>1. UNCHANGED <<host, pending, Live>>
    BY <1>10 DEF vars, hostVars, keyVars, fileVars, Live
  <2> QED
    BY <2>1 DEF HostInv
<1> QED
  BY <1>1, <1>2, <1>3, <1>4, <1>5, <1>6, <1>7, <1>8, <1>9, <1>10, PluginCases DEF Next,
     HostStep, KeyStep, SendStep, ClientStep

\* The keys stay in use: the active version only grows, and a key that a checkpoint
\* may need is not dropped.
LEMMA KeyringStays ==
  ASSUME RotationInv, [Next]_vars
  PROVE  /\ active \in Versions /\ active' \in Versions /\ active <= active'
         /\ Live.checkpoint # NoCheckpoint /\ Live.checkpoint.target \in Keyring =>
              Live.checkpoint.target \in Keyring'
<1>1. TypeOK /\ TypeOK'
  BY TypesHold DEF RotationInv
<1>2. CASE UNCHANGED <<active, pending>>
  BY <1>1, <1>2 DEF TypeOK, Versions, Keyring
<1>3. CASE SkipResume \/ BeginRotation \/ BeginRotationFails \/ PromoteFails \/ RollbackLost
             \/ KeyRollbackFails
  <2>1. active' = active /\ (pending = 0 \/ pending' = pending)
    BY <1>1, <1>3 DEF SkipResume, BeginRotation, BeginRotationFails, PromoteFails, RollbackLost,
       KeyRollbackFails, keyVars, NewKey
  <2> QED
    BY <1>1, <2>1 DEF TypeOK, Versions, Keyring
<1>4. CASE Promote
  <2>1. pending # 0 /\ active' = pending
    BY <1>4 DEF Promote, RotationInv, CallInv
  <2>2. active < pending /\ active \in Nat /\ pending \in Nat
    BY <1>1, <2>1 DEF TypeOK, Versions
  <2>3. 1..active \subseteq 1..active' /\ pending \in 1..active'
    BY <2>1, <2>2
  <2> QED
    BY <1>1, <2>1, <2>2, <2>3 DEF TypeOK, Keyring
<1>5. CASE KeyRollback
  <2>1. Live.checkpoint = NoCheckpoint /\ active' = active
    BY <1>5 DEF KeyRollback, RotationInv, HostInv
  <2> QED
    BY <1>1, <2>1 DEF TypeOK, Versions
<1>6. KeyStep \/ UNCHANGED <<active, pending>>
  <2>1. CASE SendStep
    BY <2>1, SendStepSends DEF RotationInv, keyVars
  <2>2. CASE PluginStep
    BY <2>2, PluginFrame DEF keyVars
  <2>3. CASE ClientStep
    BY <2>3, ClientFrame DEF keyVars
  <2>4. CASE GiveUp \/ Crash \/ UNCHANGED vars
    BY <2>4 DEF GiveUp, Crash, vars, keyVars
  <2> QED
    BY <2>1, <2>2, <2>3, <2>4 DEF Next, HostStep, KeyStep, SendStep, ClientStep
<1> QED
  BY <1>2, <1>3, <1>4, <1>5, <1>6 DEF KeyStep

\* Only the registry's gate takes a snapshot, only the host sends a version.
LEMMA SnapshotFrame ==
  ASSUME RotationInv, [Next]_vars
  PROVE  \/ UNCHANGED snapshot /\ call'.active \in {call.active, active, 0}
         \/ \E d \in Clients : Gate(d)
<1>1. CASE KeyStep
  BY <1>1, KeyStepFrame DEF clientVars
<1>2. CASE SendStep
  BY <1>2, SendStepSends DEF clientVars, RotationInv
<1>3. CASE GiveUp
  BY <1>3 DEF GiveUp, clientVars, RotationInv, TypeOK, Calls
<1>4. CASE PluginStep
  <2>1. call'.active \in {call.active, 0}
    BY <1>4, PluginCalls, NoCallIsOne DEF SameCall, Returned
  <2> QED
    BY <1>4, <2>1, PluginFrame DEF clientVars
<1>5. ASSUME NEW c \in Clients, StartRead(c) \/ ClientEnds(c)
      PROVE  UNCHANGED <<snapshot, call>>
  BY <1>5 DEF StartRead, ClientEnds, EnterWrite, EnterRefused, Leave, Save, Delete, Write, ClientOnly
<1>6. CASE Crash
  BY <1>6, NoCallIsOne DEF Crash
<1>7. CASE UNCHANGED vars
  BY <1>7 DEF vars, clientVars
<1> QED
  BY <1>1, <1>2, <1>3, <1>4, <1>5, <1>6, <1>7 DEF Next, HostStep, KeyStep, SendStep

\* No call is given a later key than the active one.
LEMMA CallKeysHold ==
  ASSUME RotationInv, [Next]_vars
  PROVE  CallKeys'
<1> USE DEF RotationInv, KeyInv, CallKeys
<1> active \in Nat /\ active' \in Nat /\ active <= active' /\ call.active \in Nat /\ configured \in Nat
      /\ configured <= active
  BY KeyringStays DEF Versions, TypeOK, Calls
<1> \A c \in Clients : snapshot[c] \in Nat
  BY DEF TypeOK, Versions
<1>1. CASE UNCHANGED snapshot /\ call'.active \in {call.active, active, 0}
  BY <1>1
<1>2. ASSUME NEW d \in Clients, Gate(d)
      PROVE  CallKeys'
  <2>1. call' = call /\ snapshot' = [snapshot EXCEPT ![d] = configured]
    BY <1>2 DEF Gate, ClientOnly
  <2> QED
    BY <2>1 DEF TypeOK
<1> QED
  BY <1>1, <1>2, SnapshotFrame

\* Files that stay keep their keys, whatever the host does.
LEMMA FileKeysStay ==
  ASSUME RotationInv, [Next]_vars, Live' = Live, backup' = backup
  PROVE  FileKeys'
<1>1. /\ active \in Nat /\ active' \in Nat /\ active <= active'
      /\ Live.checkpoint # NoCheckpoint /\ Live.checkpoint.target \in Keyring =>
           Live.checkpoint.target \in Keyring'
  BY KeyringStays DEF Versions
<1>2. 0..active \subseteq 0..active'
  BY <1>1
<1>3. ASSUME NEW f, Own(f)
      PROVE  \A r \in Records : f.key[r] \in 0..active'
  BY <1>2, <1>3 DEF Own
<1>4. FileKeys
  BY DEF RotationInv, KeyInv
<1>5. backup' # NoFile => Own(backup)'
  BY <1>3, <1>4 DEF FileKeys, Own
<1>6. Live'.checkpoint = NoCheckpoint => Own(Live)'
  BY <1>3, <1>4 DEF FileKeys, Own
<1>7. Live'.checkpoint # NoCheckpoint =>
        /\ Live'.checkpoint.target \in Keyring'
        /\ \A r \in Records : Live'.key[r] \in 0..active' \cup {Live'.checkpoint.target}
  BY <1>1, <1>2, <1>4 DEF FileKeys
<1>8. Live'.checkpoint.verified => \A r \in Records : Live'.key[r] \in {0, Live'.checkpoint.target}
  BY <1>4 DEF FileKeys
<1> QED
  BY <1>5, <1>6, <1>7, <1>8 DEF FileKeys

\* Every file can be read, and a verified checkpoint tells the truth.
LEMMA FileKeysHold ==
  ASSUME RotationInv, [Next]_vars
  PROVE  FileKeys'
<1> USE DEF RotationInv, KeyInv
<1>1. CASE QuietStep
  <2>1. Live' = Live /\ backup' = backup
    BY <1>1, QuietSteps, QuietKeepsLive DEF Quiet
  <2> QED
    BY <2>1, FileKeysStay
<1>2. CASE MoveStep
  <2>1. UNCHANGED <<Writing, Reading>>
    BY <1>2, MoveFrame, PluginFrame DEF clientVars, Writing, Reading
  <2>2. CASE Drained
    <3>1. Live' = Live /\ backup' = backup
      BY <2>2, KeepStepKeepsLive DEF KeepStep
    <3> QED
      BY <3>1, FileKeysStay
  <2>3. CASE Recover
    <3>1. Live' = Live /\ backup' = backup
      BY <2>3, KeepStepKeepsLive DEF KeepStep
    <3> QED
      BY <3>1, FileKeysStay
  <2>4. CASE CheckPromoted
    <3>1. Live' = Live /\ backup' = backup
      BY <2>4, KeepStepKeepsLive DEF KeepStep
    <3> QED
      BY <3>1, FileKeysStay
  <2>5. CASE CheckFresh
    <3>1. Live' = Live /\ backup' = backup
      BY <2>5, KeepStepKeepsLive DEF KeepStep
    <3> QED
      BY <3>1, FileKeysStay
  <2>6. CASE CheckAgain
    <3>1. Live' = Live /\ backup' = backup
      BY <2>6, KeepStepKeepsLive DEF KeepStep
    <3> QED
      BY <3>1, FileKeysStay
  <2>7. CASE CheckRollback
    <3>1. Live' = Live /\ backup' = backup
      BY <2>7, KeepStepKeepsLive DEF KeepStep
    <3> QED
      BY <3>1, FileKeysStay
  <2>8. CASE CheckRepair
    <3>1. Live' = Live /\ backup' = backup
      BY <2>8, KeepStepKeepsLive DEF KeepStep
    <3> QED
      BY <3>1, FileKeysStay
  <2>9. CASE CheckRestore
    <3>1. Live' = Live /\ backup' = backup
      BY <2>9, KeepStepKeepsLive DEF KeepStep
    <3> QED
      BY <3>1, FileKeysStay
  <2>10. CASE Backup
    <3>0. UNCHANGED <<active, pending, Keyring>>
      BY <1>2, MoveFrame, PluginFrame DEF keyVars, Keyring
    <3>1. /\ Live' = Live /\ Live = main /\ backup' = main /\ main # NoFile
          /\ main.checkpoint = NoCheckpoint
      BY <2>10, BackupStep, MainIsThere, FileParts DEF FileInv, CheckpointInv, Live
    <3> QED
      BY <3>0, <3>1 DEF FileKeys, Own
  <2>11. CASE BackupFails
    <3>1. Live' = Live /\ backup' = backup
      BY <2>11, KeepStepKeepsLive DEF KeepStep
    <3> QED
      BY <3>1, FileKeysStay
  <2>12. CASE NoteCheckpoint
    <3>0. UNCHANGED <<active, pending, Keyring>>
      BY <1>2, MoveFrame, PluginFrame DEF keyVars, Keyring
    <3>1. Edited /\ main'.key = main.key /\ main'.checkpoint.target = call.target /\ ~main'.checkpoint.verified
      BY <2>12, CheckpointNoted
    <3>2. main.checkpoint = NoCheckpoint /\ call.target = pending /\ pending # 0
      BY <2>12, NoteCheckpointStep DEF CheckpointInv, StepInv, CallInv
    <3>3. Own(main) /\ call.target \in Keyring
      BY <3>1, <3>2 DEF Edited, FileKeys, Keyring
    <3> QED
      BY <3>0, <3>1, <3>3 DEF Edited, FileKeys, Own
  <2>13. CASE Verify
    <3>0. UNCHANGED <<active, pending, Keyring>>
      BY <1>2, MoveFrame, PluginFrame DEF keyVars, Keyring
    <3>1. Edited /\ main'.key = main.key /\ main'.checkpoint.target = call.target /\ main'.checkpoint.verified
      BY <2>13, RecordsVerified, VerifyStep DEF CheckpointInv
    <3>2. \A r \in Records : main.key[r] \in {0, call.target}
      BY <2>13 DEF Verify, Left
    <3>3. call.target \in Keyring
      BY <2>13, VerifyStep DEF StepInv, CallInv, Keyring
    <3>4. main'.checkpoint # NoCheckpoint
      BY <3>1, NoCheckpointIsOne
    <3>5. \A r \in Records : main.key[r] \in 0..active \cup {call.target}
      BY <3>2 DEF TypeOK, Versions
    <3> QED
      BY <3>0, <3>1, <3>2, <3>3, <3>4, <3>5 DEF Edited, FileKeys, Own
  <2>14. CASE PrepareFails
    <3>1. Live' = Live /\ backup' = backup
      BY <2>14, KeepStepKeepsLive DEF KeepStep
    <3> QED
      BY <3>1, FileKeysStay
  <2>15. CASE MarkAside
    <3>1. Live' = Live /\ backup' = backup
      BY <2>15, KeepStepKeepsLive DEF KeepStep
    <3> QED
      BY <3>1, FileKeysStay
  <2>16. CASE MoveAside
    <3>1. Live' = Live /\ backup' = backup
      BY <2>16, KeepStepKeepsLive DEF KeepStep
    <3> QED
      BY <3>1, FileKeysStay
  <2>17. CASE MoveIn
    <3>1. Live' = Live /\ backup' = backup
      BY <2>17, KeepStepKeepsLive DEF KeepStep
    <3> QED
      BY <3>1, FileKeysStay
  <2>18. CASE DropAside
    <3>0. UNCHANGED <<active, pending, Keyring>>
      BY <1>2, MoveFrame, PluginFrame DEF keyVars, Keyring
    <3>1. Live' = backup /\ backup' = backup /\ backup # NoFile
      BY <2>18, DropAsideStep DEF FileInv, Replacing, Live
    <3>2. backup.checkpoint = NoCheckpoint
      BY <3>1 DEF CheckpointInv
    <3> QED
      BY <3>0, <3>1, <3>2, NoCheckpointIsOne DEF FileKeys, Own
  <2>19. CASE Unmark
    <3>1. Live' = Live /\ backup' = backup
      BY <2>19, KeepStepKeepsLive DEF KeepStep
    <3> QED
      BY <3>1, FileKeysStay
  <2>20. CASE ReplaceFails
    <3>1. Live' = Live /\ backup' = backup
      BY <2>20, KeepStepKeepsLive DEF KeepStep
    <3> QED
      BY <3>1, FileKeysStay
  <2>21. CASE ReplaceBreaks
    <3>1. Live' = Live /\ backup' = backup
      BY <2>21, KeepStepKeepsLive DEF KeepStep
    <3> QED
      BY <3>1, FileKeysStay
  <2>22. CASE Clear
    <3>0. UNCHANGED <<active, pending, Keyring>>
      BY <1>2, MoveFrame, PluginFrame DEF keyVars, Keyring
    <3>1. Edited /\ main'.key = main.key /\ main'.checkpoint = NoCheckpoint
      BY <2>22, CheckpointCleared
    <3>2. ASSUME Promoted
          PROVE  Own(main)
      <4>1. \A r \in Records : main.key[r] \in {0, call.active}
        BY <3>1, <3>2 DEF Promoted, Edited, FileKeys
      <4>2. call.active \in 0..active /\ 0 \in 0..active
        BY DEF CallKeys, TypeOK, Calls, Versions
      <4>3. \A r \in Records : main.key[r] \in 0..active
        BY <4>1, <4>2
      <4> QED
        BY <4>3 DEF Own
    <3>3. ASSUME Live.checkpoint = NoCheckpoint
          PROVE  Own(main)
      BY <3>1, <3>3 DEF Edited, FileKeys, Own
    <3>4. Promoted \/ Live.checkpoint = NoCheckpoint
      BY <2>22, ClearStep DEF CheckpointInv
    <3>5. Own(main)
      BY <3>2, <3>3, <3>4
    <3> QED
      BY <3>0, <3>1, <3>5, NoCheckpointIsOne DEF Edited, FileKeys, Own
  <2>23. CASE ClearFails
    <3>1. Live' = Live /\ backup' = backup
      BY <2>23, KeepStepKeepsLive DEF KeepStep
    <3> QED
      BY <3>1, FileKeysStay
  <2> QED
    BY <1>2, <2>2, <2>3, <2>4, <2>5, <2>6, <2>7, <2>8, <2>9, <2>10, <2>11, <2>12, <2>13,
       <2>14, <2>15, <2>16, <2>17, <2>18, <2>19, <2>20, <2>21, <2>22, <2>23 DEF MoveStep
<1>3. CASE Reencrypt
  <2>0. UNCHANGED <<active, Keyring>>
    BY <1>3, PluginFrame DEF PluginStep, keyVars, Keyring
  <2>1. /\ Edited /\ main'.checkpoint = main.checkpoint
        /\ \A r \in Records : main'.key[r] = main.key[r] \/ (main.key[r] # 0 /\ main'.key[r] = call.target)
    BY <1>3, RecordsReencrypted
  <2>2. call.target = main.checkpoint.target /\ call.target = pending /\ pending # 0
    BY <1>3 DEF Reencrypt, At, CheckpointInv, StepInv, CallInv
  <2>3. NoCheckpoint.target = 0
    BY DEF NoCheckpoint
  <2>4. main.checkpoint # NoCheckpoint
    BY <2>2, <2>3
  <2> QED
    BY <2>0, <2>1, <2>2, <2>4 DEF Edited, FileKeys, Own
<1>4. ASSUME NEW c \in Clients, StartRead(c)
      PROVE  FileKeys'
  <2>1. RecoverFiles /\ UNCHANGED backup
    BY <1>4 DEF StartRead, ClientOnly
  <2> QED
    BY <2>1, RecoverKeepsLive, FileKeysStay
<1>5. ASSUME NEW c \in Clients, EnterWrite(c)
      PROVE  FileKeys'
  <2>1. RecoverFiles /\ UNCHANGED backup
    BY <1>5 DEF EnterWrite, ClientOnly
  <2> QED
    BY <2>1, RecoverKeepsLive, FileKeysStay
<1>6. ASSUME NEW c \in Clients, NEW r \in Records, Save(c, r)
      PROVE  FileKeys'
  <2>0. UNCHANGED <<active, Keyring>>
    BY <1>6 DEF Save, Write, ClientOnly, keyVars, Keyring
  <2>1. /\ Edited /\ main'.checkpoint = main.checkpoint /\ main.checkpoint = NoCheckpoint
        /\ main'.key = [main.key EXCEPT ![r] = snapshot[c]]
    BY <1>6, SaveWrites, WritersAreAlone DEF Edited
  <2>2. main.key \in [Records -> 0..MaxVersion] /\ Own(main)
    BY <2>1, FileParts DEF Edited, FileKeys
  <2>3. snapshot[c] \in 0..active
    BY DEF TypeOK, Versions, CallKeys
  <2>4. \A q \in Records : main'.key[q] \in 0..active
    BY <2>1, <2>2, <2>3 DEF Own
  <2> QED
    BY <2>0, <2>1, <2>4, NoCheckpointIsOne DEF Edited, FileKeys, Own
<1>7. ASSUME NEW c \in Clients, NEW r \in Records, Delete(c, r)
      PROVE  FileKeys'
  <2>0. UNCHANGED <<active, Keyring>>
    BY <1>7 DEF Delete, Write, ClientOnly, keyVars, Keyring
  <2>1. /\ Edited /\ main'.checkpoint = main.checkpoint /\ main.checkpoint = NoCheckpoint
        /\ main'.key = [main.key EXCEPT ![r] = 0]
    BY <1>7, DeleteWrites, WritersAreAlone DEF Edited
  <2>2. main.key \in [Records -> 0..MaxVersion] /\ Own(main)
    BY <2>1, FileParts DEF Edited, FileKeys
  <2>3. 0 \in 0..active
    BY DEF TypeOK, Versions
  <2>4. \A q \in Records : main'.key[q] \in 0..active
    BY <2>1, <2>2, <2>3 DEF Own
  <2> QED
    BY <2>0, <2>1, <2>4, NoCheckpointIsOne DEF Edited, FileKeys, Own
<1> QED
  BY <1>1, <1>2, <1>3, <1>4, <1>5, <1>6, <1>7, StepCases

LEMMA RotationStep == RotationInv /\ [Next]_vars => RotationInv'
  BY TypesHold, CallsHold, FreezeHolds, FilesHold, StoreHolds, CheckpointHolds, HostHolds,
     CallKeysHold, FileKeysHold DEF RotationInv, KeyInv

LEMMA RotationStart == Init => RotationInv
<1> SUFFICES ASSUME Init
             PROVE  RotationInv
  OBVIOUS
<1> DEFINE empty == [key |-> [r \in Records |-> 0], checkpoint |-> NoCheckpoint]
<1>1. empty \in Files /\ empty.key = [r \in Records |-> 0] /\ empty.checkpoint = NoCheckpoint
  BY NoCheckpointIsOne, RotationAssumption DEF Files
<1>2. main = empty /\ Live = empty /\ empty # NoFile /\ aside = NoFile /\ backup = NoFile /\ ~marker
  BY <1>1, NoFileAssumption DEF Init, Live
<1> HIDE DEF empty
<1>3. TypeOK
  <2>1. /\ active \in Versions /\ configured \in Versions /\ used \in Versions
        /\ pending \in 0..MaxVersion /\ active <= used /\ pending <= used /\ configured <= active
        /\ pending = 0
    BY RotationAssumption DEF Init, Versions
  <2>2. call \in Calls /\ ~call.heard
    BY NoCallIsOne DEF Init
  <2>3. /\ client \in [Clients -> {"idle", "gated", "writing", "reading"}]
        /\ snapshot \in [Clients -> Versions]
    BY <2>1, RotationAssumption DEF Init, Versions
  <2>4. requests \in 0..MaxRequests /\ crashes \in 0..MaxCrashes
    BY RotationAssumption DEF Init
  <2>5. host = "idle" /\ attached \in BOOLEAN /\ frozen \in BOOLEAN /\ readsBlocked \in BOOLEAN
        /\ recovery \in BOOLEAN /\ marker \in BOOLEAN
    BY DEF Init
  <2> QED
    BY <1>1, <1>2, <2>1, <2>2, <2>3, <2>4, <2>5 DEF TypeOK
<1>4. Writing = {} /\ Reading = {}
  BY DEF Init, Writing, Reading
<1>5. call = NoCall /\ host = "idle" /\ active = 1 /\ snapshot = [c \in Clients |-> 1]
  BY DEF Init
<1>6. StepInv /\ CallInv /\ HostInv /\ FreezeInv /\ FileInv
  <2>1. call.op = "none" /\ call.at = "none" /\ call = NoCall
    BY <1>5, NoCallIsOne
  <2> QED
    BY <1>2, <1>4, <1>5, <2>1
       DEF StepInv, CallInv, HostInv, FreezeInv, FileInv, Replacing, Alone, Inside, Steps
<1>7. StoreInv /\ CheckpointInv
  BY <1>1, <1>2, <1>4, <1>5, NoCallIsOne DEF StoreInv, CheckpointInv, Replacing
<1>8. CallKeys /\ FileKeys
  <2>1. call.active = 0 /\ active = 1 /\ \A c \in Clients : snapshot[c] = 1
    BY <1>5, NoCallIsOne
  <2>2. \A r \in Records : empty.key[r] = 0
    BY <1>1
  <2>3. 0 \in 0..active
    BY <2>1
  <2> QED
    BY <1>1, <1>2, <2>1, <2>2, <2>3, NoCheckpointIsOne DEF CallKeys, FileKeys, Own
<1> QED
  BY <1>3, <1>6, <1>7, <1>8 DEF RotationInv, KeyInv

-----------------------------------------------------------------------------
\* A file without a record under a pending key can be read.
LEMMA OwnIsReadable ==
  ASSUME TypeOK, NEW f \in Files, Own(f)
  PROVE  \A r \in Ids(f) : f.key[r] \in Keyring
<1>1. active \in Nat
  BY DEF TypeOK, Versions
<1>2. ASSUME NEW r \in Ids(f)
      PROVE  f.key[r] \in 1..active
  <2>1. f # NoFile
    BY FileParts
  <2>2. r \in Records /\ f.key[r] # 0
    BY <1>2, <2>1 DEF Ids
  <2>3. f.key[r] \in 0..active
    BY <2>2 DEF Own
  <2> QED
    BY <1>1, <2>2, <2>3
<1> QED
  BY <1>2 DEF Keyring

-----------------------------------------------------------------------------
\* RotationInv holds in every state a run reaches.
THEOREM RotationInvariant == Spec => []RotationInv
  BY RotationStart, RotationStep, PTL DEF Spec

\* Every variable keeps its type; the key versions stay in order, and the database
\* is absent only while the file moved aside and the marker are there.
THEOREM RotationTypes == Spec => []TypeOK
<1>1. RotationInv => TypeOK
  BY DEF RotationInv
<1> QED
  BY <1>1, RotationInvariant, PTL

\* No request reads while the database file is being replaced
\* (maintenance.py:25-39, 85-93).
THEOREM ReadersAreSafe == Spec => []ReadersUndisturbed
<1>1. RotationInv => ReadersUndisturbed
  BY DEF RotationInv, FileInv, ReadersUndisturbed
<1> QED
  BY <1>1, RotationInvariant, PTL

\* No request writes while a rotation has its checkpoint or replaces the file, so
\* that an undo takes no record away (repository.py:1009-1030).
THEOREM WritersAreOut == Spec => []WritersKeptOut
<1>1. ASSUME RotationInv
      PROVE  WritersKeptOut
  <2>1. ASSUME Writing # {}
        PROVE  Live.checkpoint = NoCheckpoint /\ call.at \notin Replacing
    <3>1. PICK c \in Clients : client[c] = "writing"
      BY <2>1 DEF Writing
    <3> QED
      BY <1>1, <3>1, WritersAreAlone
  <2> QED
    BY <2>1 DEF WritersKeptOut
<1> QED
  BY <1>1, RotationInvariant, PTL

\* Every record of every file can be decrypted with the keys the host keeps
\* (history_key_store.rs:365-389).
THEOREM RecordsStayReadable == Spec => []RecordsReadable
<1>1. ASSUME RotationInv
      PROVE  RecordsReadable
  <2>1. \A r \in Records : r \in Ids(Live) => Live.key[r] \in Keyring
    <3>1. CASE Live.checkpoint = NoCheckpoint
      BY <1>1, <3>1, LiveIsAFile, FileParts, OwnIsReadable DEF RotationInv, KeyInv, FileKeys
    <3>2. CASE Live.checkpoint # NoCheckpoint
      BY <1>1, <3>2, LiveIsAFile, FileParts DEF RotationInv, KeyInv, FileKeys, TypeOK, Versions,
         Ids, Keyring
    <3> QED
      BY <3>1, <3>2
  <2>2. backup # NoFile => \A r \in Ids(backup) : backup.key[r] \in Keyring
    BY <1>1, OwnIsReadable DEF RotationInv, KeyInv, FileKeys, TypeOK
  <2>3. \A file \in {main, aside, backup} \ {NoFile} : file \in {Live, backup}
    BY <1>1 DEF RotationInv, CheckpointInv, Live
  <2>4. \A r \in Ids(Live) : r \in Records
    BY DEF Ids
  <2>5. ASSUME NEW file \in {main, aside, backup} \ {NoFile}, NEW r \in Ids(file)
        PROVE  file.key[r] \in Keyring
    <3>1. CASE file = Live
      BY <2>1, <2>4, <3>1
    <3>2. CASE file = backup /\ backup # NoFile
      BY <2>2, <3>2
    <3> QED
      BY <2>3, <3>1, <3>2
  <2> QED
    BY <2>5 DEF RecordsReadable
<1> QED
  BY <1>1, RotationInvariant, PTL

\* The host promotes a key only when every record is under it
\* (commands.rs:1141-1205).
THEOREM PromotionCoversAll == Spec => PromotedMeansReencrypted
<1>1. ASSUME RotationInv, [Next]_vars
      PROVE  [active' # active => \A r \in Ids(Live) : Live.key[r] = active']_vars
  <2>1. ASSUME active' # active
        PROVE  Promote
    <3>1. ~(SendStep \/ GiveUp \/ PluginStep \/ ClientStep \/ Crash \/ UNCHANGED vars)
      BY <1>1, <2>1, SendStepSends, PluginFrame, ClientFrame
         DEF RotationInv, GiveUp, Crash, vars, keyVars
    <3>2. KeyStep
      BY <1>1, <3>1 DEF Next, HostStep, KeyStep, SendStep, ClientStep
    <3> QED
      BY <2>1, <3>2 DEF KeyStep, SkipResume, BeginRotation, BeginRotationFails, PromoteFails,
         RollbackLost, KeyRollback, KeyRollbackFails, keyVars
  <2>2. ASSUME Promote
        PROVE  \A r \in Ids(Live) : Live.key[r] = active'
    <3>1. active' = pending /\ Live.checkpoint.verified /\ Live.checkpoint.target = pending
      BY <1>1, <2>2 DEF Promote, RotationInv, HostInv
    <3>2. \A r \in Records : Live.key[r] \in {0, pending}
      BY <1>1, <3>1 DEF RotationInv, KeyInv, FileKeys
    <3>3. \A r \in Ids(Live) : r \in Records /\ Live.key[r] # 0
      BY DEF Ids
    <3> QED
      BY <3>1, <3>2, <3>3
  <2> QED
    BY <2>1, <2>2
<1> QED
  BY <1>1, RotationInvariant, PTL DEF PromotedMeansReencrypted, Spec

-----------------------------------------------------------------------------
LEMMA PositiveSnapshot ==
  ASSUME RotationInv, NEW c \in Clients
  PROVE  snapshot[c] # 0
<1>1. snapshot \in [Clients -> Versions]
  BY DEF RotationInv, TypeOK
<1>2. snapshot[c] \in Versions
  BY <1>1
<1> QED
  BY <1>2 DEF Versions

\* What a step may do to the records there are and to those of the backup.
StoreMoves ==
  \/ Ids(Live') = Ids(Live) /\ Ids(backup') = Ids(backup)
  \/ /\ call'.op = call.op
     /\ \/ Ids(Live') = Ids(Live) /\ Ids(backup') = Ids(Live)
        \/ call.op = "restore" /\ Ids(Live') = Ids(backup) /\ Ids(backup') = Ids(backup)
        \/ /\ Ids(backup') = Ids(backup)
           /\ \E r \in Records : \/ r \notin Ids(Live) /\ Ids(Live') = Ids(Live) \cup {r}
                                 \/ r \in Ids(Live) /\ Ids(Live') = Ids(Live) \ {r}

\* Only a save, a delete, a backup and a restore change which records there are.
LEMMA RecordsMove ==
  ASSUME RotationInv, [Next]_vars
  PROVE  StoreMoves
<1> USE DEF RotationInv, StoreMoves
<1>1. CASE QuietStep
  <2>1. Live' = Live /\ backup' = backup
    BY <1>1, QuietSteps, QuietKeepsLive DEF Quiet
  <2> QED
    BY <2>1
<1>2. CASE MoveStep
  <2>1. UNCHANGED <<Writing, Reading>>
    BY <1>2, MoveFrame, PluginFrame DEF clientVars, Writing, Reading
  <2>2. CASE Drained
    BY <2>2, KeepStepKeepsLive DEF KeepStep
  <2>3. CASE Recover
    BY <2>3, KeepStepKeepsLive DEF KeepStep
  <2>4. CASE CheckPromoted
    BY <2>4, KeepStepKeepsLive DEF KeepStep
  <2>5. CASE CheckFresh
    BY <2>5, KeepStepKeepsLive DEF KeepStep
  <2>6. CASE CheckAgain
    BY <2>6, KeepStepKeepsLive DEF KeepStep
  <2>7. CASE CheckRollback
    BY <2>7, KeepStepKeepsLive DEF KeepStep
  <2>8. CASE CheckRepair
    BY <2>8, KeepStepKeepsLive DEF KeepStep
  <2>9. CASE CheckRestore
    BY <2>9, KeepStepKeepsLive DEF KeepStep
  <2>10. CASE Backup
    <3>1. Live' = Live /\ Live = main /\ backup' = main
      BY <2>10, BackupStep, MainIsThere DEF FileInv, Live
    <3>2. call'.op = call.op
      BY <2>10, BackupStep DEF SameCall
    <3> QED
      BY <3>1, <3>2
  <2>11. CASE BackupFails
    BY <2>11, KeepStepKeepsLive DEF KeepStep
  <2>12. CASE NoteCheckpoint
    <3>1. Edited /\ main'.key = main.key
      BY <2>12, CheckpointNoted
    <3> QED
      BY <3>1, SameRecords DEF Edited
  <2>13. CASE Verify
    <3>1. Edited /\ main'.key = main.key
      BY <2>13, RecordsVerified
    <3> QED
      BY <3>1, SameRecords DEF Edited
  <2>14. CASE PrepareFails
    BY <2>14, KeepStepKeepsLive DEF KeepStep
  <2>15. CASE MarkAside
    BY <2>15, KeepStepKeepsLive DEF KeepStep
  <2>16. CASE MoveAside
    BY <2>16, KeepStepKeepsLive DEF KeepStep
  <2>17. CASE MoveIn
    BY <2>17, KeepStepKeepsLive DEF KeepStep
  <2>18. CASE DropAside
    <3>1. Live' = backup /\ backup' = backup
      BY <2>18, DropAsideStep DEF FileInv, Live
    <3>2. call'.op = call.op /\ call.op \in Replacers /\ call.at = "drop aside"
      BY <2>18, DropAsideStep DEF SameCall, StepInv, Replacing
    <3>3. call.op = "restore" \/ Ids(backup) = Ids(Live)
      BY <3>2 DEF StoreInv, Replacers, Replacing
    <3> QED
      BY <3>1, <3>2, <3>3
  <2>19. CASE Unmark
    BY <2>19, KeepStepKeepsLive DEF KeepStep
  <2>20. CASE ReplaceFails
    BY <2>20, KeepStepKeepsLive DEF KeepStep
  <2>21. CASE ReplaceBreaks
    BY <2>21, KeepStepKeepsLive DEF KeepStep
  <2>22. CASE Clear
    <3>1. Edited /\ main'.key = main.key
      BY <2>22, CheckpointCleared
    <3> QED
      BY <3>1, SameRecords DEF Edited
  <2>23. CASE ClearFails
    BY <2>23, KeepStepKeepsLive DEF KeepStep
  <2> QED
    BY <1>2, <2>2, <2>3, <2>4, <2>5, <2>6, <2>7, <2>8, <2>9, <2>10, <2>11, <2>12, <2>13,
       <2>14, <2>15, <2>16, <2>17, <2>18, <2>19, <2>20, <2>21, <2>22, <2>23 DEF MoveStep
<1>3. CASE Reencrypt
  <2>1. /\ Edited
        /\ \A r \in Records : main'.key[r] = main.key[r] \/ (main.key[r] # 0 /\ main'.key[r] = call.target)
    BY <1>3, RecordsReencrypted
  <2>2. call.target # 0
    BY <1>3 DEF Reencrypt, At, StepInv, CallInv
  <2> QED
    BY <2>1, <2>2, SameRecords DEF Edited
<1>4. ASSUME NEW c \in Clients, StartRead(c)
      PROVE  StoreMoves
  <2>1. RecoverFiles /\ UNCHANGED backup
    BY <1>4 DEF StartRead, ClientOnly
  <2> QED
    BY <2>1, RecoverKeepsLive
<1>5. ASSUME NEW c \in Clients, EnterWrite(c)
      PROVE  StoreMoves
  <2>1. RecoverFiles /\ UNCHANGED backup
    BY <1>5 DEF EnterWrite, ClientOnly
  <2> QED
    BY <2>1, RecoverKeepsLive
<1>6. ASSUME NEW c \in Clients, NEW r \in Records, Save(c, r)
      PROVE  StoreMoves
  <2>1. /\ Edited /\ main'.key = [main.key EXCEPT ![r] = snapshot[c]] /\ main.key[r] = 0
        /\ call' = call
    BY <1>6, SaveWrites DEF Save, Write, ClientOnly
  <2>2. main.key \in [Records -> 0..MaxVersion] /\ main # NoFile /\ main' # NoFile
    BY <2>1, FileParts DEF Edited
  <2>3. snapshot[c] # 0
    BY <1>6, PositiveSnapshot
  <2>4. Ids(main') = Ids(main) \cup {r} /\ r \notin Ids(main)
    BY <2>1, <2>2, <2>3 DEF Ids
  <2> QED
    BY <2>1, <2>4 DEF Edited
<1>7. ASSUME NEW c \in Clients, NEW r \in Records, Delete(c, r)
      PROVE  StoreMoves
  <2>1. /\ Edited /\ main'.key = [main.key EXCEPT ![r] = 0] /\ main.key[r] # 0
        /\ call' = call
    BY <1>7, DeleteWrites DEF Delete, Write, ClientOnly
  <2>2. main.key \in [Records -> 0..MaxVersion] /\ main # NoFile /\ main' # NoFile
    BY <2>1, FileParts DEF Edited
  <2>3. TRUE
    BY <2>2
  <2>4. Ids(main') = Ids(main) \ {r} /\ r \in Ids(main)
    BY <2>1, <2>2, <2>3 DEF Ids
  <2> QED
    BY <2>1, <2>4 DEF Edited
<1> QED
  BY <1>1, <1>2, <1>3, <1>4, <1>5, <1>6, <1>7, StepCases

\* Whatever fails or stops, a rotation implements the record store of HistoryStore:
\* no record is lost and no deleted one comes back (plugin.py:205-235,
\* repository.py:487-579, 831-851).
THEOREM StoreImplemented == Spec => StoreSpec
<1>1. Init => Store!Init
  <2> SUFFICES ASSUME Init
               PROVE  Store!Init
    OBVIOUS
  <2>1. main \in Files /\ Live = main /\ backup = NoFile
    BY RotationStart DEF Init, RotationInv, TypeOK, Live
  <2>2. \A r \in Records : main.key[r] = 0
    BY DEF Init
  <2>3. Ids(Live) = {} /\ Ids(backup) = {}
    BY <2>1, <2>2 DEF Ids
  <2>4. (call.op = "restore") = FALSE
    BY NoCallIsOne DEF Init
  <2> QED
    BY <2>3, <2>4 DEF Store!Init
<1>2. ASSUME RotationInv, [Next]_vars
      PROVE  [Store!Next]_(Store!vars)
  <2>1. StoreMoves
    BY <1>2, RecordsMove
  <2>2. Ids(Live)' = Ids(Live') /\ Ids(backup)' = Ids(backup')
    BY DEF Ids
  <2>3. CASE Ids(Live') = Ids(Live) /\ Ids(backup') = Ids(backup)
    <3>1. CASE (call'.op = "restore") = (call.op = "restore")
      BY <2>2, <2>3, <3>1 DEF Store!vars
    <3>2. CASE (call'.op = "restore") = ~(call.op = "restore")
      BY <2>2, <2>3, <3>2 DEF Store!Next, Store!Ask
    <3> QED
      BY <3>1, <3>2
  <2>4. CASE call'.op = call.op
    <3>1. (call'.op = "restore") = (call.op = "restore")
      BY <2>4
    <3>2. CASE Ids(Live') = Ids(Live) /\ Ids(backup') = Ids(Live)
      BY <2>2, <3>1, <3>2 DEF Store!Next, Store!Backup
    <3>3. CASE call.op = "restore" /\ Ids(Live') = Ids(backup) /\ Ids(backup') = Ids(backup)
      BY <2>2, <3>1, <3>3 DEF Store!Next, Store!Restore
    <3>4. ASSUME Ids(backup') = Ids(backup), NEW r \in Records,
                 \/ r \notin Ids(Live) /\ Ids(Live') = Ids(Live) \cup {r}
                 \/ r \in Ids(Live) /\ Ids(Live') = Ids(Live) \ {r}
          PROVE  Store!Next
      BY <2>2, <3>1, <3>4 DEF Store!Next, Store!Save, Store!Delete
    <3> QED
      BY <2>1, <2>3, <3>2, <3>3, <3>4 DEF StoreMoves
  <2> QED
    BY <2>1, <2>3, <2>4 DEF StoreMoves
<1> QED
  BY <1>1, <1>2, RotationInvariant, PTL DEF StoreSpec, Store!Spec, Spec
==============================================================================
