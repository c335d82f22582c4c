---------------------------- MODULE HistoryRotation ----------------------------
(***************************************************************************)
(* Key rotation of the encrypted history, end to end: rotate_history_keys  *)
(* of the Rust host (commands.rs) with its key store (history_key_store.rs)*)
(* drives the rotate operation of the history-sqlite plugin, whose         *)
(* MaintenanceCoordinator freezes writers, whose repository re-encrypts    *)
(* the records batch by batch and replaces the database file to undo.      *)
(* Other requests save, delete and read meanwhile; the runtime or the whole*)
(* application may stop between any two steps.                             *)
(*                                                                         *)
(* One file is the keys of its records (0: no such record) and the row of  *)
(* rotation_checkpoint.  One backup, the latest, stands for the directory. *)
(***************************************************************************)
EXTENDS Naturals

CONSTANTS
  Records,      \* identifiers of records
  Clients,      \* concurrent requests that use the history
  MaxVersion,   \* MAX_KEY_VERSION of the key store
  MaxRequests,  \* bound: maintenance operations the user starts
  MaxCrashes,   \* bound: how often the runtime stops
  NoFile        \* there is no such file

ASSUME RotationAssumption ==
  /\ MaxVersion \in Nat \ {0}
  /\ MaxRequests \in Nat /\ MaxCrashes \in Nat

Versions == 1..MaxVersion

Checkpoints == [target : 0..MaxVersion, source : 0..MaxVersion, verified : BOOLEAN]
NoCheckpoint == [target |-> 0, source |-> 0, verified |-> FALSE]
Files == [key : [Records -> 0..MaxVersion], checkpoint : Checkpoints]

ASSUME NoFileAssumption == NoFile \notin Files

VARIABLES
  host,          \* where rotate_history_keys, or another admin call, is
  attached,      \* is the runtime still the one that answered prepare?
  active,        \* HistoryKeyState.active_version
  pending,       \* HistoryKeyState.pending_version (0: none)
  used,          \* the highest version the credential store has a key of
  configured,    \* the active version last sent to the runtime
  call,          \* the maintenance call the plugin executes
  frozen,        \* MaintenanceCoordinator._maintenance
  readsBlocked,  \* MaintenanceCoordinator._block_reads
  client,        \* where each client's call is
  snapshot,      \* the active version in its HistoryServiceSnapshot
  main,          \* the database file
  aside,         \* the file that _replace_database moved aside (rollback-...)
  marker,        \* is the replace-state file there?
  backup,        \* the latest backup
  recovery,      \* is the recovery-required file there?
  requests,      \* how many maintenance operations were started
  crashes        \* how often the runtime stopped

hostVars   == <<host, attached>>
keyVars    == <<active, pending, used>>
freezeVars == <<frozen, readsBlocked>>
clientVars == <<client, snapshot>>
fileVars   == <<main, aside, marker>>
bounds     == <<requests, crashes>>
vars == <<hostVars, keyVars, configured, call, freezeVars, clientVars, fileVars,
          backup, recovery, bounds>>

Rotations   == {"resume", "prepare", "rollback", "finalize"}
Maintenance == {"repair", "restore"}
Operations  == Rotations \cup Maintenance

NoCall == [op |-> "none", at |-> "none", target |-> 0, active |-> 0, pending |-> 0,
           cancelled |-> FALSE, heard |-> FALSE, ok |-> TRUE]

Init ==
  /\ host = "idle" /\ attached = FALSE
  /\ active = 1 /\ pending = 0 /\ used = 1 /\ configured = 1
  /\ call = NoCall
  /\ frozen = FALSE /\ readsBlocked = FALSE
  /\ client = [c \in Clients |-> "idle"] /\ snapshot = [c \in Clients |-> 1]
  /\ main = [key |-> [r \in Records |-> 0], checkpoint |-> NoCheckpoint]
  /\ aside = NoFile /\ marker = FALSE
  /\ backup = NoFile /\ recovery = FALSE
  /\ requests = 0 /\ crashes = 0

\* The file that recover_interrupted_replace makes the database.
Live == IF aside # NoFile THEN aside ELSE main

\* The file moved aside comes back.
PutBack == main' = Live /\ aside' = NoFile /\ marker' = FALSE

\* recover_interrupted_replace: only a marker makes it look for that file.
RecoverFiles == IF marker THEN PutBack ELSE UNCHANGED fileVars

-----------------------------------------------------------------------------
(* The host.  An admin call is a private sequence: the configuration with  *)
(* the keys first, the call itself last.  The capability registry lets one *)
(* maintenance call in at a time and denies the next with history_busy.    *)

Sent(op, target) ==
  [op |-> op, at |-> "begin", target |-> target, active |-> active, pending |-> pending,
   cancelled |-> FALSE, heard |-> TRUE, ok |-> TRUE]

Send(op, target) ==
  /\ configured' = active
  /\ \/ call = NoCall /\ call' = Sent(op, target) /\ host' = op
     \/ call # NoCall /\ host' = "idle" /\ UNCHANGED call
  /\ UNCHANGED <<attached, keyVars, freezeVars, clientVars, fileVars, backup, recovery, crashes>>

Start == host = "idle" /\ requests < MaxRequests /\ requests' = requests + 1

\* resume_promoted_rotation asks for the checkpoint only when no key is pending.
StartResume == Start /\ pending = 0 /\ Send("resume", active)

SkipResume ==
  /\ Start /\ pending # 0
  /\ host' = "begin"
  /\ UNCHANGED <<attached, keyVars, configured, call, freezeVars, clientVars, fileVars,
                 backup, recovery, crashes>>

StartMaintenance == Start /\ \E op \in Maintenance : Send(op, 0)

\* What the steps of the host that touch only the key store leave alone.
HostOnly == UNCHANGED <<attached, configured, call, freezeVars, clientVars, fileVars,
                        backup, recovery, bounds>>

NewKey == pending = 0 /\ used < MaxVersion

\* begin_rotation: a pending key is kept, otherwise the first unused version.
BeginRotation ==
  /\ host = "begin" /\ host' = "send"
  /\ \/ pending # 0 /\ UNCHANGED keyVars
     \/ NewKey /\ used' = used + 1 /\ pending' = used + 1 /\ UNCHANGED active
  /\ HostOnly

\* The credential store fails, perhaps after the new key was written.
BeginRotationFails ==
  /\ host = "begin" /\ host' = "idle"
  /\ \/ UNCHANGED used
     \/ NewKey /\ used' = used + 1
  /\ UNCHANGED <<active, pending>> /\ HostOnly

SendPrepare == host = "send" /\ Send("prepare", pending) /\ UNCHANGED requests

Promote ==
  /\ host = "promote" /\ host' = "promoted"
  /\ active' = pending /\ pending' = 0
  /\ UNCHANGED used /\ HostOnly

PromoteFails == host = "promote" /\ host' = "undo" /\ UNCHANGED keyVars /\ HostOnly

\* The rollback goes to the runtime that prepared, or nowhere.
SendRollback == host = "undo" /\ attached /\ Send("rollback", pending) /\ UNCHANGED requests

\* Mutated form of RollbackLost: the pending version is dropped although the
\* records are not rolled back.
RollbackForgets ==
  /\ host = "undo" /\ ~attached /\ host' = "idle"
  /\ pending' = 0 /\ UNCHANGED <<active, used>> /\ HostOnly

RollbackLost == host = "undo" /\ ~attached /\ host' = "idle" /\ UNCHANGED keyVars /\ HostOnly

SendFinalize == host = "promoted" /\ Send("finalize", active) /\ UNCHANGED requests

KeyRollback ==
  /\ host = "keyRollback" /\ host' = "idle"
  /\ pending' = 0 /\ UNCHANGED <<active, used>> /\ HostOnly

KeyRollbackFails == host = "keyRollback" /\ host' = "idle" /\ UNCHANGED keyVars /\ HostOnly

\* The user cancels, or the plugin deadline passes: the host hears no answer,
\* the call goes on with its token set.
GiveUp ==
  /\ call.heard /\ host' = "idle"
  /\ call' = [call EXCEPT !.cancelled = TRUE, !.heard = FALSE]
  /\ UNCHANGED <<attached, keyVars, configured, freezeVars, clientVars, fileVars,
                 backup, recovery, bounds>>

-----------------------------------------------------------------------------
(* The plugin: one maintenance call, step by step.                         *)

\* The call returns; the host, if it still listens, goes on to `next`.
Return(next) ==
  /\ call' = NoCall
  /\ host' = IF call.heard THEN next ELSE host
  /\ attached' = (attached \/ (call.heard /\ next = "promote"))

Goto(at) == call' = [call EXCEPT !.at = at] /\ UNCHANGED hostVars
FailAt(at) == call' = [call EXCEPT !.at = at, !.ok = FALSE] /\ UNCHANGED hostVars

\* What no step of the plugin writes.
PluginOnly == UNCHANGED <<keyVars, configured, clientVars, bounds>>

At(at) == call.at = at
Op(ops) == call.op \in ops

\* In recovery only repair and restore may run; a cancelled call may not start.
Denied == call.cancelled \/ (recovery /\ Op(Rotations))

\* begin raises when the history is frozen already; block_reads when it is not.
Busy == IF Op({"rollback"}) THEN ~frozen ELSE frozen /\ ~Op({"finalize"})

\* Mutated form of Refuse: begin waits for another maintenance to end.
RefuseDenied ==
  /\ At("begin") /\ Denied
  /\ Return("idle")
  /\ UNCHANGED <<freezeVars, fileVars, backup, recovery>> /\ PluginOnly

Refuse ==
  /\ At("begin") /\ (Denied \/ Busy)
  /\ Return("idle")
  /\ UNCHANGED <<freezeVars, fileVars, backup, recovery>> /\ PluginOnly

\* Mutated form of Freeze: rollback replaces the file under its readers.
FreezeWriters ==
  /\ At("begin") /\ ~(recovery /\ Op(Rotations)) /\ ~Busy
  /\ IF Op({"finalize"})
       THEN Goto("recover") /\ UNCHANGED freezeVars
       ELSE /\ Goto("drain")
            /\ frozen' = TRUE
            /\ readsBlocked' = Op({"prepare", "restore"})
  /\ UNCHANGED <<fileVars, backup, recovery>> /\ PluginOnly

\* MaintenanceCoordinator.begin and block_reads up to their wait; finalize takes
\* over the freeze that prepare left.
Freeze ==
  /\ At("begin") /\ ~(recovery /\ Op(Rotations)) /\ ~Busy
  /\ IF Op({"finalize"})
       THEN Goto("recover") /\ UNCHANGED freezeVars
       ELSE /\ Goto("drain")
            /\ frozen' = TRUE
            /\ readsBlocked' = Op({"prepare", "restore", "rollback"})
  /\ UNCHANGED <<fileVars, backup, recovery>> /\ PluginOnly

Writing == {c \in Clients : client[c] = "writing"}
Reading == {c \in Clients : client[c] = "reading"}

Idle == (Op({"rollback"}) \/ Writing = {}) /\ (readsBlocked => Reading = {})

Drained ==
  /\ At("drain") /\ Idle
  /\ Goto("recover")
  /\ UNCHANGED <<freezeVars, fileVars, backup, recovery>> /\ PluginOnly

\* begin takes its freeze back; block_reads, outside rollback's try, does not.
DrainCancelled ==
  /\ At("drain") /\ ~Idle /\ call.cancelled
  /\ Return("idle")
  /\ IF Op({"rollback"}) THEN UNCHANGED freezeVars
                         ELSE frozen' = FALSE /\ readsBlocked' = FALSE
  /\ UNCHANGED <<fileVars, backup, recovery>> /\ PluginOnly

Recover ==
  /\ At("recover") /\ Goto("check") /\ RecoverFiles
  /\ UNCHANGED <<freezeVars, backup, recovery>> /\ PluginOnly

NoRotation == main.checkpoint = NoCheckpoint

\* finalize_rotation and resume_rotation: the checkpoint is of the promoted key.
Promoted ==
  /\ main.checkpoint.target = call.target /\ main.checkpoint.verified
  /\ call.active = call.target /\ call.pending = 0

\* _validate_rotation_checkpoint, the backup it names included.
Valid ==
  /\ main.checkpoint.target = call.target /\ main.checkpoint.source = call.active
  /\ backup # NoFile

\* The step after the checkpoint was read, where the operation may go on.
Checked(op, allowed, next) ==
  /\ At("check") /\ Op({op}) /\ allowed
  /\ Goto(next)
  /\ UNCHANGED <<freezeVars, fileVars, backup, recovery>> /\ PluginOnly

CheckPromoted == \E op \in {"resume", "finalize"} : Checked(op, Promoted, "clear")
CheckFresh    == Checked("prepare", NoRotation, "backup")
CheckAgain    == Checked("prepare", ~NoRotation /\ Valid /\ ~call.cancelled, "batch")
CheckRollback == Checked("rollback", ~NoRotation /\ main.checkpoint.target = call.target, "mark aside")
CheckRepair   == Checked("repair", NoRotation, "repair")
CheckRestore  == Checked("restore", NoRotation /\ backup # NoFile, "mark aside")

NothingToResume ==
  /\ At("check") /\ Op({"resume"}) /\ NoRotation
  /\ frozen' = FALSE /\ readsBlocked' = FALSE
  /\ Return("begin")
  /\ UNCHANGED <<fileVars, backup, recovery>> /\ PluginOnly

\* Anything else raises: the storage, or a checkpoint that does not fit.  What
\* began the freeze ends it; finalize, which did not, leaves it.
CheckFails ==
  /\ call.at \in {"recover", "check"}
  /\ IF Op({"finalize"}) THEN UNCHANGED freezeVars
                         ELSE frozen' = FALSE /\ readsBlocked' = FALSE
  /\ recovery' = (recovery \/ (At("recover") /\ marker))
  /\ Return("idle")
  /\ UNCHANGED <<fileVars, backup>> /\ PluginOnly

-----------------------------------------------------------------------------
(* prepare_rotation: back up, note the checkpoint, re-encrypt, verify.     *)

\* create_backup, of prepare and of repair, which has nothing to isolate here.
Backup ==
  /\ call.at \in {"backup", "repair"} /\ ~call.cancelled
  /\ backup' = main
  /\ Goto(IF Op({"prepare"}) THEN "note" ELSE "end")
  /\ UNCHANGED <<freezeVars, fileVars, recovery>> /\ PluginOnly

BackupFails ==
  /\ call.at \in {"backup", "repair"}
  /\ FailAt(IF Op({"prepare"}) THEN "clear" ELSE "end")
  /\ UNCHANGED <<freezeVars, fileVars, backup, recovery>> /\ PluginOnly

NoteCheckpoint ==
  /\ At("note") /\ Goto("batch")
  /\ main' = [main EXCEPT !.checkpoint =
                [target |-> call.target, source |-> call.active, verified |-> FALSE]]
  /\ UNCHANGED <<aside, marker, freezeVars, backup, recovery>> /\ PluginOnly

\* The records that _reencrypt_batch has still to see.
Left == {r \in Records : main.key[r] \notin {0, call.target}}

\* One transaction of _reencrypt_batch; which records is up to the order of rows.
Reencrypt ==
  /\ At("batch") /\ ~call.cancelled
  /\ \E batch \in SUBSET Left :
       /\ batch # {}
       /\ main' = [main EXCEPT !.key = [r \in Records |-> IF r \in batch THEN call.target ELSE @[r]]]
  /\ UNCHANGED <<call, hostVars, aside, marker, freezeVars, backup, recovery>> /\ PluginOnly

\* Mutated form of Verify: one batch is taken for all.
VerifySoon ==
  /\ At("batch") /\ ~call.cancelled
  /\ main' = [main EXCEPT !.checkpoint.verified = TRUE]
  /\ Goto("end")
  /\ UNCHANGED <<aside, marker, freezeVars, backup, recovery>> /\ PluginOnly

Verify ==
  /\ At("batch") /\ ~call.cancelled /\ Left = {}
  /\ main' = [main EXCEPT !.checkpoint.verified = TRUE]
  /\ Goto("end")
  /\ UNCHANGED <<aside, marker, freezeVars, backup, recovery>> /\ PluginOnly

\* The undo of prepare starts as soon as there is a backup to go back to.
PrepareFails ==
  /\ \/ call.at \in {"note", "batch"}
     \/ At("check") /\ Op({"prepare"}) /\ ~NoRotation
  /\ FailAt("mark aside")
  /\ UNCHANGED <<fileVars, freezeVars, backup, recovery>> /\ PluginOnly

-----------------------------------------------------------------------------
(* _replace_database by the latest backup: the undo of prepare, rollback   *)
(* and restore.  Only the undo ignores the token.                          *)

Stopped == call.cancelled /\ ~Op({"prepare"})

\* How the call ends when the replacement raises.
Broken == Op({"prepare"}) \/ recovery

Replacing == {"move aside", "move in", "drop aside", "unmark"}

MarkAside ==
  /\ At("mark aside") /\ ~Stopped /\ Goto("move aside")
  /\ marker' = TRUE
  /\ UNCHANGED <<main, aside, freezeVars, backup, recovery>> /\ PluginOnly

MoveAside ==
  /\ At("move aside") /\ Goto("move in")
  /\ aside' = main /\ main' = NoFile
  /\ UNCHANGED <<marker, freezeVars, backup, recovery>> /\ PluginOnly

MoveIn ==
  /\ At("move in") /\ Goto("drop aside")
  /\ main' = backup
  /\ UNCHANGED <<aside, marker, freezeVars, backup, recovery>> /\ PluginOnly

DropAside ==
  /\ At("drop aside") /\ ~Stopped /\ Goto("unmark")
  /\ aside' = NoFile
  /\ UNCHANGED <<main, marker, freezeVars, backup, recovery>> /\ PluginOnly

Unmark ==
  /\ At("unmark") /\ Goto(IF Op({"restore"}) THEN "end" ELSE "clear")
  /\ marker' = FALSE
  /\ UNCHANGED <<main, aside, freezeVars, backup, recovery>> /\ PluginOnly

\* Before or during the replacement something raises: the handler moves the
\* file back and clears the marker.
ReplaceFails ==
  /\ call.at \in Replacing \cup {"mark aside"}
  /\ FailAt("end") /\ PutBack
  /\ recovery' \in {Broken, TRUE}
  /\ UNCHANGED <<freezeVars, backup>> /\ PluginOnly

\* The handler itself raises: the next call finds the marker.
ReplaceBreaks ==
  /\ call.at \in Replacing
  /\ FailAt("end") /\ recovery' = TRUE
  /\ UNCHANGED <<fileVars, freezeVars, backup>> /\ PluginOnly

-----------------------------------------------------------------------------
(* The end of a call.                                                      *)

\* _clear_rotation_checkpoint of finalize, resume, rollback and the undo.
Clear ==
  /\ At("clear") /\ Goto("end")
  /\ main' = [main EXCEPT !.checkpoint = NoCheckpoint]
  /\ UNCHANGED <<aside, marker, freezeVars, backup, recovery>> /\ PluginOnly

ClearFails ==
  /\ At("clear") /\ FailAt("end")
  /\ recovery' = Broken
  /\ UNCHANGED <<fileVars, freezeVars, backup>> /\ PluginOnly

\* Where the host goes on when its call succeeded.
After ==
  [op \in Operations |->
    IF op = "prepare" THEN "promote" ELSE IF op = "rollback" THEN "keyRollback" ELSE "idle"]

\* A prepare that succeeded keeps the writers out and lets readers in; a finalize
\* that failed keeps what it found; every other call thaws.
End ==
  /\ At("end")
  /\ Return(IF call.ok THEN After[call.op] ELSE "idle")
  /\ frozen' = \/ Op({"prepare"}) /\ call.ok
               \/ Op({"finalize"}) /\ ~call.ok /\ frozen
  /\ readsBlocked' = FALSE
  /\ recovery' = (recovery /\ ~(Op(Maintenance) /\ call.ok))
  /\ UNCHANGED <<fileVars, backup>> /\ PluginOnly

-----------------------------------------------------------------------------
(* The other requests, and crashes.                                        *)

ClientOnly == UNCHANGED <<hostVars, keyVars, configured, call, freezeVars, backup,
                          recovery, bounds>>

\* The registry's gate and the snapshot of the services; the call itself is
\* made outside the registry's lock.
Gate(c) ==
  /\ client[c] = "idle" /\ call = NoCall /\ ~recovery
  /\ client' = [client EXCEPT ![c] = "gated"]
  /\ snapshot' = [snapshot EXCEPT ![c] = configured]
  /\ UNCHANGED fileVars /\ ClientOnly

\* Mutated form of EnterWrite: the checkpoint of a stopped rotation is not seen.
EnterAnyway(c) ==
  /\ client[c] = "gated" /\ ~frozen
  /\ RecoverFiles
  /\ client' = [client EXCEPT ![c] = "writing"]
  /\ UNCHANGED snapshot /\ ClientOnly

\* write() lets the call in, recover_interrupted_replace and the checkpoint follow.
EnterWrite(c) ==
  /\ client[c] = "gated" /\ ~frozen
  /\ RecoverFiles
  /\ client' = [client EXCEPT ![c] = IF Live.checkpoint = NoCheckpoint THEN "writing" ELSE "idle"]
  /\ UNCHANGED snapshot /\ ClientOnly

EnterRefused(c) ==
  /\ client[c] = "gated" /\ frozen
  /\ client' = [client EXCEPT ![c] = "idle"]
  /\ UNCHANGED <<snapshot, fileVars>> /\ ClientOnly

\* One transaction, and write() is left.
Write(c, r, version) ==
  /\ client' = [client EXCEPT ![c] = "idle"]
  /\ main' = [main EXCEPT !.key[r] = version]
  /\ UNCHANGED <<snapshot, aside, marker>> /\ ClientOnly

Save(c, r)   == client[c] = "writing" /\ main.key[r] = 0 /\ Write(c, r, snapshot[c])
Delete(c, r) == client[c] = "writing" /\ main.key[r] # 0 /\ Write(c, r, 0)

\* list, detail, export, scan and backups: recovery does not stop them, only a
\* restore does at the registry's gate.
StartRead(c) ==
  /\ client[c] = "idle" /\ ~(frozen /\ readsBlocked) /\ call.op # "restore"
  /\ RecoverFiles
  /\ client' = [client EXCEPT ![c] = "reading"]
  /\ UNCHANGED snapshot /\ ClientOnly

\* A reader is done; a writer raises.
Leave(c) ==
  /\ client[c] \in {"writing", "reading"}
  /\ client' = [client EXCEPT ![c] = "idle"]
  /\ UNCHANGED <<snapshot, fileVars>> /\ ClientOnly

\* The runtime stops, alone or with the host; it is started again and given the
\* keys.  What was only in memory is gone.
Crash ==
  /\ crashes < MaxCrashes /\ crashes' = crashes + 1
  /\ host' = "idle" \/ (~call.heard /\ UNCHANGED host)
  /\ attached' = FALSE
  /\ call' = NoCall /\ configured' = active
  /\ frozen' = FALSE /\ readsBlocked' = FALSE
  /\ client' = [c \in Clients |-> "idle"]
  /\ UNCHANGED <<snapshot, keyVars, fileVars, backup, recovery, requests>>

HostStep ==
  \/ BeginRotation \/ BeginRotationFails \/ SendPrepare
  \/ Promote \/ PromoteFails \/ SendRollback \/ RollbackLost \/ SendFinalize
  \/ KeyRollback \/ KeyRollbackFails

PluginStep ==
  \/ Refuse \/ Freeze \/ Drained \/ DrainCancelled \/ Recover
  \/ CheckPromoted \/ CheckFresh \/ CheckAgain \/ CheckRollback \/ CheckRepair
  \/ CheckRestore \/ NothingToResume \/ CheckFails
  \/ Backup \/ BackupFails \/ NoteCheckpoint \/ Reencrypt \/ Verify \/ PrepareFails
  \/ MarkAside \/ MoveAside \/ MoveIn \/ DropAside \/ Unmark
  \/ ReplaceFails \/ ReplaceBreaks \/ Clear \/ ClearFails \/ End

ClientEnds(c) ==
  \/ EnterWrite(c) \/ EnterRefused(c) \/ Leave(c)
  \/ \E r \in Records : Save(c, r) \/ Delete(c, r)

Next ==
  \/ StartResume \/ SkipResume \/ StartMaintenance \/ GiveUp
  \/ HostStep \/ PluginStep
  \/ \E c \in Clients : Gate(c) \/ StartRead(c) \/ ClientEnds(c)
  \/ Crash

Spec == Init /\ [][Next]_vars

\* The host's thread, the plugin's thread and the threads of the other requests run.
FairSpec ==
  /\ Spec
  /\ WF_vars(HostStep) /\ WF_vars(PluginStep)
  /\ \A c \in Clients : WF_vars(ClientEnds(c))

-----------------------------------------------------------------------------
\* The steps of a maintenance call.
Steps == {"begin", "drain", "recover", "check", "backup", "repair", "note", "batch",
          "mark aside", "clear", "end"} \cup Replacing

Calls == [op : Operations \cup {"none"}, at : Steps \cup {"none"}, target : 0..MaxVersion,
          active : 0..MaxVersion, pending : 0..MaxVersion,
          cancelled : BOOLEAN, heard : BOOLEAN, ok : BOOLEAN]

\* Types, and what belongs together: the three versions of the key store are in
\* order, the database is absent only while its replacement is under way or was
\* interrupted, and then the old file and the marker are there
\* (repository.py:831-851, history_key_store.rs:305-344).
TypeOK ==
  /\ host \in Operations \cup {"idle", "begin", "send", "promote", "promoted", "undo", "keyRollback"}
  /\ attached \in BOOLEAN
  /\ active \in Versions /\ configured \in Versions /\ used \in Versions
  /\ pending \in 0..MaxVersion
  /\ active <= used /\ pending <= used /\ configured <= active
  /\ pending # 0 => active < pending
  /\ call \in Calls /\ (call.heard => host = call.op)
  /\ frozen \in BOOLEAN /\ readsBlocked \in BOOLEAN
  /\ client \in [Clients -> {"idle", "gated", "writing", "reading"}]
  /\ snapshot \in [Clients -> Versions]
  /\ main \in Files \cup {NoFile} /\ aside \in Files \cup {NoFile}
  /\ backup \in Files \cup {NoFile}
  /\ marker \in BOOLEAN /\ recovery \in BOOLEAN
  /\ main = NoFile => aside # NoFile
  /\ aside # NoFile => marker
  /\ requests \in 0..MaxRequests /\ crashes \in 0..MaxCrashes

Ids(file) == IF file = NoFile THEN {} ELSE {r \in Records : file.key[r] # 0}

Store == INSTANCE HistoryStore WITH
  stored <- Ids(Live), kept <- Ids(backup), restoring <- call.op = "restore"

\* A rotation, whatever fails or stops it, neither loses a record nor brings a
\* deleted one back: freeze, checkpoint, undo, rollback and recovery together
\* (plugin.py:205-235, repository.py:487-579) implement a plain record store.
StoreSpec == Store!Spec

Keyring == 1..active \cup (IF pending = 0 THEN {} ELSE {pending})

\* Every record of every file the history may be read from or go back to can be
\* decrypted with the keyring the host sends next (history_key_store.rs:365-389).
RecordsReadable ==
  \A file \in {main, aside, backup} \ {NoFile} :
    \A r \in Ids(file) : file.key[r] \in Keyring

\* The host promotes a key only when no record is left under another one
\* (commands.rs:1141-1205): what prepare verified still holds a call later.
PromotedMeansReencrypted ==
  [][active' # active => \A r \in Ids(Live) : Live.key[r] = active']_vars

\* No request reads while the database file is being replaced (maintenance.py:25-39,
\* 85-93), and none writes while a rotation has its backup or checkpoint.
ReadersUndisturbed == Reading # {} => ~marker
WritersKeptOut == Writing # {} => Live.checkpoint = NoCheckpoint /\ call.at \notin Replacing

\* A rotation always comes to an end for the user (commands.rs:1141-1205).
RotationEnds == (host # "idle") ~> (host = "idle")

\* What the roadmap promises of a rotation (BACKEND-PRODUCTION-ROADMAP.md:85): it is
\* atomic or there is a way to recover.  In recovery only repair and restore may
\* run, and both refuse while there is a checkpoint.
RecoveryCanEnd == recovery => Live.checkpoint = NoCheckpoint
==============================================================================
