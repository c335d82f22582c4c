---------------------------- MODULE HistoryRecords ----------------------------
(***************************************************************************)
(* The encrypted history between its key rotations: the calls of the       *)
(* history-sqlite plugin that change the database (save with its retention,*)
(* rate, delete, clear, repair, restore) while one client walks through it *)
(* page by page, searches it or exports it.  Each call opens a connection  *)
(* of its own, so the walk meets another table at every step.              *)
(*                                                                         *)
(* A transaction is one step.  repair and restore keep every writer out    *)
(* (restore every reader too): HistoryRotation models the coordinator that *)
(* does so and the steps of the file's replacement.                        *)
(***************************************************************************)
EXTENDS HistoryQuery, FiniteSetsExt

CONSTANTS
  Size,           \* live pages that a record takes
  MaxRecords,     \* HistoryRetentionPolicy.max_records
  MaxAge,         \* max_age_days
  MaxPages,       \* max_database_bytes, in pages
  CleanupBatch,   \* cleanup_batch_size
  CheckInterval,  \* check_interval_saves
  MaxBackups,     \* backup_max_count
  BackupAge,      \* backup_max_age_days
  MaxExport,      \* MAX_EXPORT_RECORDS
  Asked,          \* the requests that the client makes
  MaxChanges,     \* bound: calls that change the history
  LastDay,        \* bound: the day the clock stops at
  NoFile          \* there is no database

\* HistoryRetentionPolicy.from_value refuses a limit of zero.
PolicyAllowed ==
  {MaxRecords, MaxAge, MaxPages, CleanupBatch, CheckInterval, MaxBackups, BackupAge}
    \subseteq Nat \ {0}

Missing == -1  \* schema_meta has no such row

\* What a database may hold.
Rows == [created_at : Nat, rating : 0..2, sealed : Ids \cup {Garbage}]
Tables == UNION {[ids -> Rows] : ids \in SUBSET Ids}
Files == [rows : Tables, count : Int, saves : Int,
          pending : Int, layout : {"current", "old"}, quarantine : SUBSET Ids]

ASSUME RecordsAssumption ==
  /\ PolicyAllowed
  /\ Size \in [Ids -> Nat] /\ MaxExport \in Nat
  /\ Asked \subseteq Requests
  /\ NoFile \notin Files

VARIABLES
  file,      \* the database: rows, schema_meta, quarantine
  backups,   \* the backups of the directory, the oldest first
  recovery,  \* is the recovery-required file there?
  day,       \* today
  reader,    \* the client that reads
  repaired,  \* was the file repaired, and not damaged since?
  changes    \* how many calls have changed the history

vars == <<file, backups, recovery, day, reader, repaired, changes>>

Empty == [i \in {} |-> Row(i)]

\* _ensure_schema of a new database.
NewFile == [rows |-> Empty, count |-> 0, saves |-> 0, pending |-> 0,
            layout |-> "current", quarantine |-> {}]

\* A database that an older release left: no retention rows, the old indexes.
OldFile(ids) == [rows |-> [i \in ids |-> Row(i)], count |-> Missing, saves |-> Missing,
                 pending |-> Missing, layout |-> "old", quarantine |-> {}]

Idle == [at |-> "idle", request |-> NoRequest, cursor |-> NoCursor, scan |-> NoCursor,
         found |-> <<>>, seen |-> <<>>, owed |-> {}, touched |-> {}]

Init ==
  /\ \E ids \in SUBSET Ids : IsFiniteSet(ids) /\ file \in {NoFile, OldFile(ids)}
  /\ backups = <<>> /\ recovery = FALSE /\ day = 0
  /\ reader = Idle /\ repaired = FALSE /\ changes = 0

Table == IF file = NoFile THEN Empty ELSE file.rows
Without(table, gone) == [i \in DOMAIN table \ gone |-> table[i]]
Pages(table) == MapThenSumSet(LAMBDA i : Size[i], DOMAIN table)
\* _verify_database counts the records that cannot be read.
Intact(f) == \A i \in DOMAIN f.rows : Readable(f.rows, i)
Given(n) == IF n = Missing THEN 0 ELSE n

-----------------------------------------------------------------------------
(* What the walk is owed.  A row is owed while it is where it was when the *)
(* walk began; a change that moves, spoils, removes or brings it back      *)
(* touches it.                                                             *)

Standing(request, table, i) ==
  IF i \in DOMAIN table /\ Fits(request, table, i)
    THEN <<table[i][request.sort], Readable(table, i)>> ELSE <<>>

Watch(new) ==
  IF reader.at = "idle" THEN UNCHANGED reader
  ELSE LET moved == {i \in Ids : Standing(reader.request, Table, i)
                                   # Standing(reader.request, new.rows, i)}
       IN reader' = [reader EXCEPT !.owed = @ \ moved, !.touched = @ \cup moved]

\* Every call that changes the history opens the database for writing.
Change == changes < MaxChanges /\ changes' = changes + 1
Allowed == ~recovery /\ Change

\* history_recovery_required: the plugin leaves a mark beside the database.
MarkRecovery == recovery' = TRUE

-----------------------------------------------------------------------------
(* save                                                                    *)

\* _ensure_schema: an old layout is brought up to date before the first save.
Migrated(f) ==
  IF f = NoFile THEN NewFile
  ELSE IF f.layout = "current" THEN f
  ELSE [f EXCEPT !.layout = "current", !.saves = Given(@), !.pending = Given(@),
                 !.count = IF @ = Missing THEN Cardinality(DOMAIN f.rows) ELSE @]

\* _increment_meta_integer of both counters.
Inserted(f, i) ==
  [f EXCEPT !.rows = [j \in DOMAIN f.rows \cup {i} |-> IF j = i THEN Row(i) ELSE f.rows[j]],
            !.count = @ + 1, !.saves = @ + 1]

Expired(table, i) == table[i].created_at < day - MaxAge
AtMost(n, limit) == IF n < limit THEN n ELSE limit
AtLeastZero(n) == IF n < 0 THEN 0 ELSE n

Periodic(f) == f.saves % CheckInterval = 0
Attentive(f) == Periodic(f) \/ f.pending = 1
Pressed(f) == Attentive(f) /\ Pages(f.rows) > MaxPages

\* Mutated form: the record just inserted is not counted.
OverflowBefore(f) == AtLeastZero(f.count - 1 - MaxRecords)

Overflow(f) == AtLeastZero(f.count - MaxRecords)

\* _apply_retention: the records that it selects after i was inserted.
Selected(f, i) ==
  LET others == DOMAIN f.rows \ {i}
      expired == IF Attentive(f)
                   THEN Oldest(f.rows, {j \in others : Expired(f.rows, j)}, CleanupBatch)
                   ELSE {}
      room == CleanupBatch - Cardinality(expired)
      needed == AtMost(AtLeastZero(Overflow(f) - Cardinality(expired)), room)
  IN expired \cup Oldest(f.rows, others \ expired, IF Pressed(f) THEN room ELSE needed)

Due(f) == Attentive(f) \/ Overflow(f) > 0

Retained(f, i) ==
  LET gone == Selected(f, i)
      count == f.count - Cardinality(gone)
  IN IF ~Due(f) THEN f
     ELSE [f EXCEPT !.rows = Without(@, gone), !.count = count,
                    !.pending = IF Cardinality(gone) = CleanupBatch /\ count > 0 THEN 1 ELSE 0]

\* history_storage_limit, and the rollback of all of it.
TooLarge(f, i) == Due(f) /\ Pages(Without(f.rows, Selected(f, i))) > MaxPages

Saved(i) == Retained(Inserted(Migrated(file), i), i)

\* The transaction is rolled back; the migration before it stays.
SaveRefused(f) == f # file /\ file' = f /\ UNCHANGED recovery

Save(i) ==
  /\ Allowed
  /\ LET f == Migrated(file) IN
       \/ /\ f.saves # Missing /\ i \notin DOMAIN f.rows
          /\ ~TooLarge(Inserted(f, i), i)
          /\ file' = Saved(i) /\ UNCHANGED recovery
       \/ SaveRefused(f)  \* history_conflict, history_storage_limit, or cancelled
       \/ /\ f.saves = Missing  \* _meta_integer
          /\ MarkRecovery /\ UNCHANGED file
       \/ /\ f # file /\ file # NoFile  \* _migration_backup fails
          /\ MarkRecovery /\ UNCHANGED file
  /\ Watch(file')
  /\ UNCHANGED <<backups, day, repaired>>

-----------------------------------------------------------------------------
(* rate, delete and clear                                                  *)

Rate(i, rating) ==
  /\ Allowed /\ i \in DOMAIN Table
  /\ file' = [file EXCEPT !.rows[i].rating = rating]
  /\ Watch(file')
  /\ UNCHANGED <<backups, recovery, day, repaired>>

Delete(i) ==
  /\ Allowed /\ i \in DOMAIN Table
  /\ IF file.count < 1
       THEN MarkRecovery /\ UNCHANGED file
       ELSE /\ file' = [file EXCEPT !.rows = Without(@, {i}), !.count = @ - 1]
            /\ UNCHANGED recovery
  /\ Watch(file')
  /\ UNCHANGED <<backups, day, repaired>>

Clear ==
  /\ Allowed /\ DOMAIN Table # {}
  /\ file' = [file EXCEPT !.rows = Empty, !.count = 0, !.pending = 0]
  /\ Watch(file')
  /\ UNCHANGED <<backups, recovery, day, repaired>>

-----------------------------------------------------------------------------
(* Backups, repair and restore                                             *)

\* Mutated form: the oldest are kept.
PrunedNewest(list) == SubSeq(list, 1, IF Len(list) < MaxBackups THEN Len(list) ELSE MaxBackups)

\* _prune_backups: the new one stays; of the others the newest, while there is
\* room and they are not too old.
Pruned(list) ==
  LET last == Len(list)
      kept == {k \in 1..last : k = last \/ (k > last - MaxBackups /\ list[k].day >= day - BackupAge)}
  IN [n \in 1..Cardinality(kept) |-> list[last - Cardinality(kept) + n]]

Backup(list) == Pruned(Append(list, [day |-> day, file |-> file]))

\* Where a reader is inside of a call, and not between two of them.
Reading == reader.at \in {"searching", "exporting"}

\* _load_manifest and _verification_matches_manifest: no damaged record.
Acceptable(backup) == Intact(backup.file)

\* Mutated form: the records set apart are counted too.
MendedOnly(f) ==
  LET good == {i \in DOMAIN f.rows : Readable(f.rows, i)}
  IN [f EXCEPT !.rows = [i \in good |-> f.rows[i]],
               !.quarantine = @ \cup (DOMAIN f.rows \ good),
               !.count = Cardinality(DOMAIN f.rows), !.layout = "current"]

\* repair: the records that cannot be read are set apart.
Mended(f) ==
  LET good == {i \in DOMAIN f.rows : Readable(f.rows, i)}
  IN [f EXCEPT !.rows = [i \in good |-> f.rows[i]],
               !.quarantine = @ \cup (DOMAIN f.rows \ good),
               !.count = Cardinality(good), !.layout = "current"]

Repair ==
  /\ Change /\ file # NoFile
  /\ backups' = Backup(backups)
  /\ \/ file' = Mended(file) /\ recovery' = FALSE /\ repaired' = TRUE
     \/ UNCHANGED <<file, recovery, repaired>>  \* cancelled, or failed
  /\ Watch(file')
  /\ UNCHANGED day

\* _ensure_retention_metadata of the file that was put in place.
PutInPlace(f) ==
  [f EXCEPT !.count = Cardinality(DOMAIN f.rows), !.saves = Given(@), !.pending = Given(@)]

\* restore: only a backup without a damaged record is accepted; the database
\* is backed up first, unless it is damaged or the same.
Restore(k) ==
  /\ Change /\ ~Reading
  /\ Acceptable(backups[k])
  /\ IF Intact(file) /\ file = backups[k].file
       THEN UNCHANGED <<file, backups>> /\ recovery' = FALSE
       ELSE /\ backups' = IF Intact(file) THEN Backup(backups) ELSE backups
            /\ \/ file' = PutInPlace(backups[k].file) /\ recovery' = FALSE
               \/ UNCHANGED <<file, recovery>>  \* cancelled, or the file is put back
  /\ repaired' = (repaired /\ file' = file)
  /\ Watch(file')
  /\ UNCHANGED day

-----------------------------------------------------------------------------
(* What happens to the history from outside                                *)

\* The ciphertext of a record is destroyed, or replaced by another record's.
Damage(i) ==
  /\ Change /\ i \in DOMAIN Table /\ Readable(Table, i)
  /\ \E other \in {Garbage} \cup (DOMAIN Table \ {i}) :
       file' = [file EXCEPT !.rows[i].sealed = other]
  /\ Watch(file')
  /\ repaired' = FALSE
  /\ UNCHANGED <<backups, recovery, day>>

NextDay == day < LastDay /\ day' = day + 1
           /\ UNCHANGED <<file, backups, recovery, reader, repaired, changes>>

-----------------------------------------------------------------------------
(* The reader.  It asks for the next page with the cursor of the last one; *)
(* a search decrypts batch after batch inside of one call, an export sends *)
(* batch after batch.                                                      *)

Open(request, exports) ==
  LET r == IF exports THEN ExportOf(request) ELSE request
  IN /\ reader.at = "idle"
     /\ reader' = [Idle EXCEPT
          !.at = IF exports THEN "exporting" ELSE "paging",
          !.request = r,
          !.owed = {i \in DOMAIN Table :
                      /\ Fits(r, Table, i)
                      /\ r.keyword => i \in Naming
                      /\ exports \/ r.keyword => Readable(Table, i)}]
     /\ UNCHANGED <<file, backups, recovery, day, repaired, changes>>

Read(new) == reader' = new /\ UNCHANGED <<file, backups, recovery, day, repaired, changes>>

Places(rows, request) == [k \in DOMAIN rows |-> CursorAt(request, Table, rows[k])]

\* _page and its next_cursor; places are those of the rows when they were read.
Turned(places) ==
  LET page == PageOf(places)
  IN [reader EXCEPT
        !.seen = @ \o [k \in DOMAIN page |-> page[k].id],
        !.at = IF HasMore(places) THEN "paging" ELSE "done",
        !.cursor = IF HasMore(places) THEN page[Len(page)] ELSE NoCursor,
        !.scan = NoCursor, !.found = <<>>]

NextPage(request) ==
  /\ reader.at = "paging" /\ ~request.keyword
  /\ reader.cursor = NoCursor => request = reader.request
  /\ Accepted(reader.cursor, request)
  /\ Read(Turned(Places(SelectRows(request, Table, reader.cursor, PageSize + 1), request)))

\* _search begins where the last page ended ...
StartSearch(request) ==
  /\ reader.at = "paging" /\ request.keyword
  /\ reader.cursor = NoCursor => request = reader.request
  /\ Accepted(reader.cursor, request)
  /\ Read([reader EXCEPT !.at = "searching", !.scan = reader.cursor])

\* ... and ends with a full page and one match more, or with the last batch.
SearchBatch ==
  LET rows == SelectRows(reader.request, Table, reader.scan, Batch)
      found == Prefix(reader.found \o Places(Matching(rows, Table), reader.request), PageSize + 1)
  IN /\ reader.at = "searching"
     /\ Read(IF HasMore(found) \/ Len(rows) < Batch
               THEN Turned(found)
               ELSE [reader EXCEPT !.found = found,
                                   !.scan = CursorAt(reader.request, Table, rows[Len(rows)])])

\* history_search_timeout, or a cancel: nothing of the page is given out.
SearchFails ==
  /\ reader.at = "searching"
  /\ Read([reader EXCEPT !.at = "paging", !.found = <<>>, !.scan = NoCursor])

\* export_records passes a damaged record over ...
Exported(rows) == Picked(rows, {k \in DOMAIN rows : Shown(Table, rows[k]) # Corrupted})

\* ... and stream_records refuses too many.
ExportBatch ==
  LET rows == SelectRows(reader.request, Table, reader.cursor, Batch)
      sent == reader.seen \o Exported(rows)
  IN /\ reader.at = "exporting"
     /\ Read([reader EXCEPT
          !.seen = Prefix(sent, MaxExport),
          !.at = IF Len(sent) > MaxExport THEN "failed"
                 ELSE IF Len(rows) < Batch THEN "done" ELSE "exporting",
          !.cursor = IF Len(rows) < Batch THEN NoCursor
                     ELSE CursorAt(reader.request, Table, rows[Len(rows)])])

\* The walk is over, or given up.
Close == reader.at \notin {"idle", "searching"} /\ Read(Idle)

-----------------------------------------------------------------------------
Next ==
  \/ \E i \in Ids : \/ Save(i) \/ Delete(i) \/ Damage(i)
                    \/ \E rating \in 0..2 : Rate(i, rating)
  \/ Clear \/ Repair \/ NextDay
  \/ \E k \in DOMAIN backups : Restore(k)
  \/ \E r \in Asked : NextPage(r) \/ StartSearch(r) \/ Open(r, FALSE) \/ Open(r, TRUE)
  \/ SearchBatch \/ SearchFails \/ ExportBatch \/ Close

Spec == Init /\ [][Next]_vars

-----------------------------------------------------------------------------
(* Properties                                                              *)

\* retention_record_count is the number of records, whatever saved, removed,
\* set apart or brought back records: the limit is enforced from that number
\* alone (_increment_meta_integer, _set_meta_integer).
CountIsTrue ==
  file # NoFile => file.count \in {Missing, Cardinality(DOMAIN file.rows)}

\* What a save may remove, though its three selections overlap (_apply_retention):
\* a record only when no older one is left, and never the one it saves.  A save that
\* goes through never lets the history grow past max_records, and what it leaves
\* undone of an age check is on the books as pending.
RetentionHolds ==
  [][\A i \in Ids : Save(i) =>
       /\ \A gone \in DOMAIN Table \ DOMAIN file'.rows, kept \in DOMAIN file'.rows \ {i} :
            \/ CreatedAt[gone] < CreatedAt[kept]
            \/ CreatedAt[gone] = CreatedAt[kept] /\ gone < kept
       /\ i \notin DOMAIN Table /\ i \in DOMAIN file'.rows =>
            /\ Cardinality(DOMAIN file'.rows) <= Max({MaxRecords, Cardinality(DOMAIN Table)})
            /\ Attentive(Inserted(Migrated(file), i)) =>
                 \/ file'.pending = 1
                 \/ \A j \in DOMAIN file'.rows \ {i} : ~Expired(file'.rows, j)]_vars

\* A restore that replaces an intact database leaves a backup of what it
\* replaced, however many backups there are (restore, _prune_backups).
RestoreCanBeUndone ==
  [][\A k \in DOMAIN backups : Restore(k) /\ file' # file /\ Intact(file) =>
       \E b \in DOMAIN backups' : backups'[b].file = file]_vars

\* A walk by pages, a search and an export each give out every record that was
\* there from its first call to its last and did not change its place, whatever
\* was saved, rated, removed or restored between the calls, and none of those
\* twice (_cursor_clause).
EachOnce ==
  /\ reader.at = "done" => reader.owed \subseteq ToSet(reader.seen)
  /\ \A j, k \in DOMAIN reader.seen :
       j < k /\ reader.seen[j] = reader.seen[k] => reader.seen[j] \in reader.touched

\* test_repository.py: repair clears the recovery mode.  So a file that was
\* repaired, and not damaged since, does not put the history into it again.
RepairReopens == repaired => ~recovery
==============================================================================
