---------------------------- MODULE CloudFeedback ----------------------------
(***************************************************************************)
(* The feedback side of Reflex Cloud (reflex_cloud/service.py, storage.py):*)
(* feedback items and their screenshot files, the improvement sample of an *)
(* optimize call, the deletion of an installation's data, the retention    *)
(* loop, and the quality releases made from feedback.  Requests run in     *)
(* threads of several service processes over one database, so a release    *)
(* may be published by two of them, and any of the processes may end at    *)
(* any time; a step is one statement that reads or takes row locks, one    *)
(* commit, or one file operation.  Every item has a screenshot, and the    *)
(* clocks of the processes agree.                                          *)
(***************************************************************************)
EXTENDS Naturals, FiniteSets

CONSTANTS
  Items, Installs, OwnerOf,   \* feedback ids and who sends them
  Releases, SourcesOf,        \* quality releases and their source_feedback_ids
  MaxTime,                    \* bound: publications tried in a behaviour
  None

\* What the constants must satisfy, assumed where they get their values.
FeedbackAssumption ==
  /\ OwnerOf \in [Items -> Installs] /\ SourcesOf \in [Releases -> SUBSET Items \ {{}}]
  /\ MaxTime \in Nat /\ None \notin Releases \cup {"open", "fixed", "released"}

VARIABLES
  alive,     \* installations whose row exists
  sub,       \* submit_feedback: how far the submission of an item is
  status,    \* FeedbackItem.status of an item that has a row
  files,     \* items whose screenshot, or a part of it, is in the upload directory
  strays,    \* history: those of them that a failed write or the end of a process left
  deletion,  \* delete_installation_data: the step, and the paths it has read
  purge,     \* purge_expired_feedback: the rows it has read, None when it is not running
  sampling,  \* calls between latest_consent and the commit of the sample
  samples,   \* installations with an improvement sample
  release,   \* QualityRelease rows: status and published_at
  linked,    \* QualityReleaseSource rows
  tx,        \* the open transaction on a release
  time,
  overtaken  \* history: a publication was committed after one that took its time later

itemVars == <<sub, status, files, strays, purge>>
userVars == <<alive, deletion, sampling, samples>>
qualityVars == <<release, linked, tx, time, overtaken>>
vars == <<itemVars, userVars, qualityVars>>

Rows == {f \in Items : status[f] # None}
Statuses == {"open", "fixed", "released"}

TypeOK ==
  /\ alive \subseteq Installs /\ samples \subseteq Installs /\ sampling \subseteq Installs
  /\ sub \in [Items -> {"idle", "checked", "saved", "over"}]
  /\ status \in [Items -> Statuses \cup {None}] /\ files \subseteq Items /\ strays \subseteq Items
  /\ deletion \in [Installs -> [step : {"no", "read", "unlink"}, paths : SUBSET Items]]
  /\ purge = None \/ purge \subseteq Items
  /\ release \in [Releases -> [status : {"none", "draft", "published", "superseded", "rolled_back"},
                               at : 0..MaxTime]]
  /\ linked \subseteq Releases \X Items /\ time \in 0..MaxTime /\ overtaken \in BOOLEAN
  /\ \A q \in Releases : tx[q] = None \/ tx[q] \in
        [kind : {"publish", "rollback"}, at : 0..MaxTime, other : Releases \cup {None},
         sources : SUBSET Items, step : {"timed", "found", "locked"}]

Init ==
  /\ alive = Installs /\ samples = {} /\ sampling = {}
  /\ sub = [f \in Items |-> "idle"]
  /\ status = [f \in Items |-> None] /\ files = {} /\ strays = {}
  /\ deletion = [i \in Installs |-> [step |-> "no", paths |-> {}]]
  /\ purge = None
  /\ release = [q \in Releases |-> [status |-> "none", at |-> 0]]
  /\ linked = {} /\ tx = [q \in Releases |-> None] /\ time = 0 /\ overtaken = FALSE

-----------------------------------------------------------------------------
(* A submission (submit_feedback).                                         *)

At(f, p) == sub' = [sub EXCEPT ![f] = p]

\* The token, the consent version, the consent and the screenshot are accepted.
Accept(f) ==
  /\ sub[f] = "idle" /\ OwnerOf[f] \in alive
  /\ At(f, "checked")
  /\ UNCHANGED <<status, files, strays, purge, userVars, qualityVars>>

\* Every limit is reserved and the file is written.
Save(f) ==
  /\ sub[f] = "checked"
  /\ At(f, "saved") /\ files' = files \cup {f}
  /\ UNCHANGED <<status, strays, purge, userVars, qualityVars>>

\* write_bytes raises, or the process ends in it, when the file is there already:
\* screenshot_path is not yet set, so that nothing is deleted.
SaveFails(f) ==
  /\ sub[f] = "checked"
  /\ At(f, "over") /\ files' = files \cup {f} /\ strays' = strays \cup {f}
  /\ UNCHANGED <<status, purge, userVars, qualityVars>>

\* A limit is reached, the disk is short or the file cannot be made: rolled back.
SubmitRefused(f) ==
  /\ sub[f] = "checked"
  /\ At(f, "over")
  /\ UNCHANGED <<status, files, strays, purge, userVars, qualityVars>>

\* The row refers to its installation, which must still be there.
CommitItem(f) ==
  /\ sub[f] = "saved" /\ OwnerOf[f] \in alive
  /\ At(f, "over")
  /\ status' = [status EXCEPT ![f] = "open"]
  /\ UNCHANGED <<files, strays, purge, userVars, qualityVars>>

\* The commit fails, as it must without the installation: the file is deleted.
SubmitFails(f) ==
  /\ sub[f] = "saved"
  /\ At(f, "over") /\ files' = files \ {f}
  /\ UNCHANGED <<status, strays, purge, userVars, qualityVars>>

\* The process ends before the commit, or the file cannot be deleted after it failed.
SubmitBreaks(f) ==
  /\ sub[f] = "saved"
  /\ At(f, "over") /\ strays' = strays \cup {f}
  /\ UNCHANGED <<status, files, purge, userVars, qualityVars>>

\* update_feedback sets any status.
UpdateItem(f, s) ==
  /\ f \in Rows
  /\ status' = [status EXCEPT ![f] = s]
  /\ UNCHANGED <<sub, files, strays, purge, userVars, qualityVars>>

-----------------------------------------------------------------------------
(* The improvement sample of an optimize call (store_improvement_sample).  *)

\* latest_consent agrees to improvement_data; without a record it raises.
ReadConsent(i) ==
  /\ i \in alive /\ i \notin sampling \cup samples
  /\ sampling' = sampling \cup {i}
  /\ UNCHANGED <<alive, deletion, samples, itemVars, qualityVars>>

\* Mutated form of StoreSample: the sample does not refer to its installation.
StoreSampleLoose(i) ==
  /\ i \in sampling /\ sampling' = sampling \ {i}
  /\ samples' = samples \cup {i}
  /\ UNCHANGED <<alive, deletion, itemVars, qualityVars>>

\* The row refers to the installation and to the consent: without them it fails.
StoreSample(i) ==
  /\ i \in sampling /\ sampling' = sampling \ {i}
  /\ samples' = IF i \in alive THEN samples \cup {i} ELSE samples
  /\ UNCHANGED <<alive, deletion, itemVars, qualityVars>>

\* The process ends, or the transaction fails for another reason.
SampleBreaks(i) ==
  /\ i \in sampling /\ sampling' = sampling \ {i}
  /\ UNCHANGED <<alive, deletion, samples, itemVars, qualityVars>>

-----------------------------------------------------------------------------
(* Deletion (delete_installation_data) and retention.                      *)

Owned(i) == {f \in Items : OwnerOf[f] = i}
Drop(rows) == /\ status' = [f \in Items |-> IF f \in rows THEN None ELSE status[f]]
              /\ linked' = {l \in linked : l[2] \notin rows}

ReadPaths(i) ==
  /\ i \in alive /\ deletion[i].step = "no"
  /\ deletion' = [deletion EXCEPT ![i] = [step |-> "read", paths |-> Rows \cap Owned(i)]]
  /\ UNCHANGED <<alive, sampling, samples, itemVars, qualityVars>>

\* The rows of the installation cascade.
CommitDeletion(i) ==
  /\ deletion[i].step = "read"
  /\ deletion' = [deletion EXCEPT ![i].step = "unlink"]
  /\ alive' = alive \ {i} /\ samples' = samples \ {i}
  /\ Drop(Owned(i))
  /\ UNCHANGED <<sampling, sub, files, strays, purge, release, tx, time, overtaken>>

Unlink(i, f) ==
  /\ deletion[i].step = "unlink" /\ f \in deletion[i].paths
  /\ deletion' = [deletion EXCEPT ![i].paths = @ \ {f}]
  /\ files' = files \ {f} /\ strays' = strays \ {f}
  /\ UNCHANGED <<alive, sampling, samples, sub, status, purge, qualityVars>>

\* The process ends, the commit fails or a file cannot be deleted: the paths that are
\* left are forgotten, and after the commit no row names them.
DeletionBreaks(i) ==
  /\ deletion[i].step # "no"
  /\ deletion' = [deletion EXCEPT ![i] = [step |-> IF i \in alive THEN "no" ELSE "unlink", paths |-> {}]]
  /\ UNCHANGED <<alive, sampling, samples, itemVars, qualityVars>>

\* purge_expired_feedback reads the rows that are too old.
PurgeRead(rows) ==
  /\ purge = None /\ rows # {} /\ rows \subseteq Rows
  /\ purge' = rows
  /\ UNCHANGED <<sub, status, files, strays, userVars, qualityVars>>

PurgeFile(f) ==
  /\ purge # None /\ f \in purge \cap files
  /\ files' = files \ {f} /\ strays' = strays \ {f}
  /\ UNCHANGED <<sub, status, purge, userVars, qualityVars>>

\* Mutated form of PurgeCommit: the rows go whether or not their files are gone.
PurgeCommitEarly ==
  /\ purge # None
  /\ Drop(purge) /\ purge' = None
  /\ UNCHANGED <<sub, files, strays, userVars, release, tx, time, overtaken>>

\* Once the files are gone the rows go.
PurgeCommit ==
  /\ purge # None /\ purge \cap files = {}
  /\ Drop(purge) /\ purge' = None
  /\ UNCHANGED <<sub, files, strays, userVars, release, tx, time, overtaken>>

\* The process ends, the commit fails or a file cannot be deleted: the rows are still
\* there, and the next purge reads them again.
PurgeBreaks ==
  /\ purge # None /\ purge' = None
  /\ UNCHANGED <<sub, status, files, strays, userVars, qualityVars>>

-----------------------------------------------------------------------------
(* Quality releases.  The transaction of a release holds its row.          *)

With(s) == {q \in Releases : release[q].status = s}
Newest(S) == CHOOSE q \in S : \A p \in S : release[p].at <= release[q].at
NewestOrNone(S) == IF S = {} THEN None ELSE Newest(S)
Sources(q) == {f \in Items : <<q, f>> \in linked}

\* Another transaction holds the row of q.
Held(q) == tx[q] # None \/ \E p \in Releases \ {q} : tx[p] # None /\ tx[p].step = "locked" /\ tx[p].other = q

CreateRelease(q) ==
  /\ release[q].status = "none" /\ SourcesOf[q] \subseteq Rows
  /\ release' = [release EXCEPT ![q].status = "draft"]
  /\ linked' = linked \cup ({q} \X SourcesOf[q])
  /\ UNCHANGED <<tx, time, overtaken, itemVars, userVars>>

Ready(q) == Sources(q) # {} /\ \A f \in Sources(q) : status[f] \in {"fixed", "released"}

Open(q, kind, at, step, other) ==
  tx' = [tx EXCEPT ![q] = [kind |-> kind, at |-> at, other |-> other,
                           sources |-> Sources(q), step |-> step]]

\* The draft is locked and checked, and the time is taken.
BeginPublish(q) ==
  /\ ~Held(q) /\ release[q].status = "draft" /\ Ready(q)
  /\ time < MaxTime /\ time' = time + 1
  /\ Open(q, "publish", time + 1, "timed", None)
  /\ UNCHANGED <<release, linked, overtaken, itemVars, userVars>>

\* The published release is found.  Another process may have published since.
FindPublished(q) ==
  /\ tx[q] # None /\ tx[q].step = "timed"
  /\ tx' = [tx EXCEPT ![q].step = "found", ![q].other = NewestOrNone(With("published"))]
  /\ UNCHANGED <<release, linked, time, overtaken, itemVars, userVars>>

\* The published release is locked and marked, and the newest superseded one found:
\* while its row is held no other release becomes superseded or is put back.
BeginRollback(q) ==
  /\ ~Held(q) /\ release[q].status = "published"
  /\ Open(q, "rollback", release[q].at, "found", NewestOrNone(With("superseded")))
  /\ UNCHANGED <<release, linked, time, overtaken, itemVars, userVars>>

\* FOR UPDATE waits for the row that was found and looks at its status again; a
\* row that has changed is not returned.
LockOther(q) ==
  /\ tx[q] # None /\ tx[q].step = "found"
  /\ LET p    == tx[q].other
         want == IF tx[q].kind = "publish" THEN "published" ELSE "superseded"
     IN /\ p # None => ~Held(p)
        /\ tx' = [tx EXCEPT ![q].step = "locked",
                            ![q].other = IF p # None /\ release[p].status = want THEN p ELSE None]
  /\ UNCHANGED <<release, linked, time, overtaken, itemVars, userVars>>

Written(q) == tx[q] # None /\ tx[q].step = "locked"
Kept == With("published") \cup With("superseded")

\* quality_release_one_published_uq: no other release stays published.
Alone(q) == With("published") \subseteq {tx[q].other, q}

\* Mutated form of Step: the release that was found is left as it is.
StepAlone(q, own, other) == release' = [release EXCEPT ![q] = own]

Step(q, own, other) ==
  release' = [p \in Releases |-> IF p = q THEN own
                                 ELSE IF p = tx[q].other THEN [release[p] EXCEPT !.status = other]
                                 ELSE release[p]]

CommitPublish(q) ==
  /\ Written(q) /\ tx[q].kind = "publish" /\ Alone(q) /\ Sources(q) = tx[q].sources
  /\ Step(q, [status |-> "published", at |-> tx[q].at], "superseded")
  /\ status' = [f \in Items |-> IF f \in Sources(q) THEN "released" ELSE status[f]]
  /\ tx' = [tx EXCEPT ![q] = None]
  /\ overtaken' = (overtaken \/ \E p \in Kept : release[p].at > tx[q].at)
  /\ UNCHANGED <<linked, time, sub, files, strays, purge, userVars>>

\* published_at of the release that is put back is not touched.
CommitRollback(q) ==
  /\ Written(q) /\ tx[q].kind = "rollback"
  /\ Step(q, [release[q] EXCEPT !.status = "rolled_back"], "published")
  /\ tx' = [tx EXCEPT ![q] = None]
  /\ UNCHANGED <<linked, time, overtaken, itemVars, userVars>>

\* quality_release_publish_conflict, a source that is gone, or any other failure.
Abort(q) ==
  /\ tx[q] # None
  /\ tx' = [tx EXCEPT ![q] = None]
  /\ UNCHANGED <<release, linked, time, overtaken, itemVars, userVars>>

-----------------------------------------------------------------------------
Next ==
  \/ \E f \in Items : \/ Accept(f) \/ Save(f) \/ SaveFails(f) \/ SubmitRefused(f)
                      \/ CommitItem(f) \/ SubmitFails(f) \/ SubmitBreaks(f)
                      \/ PurgeFile(f) \/ \E s \in Statuses : UpdateItem(f, s)
  \/ \E i \in Installs : \/ ReadConsent(i) \/ StoreSample(i) \/ SampleBreaks(i)
                         \/ ReadPaths(i) \/ CommitDeletion(i) \/ DeletionBreaks(i)
                         \/ \E f \in Items : Unlink(i, f)
  \/ \E rows \in SUBSET Items : PurgeRead(rows)
  \/ PurgeCommit \/ PurgeBreaks
  \/ \E q \in Releases : \/ CreateRelease(q) \/ BeginPublish(q) \/ FindPublished(q)
                         \/ BeginRollback(q) \/ LockOther(q)
                         \/ CommitPublish(q) \/ CommitRollback(q) \/ Abort(q)

Spec == Init /\ [][Next]_vars

-----------------------------------------------------------------------------
\* Whatever transactions of several processes cross: while any release is published or
\* superseded, exactly one is published, so that a rollback never leaves the service
\* without the release before it.  It is the newest of them, unless a publication was
\* overtaken by one that took its time later.
OneIsActive ==
  Kept # {} => \E q \in Kept :
    With("published") = {q} /\ (overtaken \/ q = Newest(Kept))

\* No sample and no item of a deleted installation is in the database, whatever of it
\* was under way when it was deleted.
DeletedLeavesNoRow ==
  \A i \in Installs \ alive : i \notin samples /\ Owned(i) \cap Rows = {}

\* A screenshot without a row belongs to a submission under way or to a deleted
\* installation, or was left by a write that failed or a submission that was cut off:
\* no refusal, no failed commit and no purge, cut off or not, leaves one behind.
ScreenshotHasRow ==
  \A f \in files \ strays : f \in Rows \/ sub[f] = "saved" \/ OwnerOf[f] \notin alive

\* Both ways in which rows and files could be left over by steps of two transactions.
NothingIsLeftOver == DeletedLeavesNoRow /\ ScreenshotHasRow
=============================================================================
