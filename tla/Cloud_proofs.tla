---------------------------- MODULE Cloud_proofs ----------------------------
(***************************************************************************)
(* What holds of Reflex Cloud for every number of installations, calls,    *)
(* items and releases.  Of feedback: one release is active, and no row or  *)
(* file is left over.  Of optimize requests: every call that runs has the  *)
(* claim under its id, the gates hold for ids, and the books add up.       *)
(* Sets of the model may be infinite; what the code counts in them is      *)
(* shown to be finite.                                                     *)
(***************************************************************************)
EXTENDS Cloud, FiniteSetTheorems, WellFoundedInduction, TLAPS

\* Natural numbers are well ordered: every induction below is an appeal to this.
LEMMA LeastNumber ==
  ASSUME NEW T \in SUBSET Nat, T # {}
  PROVE  \E n \in T : \A m \in T : n <= m
<1> DEFINE R == {p \in Nat \X Nat : p[1] < p[2]}
<1>1. IsWellFoundedOn(R, Nat)
  BY NatLessThanWellFounded DEF OpToRel
<1> HIDE DEF R
<1>2. PICK n \in T : \A m \in T : ~ (<<m, n>> \in R)
  BY <1>1, WFMin
<1>3. \A m \in T : ~(m < n)
  BY <1>2 DEF R
<1> QED
  BY <1>3

-----------------------------------------------------------------------------
(* Feedback: the inductive invariant.                                      *)

Publishes(q) == tx[q] # None /\ tx[q].kind = "publish"
RollsBack(q) == tx[q] # None /\ tx[q].kind = "rollback"
Locks(q, p) == tx[q] # None /\ tx[q].step = "locked" /\ tx[q].other = p
Wanted(kind) == IF kind = "publish" THEN "published" ELSE "superseded"
Kept(q) == release[q].status \in {"published", "superseded"}

Transaction == [kind : {"publish", "rollback"}, at : 0..MaxTime, other : Releases \cup {None},
                sources : SUBSET Items, step : {"timed", "found", "locked"}]

FeedbackTypes == Feedback!TypeOK /\ tx \in [Releases -> Transaction \cup {None}]

\* One release is published, and newer than all that were superseded if no publication
\* was overtaken.
OneActive ==
  (\E q \in Releases : Kept(q)) =>
    \E n \in Releases :
      /\ release[n].status = "published"
      /\ \A p \in Releases \ {n} : Kept(p) =>
           release[p].status = "superseded" /\ (overtaken \/ release[p].at < release[n].at)

\* No two publications have one time, those under way included.
Times ==
  /\ \A p, q \in Releases : Kept(p) /\ Kept(q) /\ release[p].at = release[q].at => p = q
  /\ \A p, q \in Releases : Publishes(p) /\ Publishes(q) /\ tx[p].at = tx[q].at => p = q
  /\ \A p, q \in Releases : Publishes(p) /\ Kept(q) => tx[p].at # release[q].at
  /\ \A p \in Releases : Publishes(p) => tx[p].at <= time
  /\ \A p \in Releases : Kept(p) => release[p].at <= time

\* A transaction holds its own row and the one it locked: both stay as it found them.
Holds ==
  \A q \in Releases :
    /\ Publishes(q) => release[q].status = "draft"
    /\ RollsBack(q) => /\ release[q].status = "published" /\ release[q].at = tx[q].at
                       /\ tx[q].step # "timed"
    /\ \A p \in Releases : Locks(q, p) =>
         /\ tx[p] = None /\ release[p].status = Wanted(tx[q].kind)
         /\ \A r \in Releases : Locks(r, p) => r = q

\* What a publication found is no draft any more.
FoundReleased ==
  \A q, p \in Releases :
    Publishes(q) /\ tx[q].other = p => release[p].status \notin {"none", "draft"}

\* While a rollback is open, what it found stays the newest of the superseded releases.
FoundNewest ==
  \A q \in Releases : RollsBack(q) =>
    \/ tx[q].other = None /\ (\A p \in Releases : release[p].status # "superseded")
    \/ /\ tx[q].other \in Releases /\ release[tx[q].other].status = "superseded"
       /\ \A p \in Releases : release[p].status = "superseded" =>
            release[p].at <= release[tx[q].other].at

ReleaseInv == OneActive /\ Times /\ Holds /\ FoundReleased /\ FoundNewest

\* A release is linked to items that are there.
LinkedHaveRows == \A l \in linked : status[l[2]] # None

FeedbackInv == FeedbackTypes /\ ReleaseInv /\ LinkedHaveRows /\ NothingIsLeftOver

-----------------------------------------------------------------------------
(* Operators.                                                              *)

\* The newest of some releases is one of them, and none of them is newer.
LEMMA NewestIsNewest ==
  ASSUME FeedbackTypes, NEW S \in SUBSET Releases, S # {}
  PROVE  /\ Feedback!Newest(S) \in S
         /\ \A p \in S : release[p].at <= release[Feedback!Newest(S)].at
<1>1. MaxTime \in Nat /\ \A q \in S : release[q].at \in 0..MaxTime
  BY FeedbackConstants DEF FeedbackTypes, Feedback!TypeOK, Feedback!FeedbackAssumption
<1> DEFINE T == {n \in Nat : \E q \in S : n = MaxTime - release[q].at}
<1>2. T # {}
  <2>1. PICK q \in S : TRUE
    OBVIOUS
  <2>2. MaxTime - release[q].at \in T
    BY <1>1, <2>1
  <2> QED
    BY <2>2
<1>3. PICK n \in T : \A m \in T : n <= m
  BY <1>2, LeastNumber
<1>4. PICK q \in S : n = MaxTime - release[q].at
  OBVIOUS
<1>5. ASSUME NEW p \in S
      PROVE  release[p].at <= release[q].at
  <2>1. MaxTime - release[p].at \in T
    BY <1>1
  <2> QED
    BY <1>1, <1>3, <1>4, <2>1
<1> HIDE DEF T
<1> QED
  BY <1>5 DEF Feedback!Newest

\* The release a transaction finds, if there is one.
LEMMA FoundIsNewest ==
  ASSUME FeedbackTypes, NEW s
  PROVE  LET o == Feedback!NewestOrNone(Feedback!With(s)) IN
         \/ o = None /\ (\A p \in Releases : release[p].status # s)
         \/ /\ o \in Releases /\ release[o].status = s
            /\ \A p \in Releases : release[p].status = s => release[p].at <= release[o].at
<1>1. Feedback!With(s) \subseteq Releases
  BY DEF Feedback!With
<1>2. CASE Feedback!With(s) = {}
  BY <1>2 DEF Feedback!NewestOrNone, Feedback!With
<1>3. CASE Feedback!With(s) # {}
  <2>1. /\ Feedback!Newest(Feedback!With(s)) \in Feedback!With(s)
        /\ \A p \in Feedback!With(s) :
             release[p].at <= release[Feedback!Newest(Feedback!With(s))].at
    BY <1>1, <1>3, NewestIsNewest
  <2>2. Feedback!NewestOrNone(Feedback!With(s)) = Feedback!Newest(Feedback!With(s))
    BY <1>3 DEF Feedback!NewestOrNone
  <2> QED
    BY <2>1, <2>2 DEF Feedback!With
<1> QED
  BY <1>2, <1>3

-----------------------------------------------------------------------------
(* Types.                                                                  *)

\* What begins a transaction on a release.
LEMMA OpenTypes ==
  ASSUME FeedbackTypes, NEW q \in Releases, NEW kind \in {"publish", "rollback"},
         NEW at \in 0..MaxTime, NEW step \in {"timed", "found"},
         NEW o \in Releases \cup {None}, Feedback!Open(q, kind, at, step, o)
  PROVE  \E t \in Transaction :
           /\ tx' = [tx EXCEPT ![q] = t]
           /\ t.kind = kind /\ t.at = at /\ t.other = o /\ t.step = step
<1> DEFINE t == [kind |-> kind, at |-> at, other |-> o, sources |-> Feedback!Sources(q),
                 step |-> step]
<1>1. t \in Transaction
  BY DEF Transaction, Feedback!Sources
<1>2. tx' = [tx EXCEPT ![q] = t]
  BY DEF Feedback!Open
<1> QED
  BY <1>1, <1>2

\* What a publication finds after it has taken its time.
LEMMA FindTypes ==
  ASSUME FeedbackTypes, NEW q \in Releases, Feedback!FindPublished(q)
  PROVE  /\ tx[q] \in Transaction /\ tx[q] # None /\ tx[q].step = "timed"
         /\ \E t \in Transaction :
              /\ tx' = [tx EXCEPT ![q] = t]
              /\ t.kind = tx[q].kind /\ t.at = tx[q].at /\ t.step = "found"
              /\ t.other = Feedback!NewestOrNone(Feedback!With("published"))
<1>1. tx[q] \in Transaction /\ tx[q] # None /\ tx[q].step = "timed"
  BY DEF Feedback!FindPublished, FeedbackTypes
<1> DEFINE o == Feedback!NewestOrNone(Feedback!With("published"))
           t == [tx[q] EXCEPT !.step = "found", !.other = o]
<1>2. o \in Releases \cup {None}
  BY FoundIsNewest
<1>3. t \in Transaction /\ t.kind = tx[q].kind /\ t.at = tx[q].at /\ t.step = "found" /\ t.other = o
  BY <1>1, <1>2 DEF Transaction
<1>4. tx' = [tx EXCEPT ![q] = t]
  BY DEF Feedback!FindPublished, FeedbackTypes
<1> HIDE DEF t
<1> QED
  BY <1>1, <1>3, <1>4

\* What a lock leaves of a transaction.
LEMMA LockTypes ==
  ASSUME FeedbackTypes, NEW q \in Releases, Feedback!LockOther(q)
  PROVE  /\ tx[q] \in Transaction /\ tx[q] # None /\ tx[q].step = "found"
         /\ \E t \in Transaction :
              /\ tx' = [tx EXCEPT ![q] = t]
              /\ t.kind = tx[q].kind /\ t.at = tx[q].at /\ t.step = "locked"
              /\ t.other \in {None, tx[q].other}
              /\ tx[q].other # None =>
                   ~Feedback!Held(tx[q].other)
              /\ t.other # None => release[t.other].status = Wanted(t.kind)
              /\ (tx[q].other # None /\ release[tx[q].other].status = Wanted(tx[q].kind))
                   => t.other = tx[q].other
<1>1. tx[q] \in Transaction /\ tx[q] # None /\ tx[q].step = "found"
  BY DEF Feedback!LockOther, FeedbackTypes
<1> DEFINE p == tx[q].other
           o == IF p # None /\ release[p].status = Wanted(tx[q].kind) THEN p ELSE None
           t == [tx[q] EXCEPT !.step = "locked", !.other = o]
<1>2. t \in Transaction /\ t.kind = tx[q].kind /\ t.at = tx[q].at /\ t.step = "locked" /\ t.other = o
  BY <1>1 DEF Transaction
<1>3. tx' = [tx EXCEPT ![q] = t]
  BY DEF Feedback!LockOther, Wanted, FeedbackTypes
<1>4. p # None => ~Feedback!Held(p)
  BY DEF Feedback!LockOther
<1> HIDE DEF t
<1> QED
  BY <1>1, <1>2, <1>3, <1>4

\* The part of the types that is about items and installations, and the part about releases.
UserTypes ==
  /\ alive \subseteq Senders /\ samples \subseteq Senders /\ sampling \subseteq Senders
  /\ sub \in [Items -> {"idle", "checked", "saved", "over"}]
  /\ status \in [Items -> {"open", "fixed", "released"} \cup {None}] /\ files \subseteq Items
  /\ strays \subseteq Items
  /\ deletion \in [Senders -> [step : {"no", "read", "unlink"}, paths : SUBSET Items]]
  /\ (purge = None \/ purge \subseteq Items)

ReleaseRow == [status : {"none", "draft", "published", "superseded", "rolled_back"}, at : 0..MaxTime]

QualityTypes ==
  /\ release \in [Releases -> ReleaseRow]
  /\ linked \subseteq Releases \X Items /\ time \in 0..MaxTime /\ overtaken \in BOOLEAN
  /\ tx \in [Releases -> Transaction \cup {None}]

LEMMA TypesInParts ==
  /\ FeedbackTypes <=> UserTypes /\ QualityTypes
  /\ FeedbackTypes' <=> UserTypes' /\ QualityTypes'
  BY DEF FeedbackTypes, Feedback!TypeOK, Feedback!Statuses, UserTypes, QualityTypes, Transaction,
         ReleaseRow

\* Nothing of a release changes, except that rows of linked may be dropped.
QualityRests == /\ release' = release /\ tx' = tx /\ time' = time /\ overtaken' = overtaken
                /\ linked' \subseteq linked

\* The steps of users and of the retention loop.
UserStep ==
  \/ \E f \in Items : \/ Feedback!Accept(f) \/ Feedback!Save(f) \/ Feedback!SaveFails(f)
                      \/ Feedback!SubmitRefused(f) \/ Feedback!CommitItem(f)
                      \/ Feedback!SubmitFails(f) \/ Feedback!SubmitBreaks(f)
                      \/ Feedback!PurgeFile(f)
                      \/ \E s \in Feedback!Statuses : Feedback!UpdateItem(f, s)
  \/ \E i \in Senders : \/ Feedback!ReadConsent(i) \/ Feedback!StoreSample(i)
                        \/ Feedback!SampleBreaks(i)
                        \/ Feedback!ReadPaths(i) \/ Feedback!CommitDeletion(i)
                        \/ Feedback!DeletionBreaks(i)
                        \/ \E f \in Items : Feedback!Unlink(i, f)
  \/ \E rows \in SUBSET Items : Feedback!PurgeRead(rows)
  \/ Feedback!PurgeCommit \/ Feedback!PurgeBreaks

\* The steps of a transaction on a release.
QualityStep(q) ==
  \/ Feedback!CreateRelease(q) \/ Feedback!BeginPublish(q) \/ Feedback!FindPublished(q)
  \/ Feedback!BeginRollback(q) \/ Feedback!LockOther(q) \/ Feedback!CommitPublish(q)
  \/ Feedback!CommitRollback(q) \/ Feedback!Abort(q)

LEMMA FeedbackSteps == Feedback!Next <=> UserStep \/ \E q \in Releases : QualityStep(q)
  BY DEF Feedback!Next, UserStep, QualityStep

LEMMA UserStepRests == UserStep => QualityRests
<1> USE DEF Feedback!qualityVars, Feedback!userVars, Feedback!itemVars, QualityRests
<1>1. ASSUME NEW f \in Items,
             \/ Feedback!Accept(f) \/ Feedback!Save(f) \/ Feedback!SaveFails(f)
             \/ Feedback!SubmitRefused(f) \/ Feedback!CommitItem(f) \/ Feedback!SubmitFails(f)
             \/ Feedback!SubmitBreaks(f) \/ Feedback!PurgeFile(f)
             \/ \E s \in Feedback!Statuses : Feedback!UpdateItem(f, s)
      PROVE  QualityRests
  BY <1>1 DEF Feedback!Accept, Feedback!Save, Feedback!SaveFails, Feedback!SubmitRefused,
              Feedback!CommitItem, Feedback!SubmitFails, Feedback!SubmitBreaks,
              Feedback!PurgeFile, Feedback!UpdateItem
<1>2. ASSUME NEW i \in Senders,
             \/ Feedback!ReadConsent(i) \/ Feedback!StoreSample(i) \/ Feedback!SampleBreaks(i)
             \/ Feedback!ReadPaths(i) \/ Feedback!CommitDeletion(i) \/ Feedback!DeletionBreaks(i)
             \/ \E f \in Items : Feedback!Unlink(i, f)
      PROVE  QualityRests
  BY <1>2 DEF Feedback!ReadConsent, Feedback!StoreSample, Feedback!SampleBreaks,
              Feedback!ReadPaths, Feedback!CommitDeletion, Feedback!DeletionBreaks,
              Feedback!Unlink, Feedback!Drop
<1>3. ASSUME NEW rows \in SUBSET Items, Feedback!PurgeRead(rows)
      PROVE  QualityRests
  BY <1>3 DEF Feedback!PurgeRead
<1>4. CASE Feedback!PurgeCommit \/ Feedback!PurgeBreaks
  BY <1>4 DEF Feedback!PurgeCommit, Feedback!PurgeBreaks, Feedback!Drop
<1> QED
  BY <1>1, <1>2, <1>3, <1>4 DEF UserStep

LEMMA UserStepTypes ==
  ASSUME UserTypes, UserStep
  PROVE  UserTypes'
<1> USE DEF Feedback!qualityVars, Feedback!userVars, Feedback!itemVars, UserTypes, Feedback!At
<1>1. ASSUME NEW f \in Items, Feedback!Accept(f)
      PROVE  UserTypes'
  BY <1>1 DEF Feedback!Accept
<1>2. ASSUME NEW f \in Items, Feedback!Save(f)
      PROVE  UserTypes'
  BY <1>2 DEF Feedback!Save
<1>3. ASSUME NEW f \in Items, Feedback!SaveFails(f)
      PROVE  UserTypes'
  BY <1>3 DEF Feedback!SaveFails
<1>4. ASSUME NEW f \in Items, Feedback!SubmitRefused(f)
      PROVE  UserTypes'
  BY <1>4 DEF Feedback!SubmitRefused
<1>5. ASSUME NEW f \in Items, Feedback!CommitItem(f)
      PROVE  UserTypes'
  BY <1>5 DEF Feedback!CommitItem
<1>6. ASSUME NEW f \in Items, Feedback!SubmitFails(f)
      PROVE  UserTypes'
  BY <1>6 DEF Feedback!SubmitFails
<1>7. ASSUME NEW f \in Items, Feedback!SubmitBreaks(f)
      PROVE  UserTypes'
  BY <1>7 DEF Feedback!SubmitBreaks
<1>8. ASSUME NEW f \in Items, Feedback!PurgeFile(f)
      PROVE  UserTypes'
  BY <1>8 DEF Feedback!PurgeFile
<1>9. ASSUME NEW f \in Items, NEW s \in Feedback!Statuses, Feedback!UpdateItem(f, s)
      PROVE  UserTypes'
  BY <1>9 DEF Feedback!UpdateItem, Feedback!Statuses
<1>10. ASSUME NEW i \in Senders, Feedback!ReadConsent(i)
       PROVE  UserTypes'
  BY <1>10 DEF Feedback!ReadConsent
<1>11. ASSUME NEW i \in Senders, Feedback!StoreSample(i)
       PROVE  UserTypes'
  BY <1>11 DEF Feedback!StoreSample
<1>12. ASSUME NEW i \in Senders, Feedback!SampleBreaks(i)
       PROVE  UserTypes'
  BY <1>12 DEF Feedback!SampleBreaks
<1>13. ASSUME NEW i \in Senders, Feedback!ReadPaths(i)
       PROVE  UserTypes'
  BY <1>13 DEF Feedback!ReadPaths, Feedback!Rows
<1>14. ASSUME NEW i \in Senders, Feedback!CommitDeletion(i)
       PROVE  UserTypes'
  BY <1>14 DEF Feedback!CommitDeletion, Feedback!Drop
<1>15. ASSUME NEW i \in Senders, Feedback!DeletionBreaks(i)
       PROVE  UserTypes'
  BY <1>15 DEF Feedback!DeletionBreaks
<1>16. ASSUME NEW i \in Senders, NEW f \in Items, Feedback!Unlink(i, f)
       PROVE  UserTypes'
  BY <1>16 DEF Feedback!Unlink
<1>17. ASSUME NEW rows \in SUBSET Items, Feedback!PurgeRead(rows)
       PROVE  UserTypes'
  BY <1>17 DEF Feedback!PurgeRead
<1>18. CASE Feedback!PurgeCommit
  BY <1>18 DEF Feedback!PurgeCommit, Feedback!Drop
<1>19. CASE Feedback!PurgeBreaks
  BY <1>19 DEF Feedback!PurgeBreaks
<1> QED
  BY <1>1, <1>2, <1>3, <1>4, <1>5, <1>6, <1>7, <1>8, <1>9, <1>10, <1>11, <1>12, <1>13, <1>14,
     <1>15, <1>16, <1>17, <1>18, <1>19
  DEF UserStep

\* A commit rewrites its own release and the one it locked.
LEMMA StepTypes ==
  ASSUME FeedbackTypes, NEW q \in Releases, NEW own \in ReleaseRow,
         NEW s \in {"published", "superseded"}, Feedback!Step(q, own, s)
  PROVE  /\ release' \in [Releases -> ReleaseRow]
         /\ release'[q] = own
         /\ \A p \in Releases \ {q} :
              /\ release'[p].at = release[p].at
              /\ release'[p].status = IF p = tx[q].other THEN s ELSE release[p].status
<1>1. release \in [Releases -> ReleaseRow]
  BY TypesInParts DEF QualityTypes
<1>2. \A p \in Releases : [release[p] EXCEPT !.status = s] \in ReleaseRow
  BY <1>1 DEF ReleaseRow
<1> QED
  BY <1>1, <1>2 DEF Feedback!Step, ReleaseRow

LEMMA QualityStepTypes ==
  ASSUME FeedbackTypes, NEW q \in Releases, QualityStep(q)
  PROVE  QualityTypes' /\ UserTypes'
<1> USE DEF Feedback!userVars, Feedback!itemVars
<1>0. QualityTypes /\ UserTypes /\ MaxTime \in Nat /\ SourcesOf \in [Releases -> SUBSET Items]
  BY TypesInParts, FeedbackConstants DEF Feedback!FeedbackAssumption
<1>1. CASE Feedback!CreateRelease(q)
  <2>1. [release[q] EXCEPT !.status = "draft"] \in ReleaseRow
    BY <1>0 DEF QualityTypes, ReleaseRow
  <2>2. release' = [release EXCEPT ![q] = [release[q] EXCEPT !.status = "draft"]]
    BY <1>0, <1>1 DEF Feedback!CreateRelease, QualityTypes
  <2>3. linked' \subseteq Releases \X Items
    BY <1>0, <1>1 DEF Feedback!CreateRelease, QualityTypes
  <2> QED
    BY <1>0, <1>1, <2>1, <2>2, <2>3 DEF Feedback!CreateRelease, QualityTypes, UserTypes
<1>2. CASE Feedback!BeginPublish(q)
  <2>1. time + 1 \in 0..MaxTime
    BY <1>0, <1>2 DEF Feedback!BeginPublish, QualityTypes
  <2>2. tx' \in [Releases -> Transaction \cup {None}]
    BY <1>0, <1>2, <2>1, OpenTypes DEF Feedback!BeginPublish, QualityTypes
  <2> QED
    BY <1>0, <1>2, <2>1, <2>2 DEF Feedback!BeginPublish, QualityTypes, UserTypes
<1>3. CASE Feedback!BeginRollback(q)
  <2>1. release[q].at \in 0..MaxTime
    BY <1>0 DEF QualityTypes, ReleaseRow
  <2>3. Feedback!NewestOrNone(Feedback!With("superseded")) \in Releases \cup {None}
    BY FoundIsNewest
  <2>2. tx' \in [Releases -> Transaction \cup {None}]
    BY <1>0, <1>3, <2>1, <2>3, OpenTypes DEF Feedback!BeginRollback, QualityTypes
  <2> QED
    BY <1>0, <1>3, <2>2 DEF Feedback!BeginRollback, QualityTypes, UserTypes
<1>4. CASE Feedback!LockOther(q)
  <2>1. tx' \in [Releases -> Transaction \cup {None}]
    BY <1>0, <1>4, LockTypes DEF QualityTypes
  <2> QED
    BY <1>0, <1>4, <2>1 DEF Feedback!LockOther, QualityTypes, UserTypes
<1>5. CASE Feedback!CommitPublish(q)
  <2>1. tx[q] \in Transaction
    BY <1>0, <1>5 DEF Feedback!CommitPublish, Feedback!Written, QualityTypes
  <2>2. [status |-> "published", at |-> tx[q].at] \in ReleaseRow
    BY <2>1 DEF Transaction, ReleaseRow
  <2>3. release' \in [Releases -> ReleaseRow]
    BY <1>5, <2>2, StepTypes DEF Feedback!CommitPublish
  <2> QED
    BY <1>0, <1>5, <2>3 DEF Feedback!CommitPublish, QualityTypes, UserTypes
<1>6. CASE Feedback!CommitRollback(q)
  <2>1. [release[q] EXCEPT !.status = "rolled_back"] \in ReleaseRow
    BY <1>0 DEF QualityTypes, ReleaseRow
  <2>2. release' \in [Releases -> ReleaseRow]
    BY <1>6, <2>1, StepTypes DEF Feedback!CommitRollback
  <2> QED
    BY <1>0, <1>6, <2>2 DEF Feedback!CommitRollback, QualityTypes, UserTypes
<1>7. CASE Feedback!Abort(q)
  BY <1>0, <1>7 DEF Feedback!Abort, QualityTypes, UserTypes
<1>8. CASE Feedback!FindPublished(q)
  <2>1. tx' \in [Releases -> Transaction \cup {None}]
    BY <1>0, <1>8, FindTypes DEF QualityTypes
  <2> QED
    BY <1>0, <1>8, <2>1 DEF Feedback!FindPublished, QualityTypes, UserTypes
<1> QED
  BY <1>1, <1>2, <1>3, <1>4, <1>5, <1>6, <1>7, <1>8 DEF QualityStep

\* The state of the feedback side stays well typed.
LEMMA NextTypes ==
  ASSUME FeedbackTypes, [Feedback!Next]_Feedback!vars
  PROVE  FeedbackTypes'
<1>1. QualityTypes /\ UserTypes
  BY TypesInParts
<1>2. CASE UserStep
  BY <1>1, <1>2, UserStepTypes, UserStepRests, TypesInParts DEF QualityRests, QualityTypes
<1>3. CASE \E q \in Releases : QualityStep(q)
  BY <1>3, QualityStepTypes, TypesInParts
<1>4. CASE UNCHANGED Feedback!vars
  BY <1>1, <1>4, TypesInParts
  DEF QualityTypes, UserTypes, Feedback!vars, Feedback!itemVars, Feedback!userVars,
      Feedback!qualityVars
<1> QED
  BY <1>2, <1>3, <1>4, FeedbackSteps

-----------------------------------------------------------------------------
(* Rows and files.                                                         *)

LeftOverInv == LinkedHaveRows /\ NothingIsLeftOver

\* A submission commits and a sample is stored only while the installation is there; what refers
\* to the rows of others goes with them.
LEMMA UserStepLeavesNothing ==
  ASSUME FeedbackTypes, LeftOverInv, UserStep
  PROVE  LeftOverInv'
<1> USE DEF Feedback!qualityVars, Feedback!userVars, Feedback!itemVars, LeftOverInv, LinkedHaveRows,
            NothingIsLeftOver, Feedback!NothingIsLeftOver, Feedback!DeletedLeavesNoRow,
            Feedback!ScreenshotHasRow, Feedback!Rows, Feedback!Owned, Feedback!At
<1>0. /\ UserTypes /\ linked \subseteq Releases \X Items
      /\ None \notin {"open", "fixed", "released"} /\ OwnerOf \in [Items -> Senders]
  BY TypesInParts, FeedbackConstants DEF Feedback!FeedbackAssumption, QualityTypes
<1> USE DEF UserTypes
<1>1. ASSUME NEW f \in Items, Feedback!Accept(f)
      PROVE  LeftOverInv'
  BY <1>0, <1>1 DEF Feedback!Accept
<1>2. ASSUME NEW f \in Items, Feedback!Save(f)
      PROVE  LeftOverInv'
  BY <1>0, <1>2 DEF Feedback!Save
<1>3. ASSUME NEW f \in Items, Feedback!SaveFails(f)
      PROVE  LeftOverInv'
  BY <1>0, <1>3 DEF Feedback!SaveFails
<1>4. ASSUME NEW f \in Items, Feedback!SubmitRefused(f)
      PROVE  LeftOverInv'
  BY <1>0, <1>4 DEF Feedback!SubmitRefused
<1>5. ASSUME NEW f \in Items, Feedback!CommitItem(f)
      PROVE  LeftOverInv'
  BY <1>0, <1>5 DEF Feedback!CommitItem
<1>6. ASSUME NEW f \in Items, Feedback!SubmitFails(f)
      PROVE  LeftOverInv'
  BY <1>0, <1>6 DEF Feedback!SubmitFails
<1>7. ASSUME NEW f \in Items, Feedback!SubmitBreaks(f)
      PROVE  LeftOverInv'
  BY <1>0, <1>7 DEF Feedback!SubmitBreaks
<1>8. ASSUME NEW f \in Items, Feedback!PurgeFile(f)
      PROVE  LeftOverInv'
  BY <1>0, <1>8 DEF Feedback!PurgeFile
<1>9. ASSUME NEW f \in Items, NEW s \in Feedback!Statuses, Feedback!UpdateItem(f, s)
      PROVE  LeftOverInv'
  BY <1>0, <1>9 DEF Feedback!UpdateItem, Feedback!Statuses
<1>10. ASSUME NEW i \in Senders, Feedback!ReadConsent(i)
       PROVE  LeftOverInv'
  BY <1>0, <1>10 DEF Feedback!ReadConsent
<1>11. ASSUME NEW i \in Senders, Feedback!StoreSample(i)
       PROVE  LeftOverInv'
  BY <1>0, <1>11 DEF Feedback!StoreSample
<1>12. ASSUME NEW i \in Senders, Feedback!SampleBreaks(i)
       PROVE  LeftOverInv'
  BY <1>0, <1>12 DEF Feedback!SampleBreaks
<1>13. ASSUME NEW i \in Senders, Feedback!ReadPaths(i)
       PROVE  LeftOverInv'
  BY <1>0, <1>13 DEF Feedback!ReadPaths
<1>14. ASSUME NEW i \in Senders, Feedback!CommitDeletion(i)
       PROVE  LeftOverInv'
  BY <1>0, <1>14 DEF Feedback!CommitDeletion, Feedback!Drop
<1>15. ASSUME NEW i \in Senders, Feedback!DeletionBreaks(i)
       PROVE  LeftOverInv'
  BY <1>0, <1>15 DEF Feedback!DeletionBreaks
<1>16. ASSUME NEW i \in Senders, NEW f \in Items, Feedback!Unlink(i, f)
       PROVE  LeftOverInv'
  BY <1>0, <1>16 DEF Feedback!Unlink
<1>17. ASSUME NEW rows \in SUBSET Items, Feedback!PurgeRead(rows)
       PROVE  LeftOverInv'
  BY <1>0, <1>17 DEF Feedback!PurgeRead
<1>18. CASE Feedback!PurgeCommit
  BY <1>0, <1>18 DEF Feedback!PurgeCommit, Feedback!Drop
<1>19. CASE Feedback!PurgeBreaks
  BY <1>0, <1>19 DEF Feedback!PurgeBreaks
<1> QED
  BY <1>1, <1>2, <1>3, <1>4, <1>5, <1>6, <1>7, <1>8, <1>9, <1>10, <1>11, <1>12, <1>13, <1>14,
     <1>15, <1>16, <1>17, <1>18, <1>19
  DEF UserStep

\* A publication sets the status of items that are linked, and so are there.
LEMMA QualityStepLeavesNothing ==
  ASSUME FeedbackTypes, LeftOverInv, NEW q \in Releases, QualityStep(q)
  PROVE  LeftOverInv'
<1> USE DEF Feedback!userVars, Feedback!itemVars, LeftOverInv, LinkedHaveRows,
            NothingIsLeftOver, Feedback!NothingIsLeftOver, Feedback!DeletedLeavesNoRow,
            Feedback!ScreenshotHasRow, Feedback!Rows, Feedback!Owned
<1>0. /\ UserTypes /\ linked \subseteq Releases \X Items
      /\ None \notin {"open", "fixed", "released"} /\ OwnerOf \in [Items -> Senders]
  BY TypesInParts, FeedbackConstants DEF Feedback!FeedbackAssumption, QualityTypes
<1>1. CASE Feedback!CreateRelease(q)
  BY <1>0, <1>1 DEF Feedback!CreateRelease
<1>2. CASE UNCHANGED <<linked, Feedback!itemVars, Feedback!userVars>>
  <2>1. /\ linked' = linked /\ status' = status /\ files' = files /\ sub' = sub
        /\ strays' = strays /\ alive' = alive /\ samples' = samples
    BY <1>2
  <2> QED
    BY <2>1
<1>3. CASE Feedback!CommitPublish(q)
  BY <1>0, <1>3 DEF Feedback!CommitPublish, Feedback!Sources, UserTypes
<1> QED
  BY <1>1, <1>2, <1>3
  DEF QualityStep, Feedback!BeginPublish, Feedback!FindPublished, Feedback!BeginRollback,
      Feedback!LockOther, Feedback!CommitRollback, Feedback!Abort

-----------------------------------------------------------------------------
(* One release is active.                                                  *)

LEMMA RestingReleases == ReleaseInv /\ QualityRests => ReleaseInv'
  BY DEF QualityRests, ReleaseInv, OneActive, Times, Holds, FoundReleased, FoundNewest, Kept,
         Publishes, RollsBack, Locks

\* What the proofs of the steps need of the types.
LEMMA ReleaseFacts ==
  ASSUME FeedbackTypes
  PROVE  /\ \A q \in Releases : release[q].at \in Nat
         /\ \A q \in Releases : tx[q] # None => /\ tx[q] \in Transaction /\ tx[q].at \in Nat
                                               /\ (Publishes(q) \/ RollsBack(q))
         /\ time \in Nat /\ None \notin Releases
         /\ \A t : \A q \in Releases : tx' = [tx EXCEPT ![q] = t] =>
              tx'[q] = t /\ \A p \in Releases \ {q} : tx'[p] = tx[p]
<1>1. QualityTypes /\ MaxTime \in Nat /\ None \notin Releases
  BY TypesInParts, FeedbackConstants DEF Feedback!FeedbackAssumption
<1> QED
  BY <1>1 DEF QualityTypes, ReleaseRow, Transaction, Publishes, RollsBack

LEMMA CreateReleaseSafe ==
  ASSUME FeedbackTypes, ReleaseInv, NEW q \in Releases, Feedback!CreateRelease(q)
  PROVE  ReleaseInv'
<1>1. /\ tx' = tx /\ time' = time /\ overtaken' = overtaken /\ release[q].status = "none" /\ release'[q].status = "draft"
      /\ \A p \in Releases : release'[p].at = release[p].at
      /\ \A p \in Releases \ {q} : release'[p].status = release[p].status
  BY TypesInParts DEF Feedback!CreateRelease, QualityTypes, ReleaseRow
<1>2. \A p \in Releases : Kept(p)' <=> Kept(p)
  BY <1>1 DEF Kept
<1>3. \A p, r \in Releases : /\ Publishes(p)' <=> Publishes(p)
                             /\ RollsBack(p)' <=> RollsBack(p)
                             /\ Locks(p, r)' <=> Locks(p, r)
  BY <1>1 DEF Publishes, RollsBack, Locks
<1>4. OneActive'
  BY <1>1, <1>2 DEF ReleaseInv, OneActive
<1>5. Times'
  BY <1>1, <1>2, <1>3 DEF ReleaseInv, Times
<1>6. Holds'
  BY <1>1, <1>3 DEF ReleaseInv, Holds, Wanted
<1>7. FoundReleased' /\ FoundNewest'
  BY <1>1, <1>3 DEF ReleaseInv, FoundReleased, FoundNewest
<1> QED
  BY <1>4, <1>5, <1>6, <1>7 DEF ReleaseInv

\* A publication begins with the newest time, a rollback with the newest superseded release.
LEMMA BeginSafe ==
  ASSUME FeedbackTypes, ReleaseInv, NEW q \in Releases,
         Feedback!BeginPublish(q) \/ Feedback!BeginRollback(q)
  PROVE  ReleaseInv'
<1>1. /\ release' = release /\ overtaken' = overtaken /\ tx[q] = None
      /\ \A p \in Releases : ~Locks(p, q)
  BY DEF Feedback!BeginPublish, Feedback!BeginRollback, Feedback!Held, Locks
<1>2. /\ \A p \in Releases : release[p].at \in Nat
      /\ \A p \in Releases : tx[p] # None => tx[p].at \in Nat
      /\ time \in Nat /\ None \notin Releases
  BY ReleaseFacts
<1> DEFINE Begun(t) ==
        /\ tx' = [tx EXCEPT ![q] = t]
        /\ \/ /\ t.kind = "publish" /\ t.step = "timed" /\ t.other = None
              /\ release[q].status = "draft" /\ t.at = time + 1 /\ time' = time + 1
           \/ /\ t.kind = "rollback" /\ t.step = "found"
              /\ t.other = Feedback!NewestOrNone(Feedback!With("superseded"))
              /\ release[q].status = "published" /\ t.at = release[q].at /\ time' = time
<1>3. \E t \in Transaction : Begun(t)
  <2>1. CASE Feedback!BeginPublish(q)
    <3>1. time + 1 \in 0..MaxTime
      BY <1>2, <2>1, FeedbackConstants DEF Feedback!BeginPublish, Feedback!FeedbackAssumption
    <3> QED
      BY <2>1, <3>1, OpenTypes DEF Feedback!BeginPublish
  <2>2. CASE Feedback!BeginRollback(q)
    <3>1. release[q].at \in 0..MaxTime
      BY TypesInParts DEF QualityTypes, ReleaseRow
    <3>2. Feedback!NewestOrNone(Feedback!With("superseded")) \in Releases \cup {None}
      BY FoundIsNewest
    <3> QED
      BY <2>2, <3>1, <3>2, OpenTypes DEF Feedback!BeginRollback
  <2> QED
    BY <2>1, <2>2
<1>4. PICK t \in Transaction : Begun(t)
  BY <1>3
<1>5. /\ tx'[q] = t
      /\ \A p \in Releases \ {q} : tx'[p] = tx[p]
  BY <1>4, ReleaseFacts
<1>6. t.kind = "rollback" =>
        \/ t.other = None /\ (\A p \in Releases : release[p].status # "superseded")
        \/ /\ t.other \in Releases /\ release[t.other].status = "superseded"
           /\ \A p \in Releases : release[p].status = "superseded" =>
                release[p].at <= release[t.other].at
  BY <1>4, FoundIsNewest
<1>7. OneActive'
  BY <1>1 DEF ReleaseInv, OneActive, Kept
<1>8. \A p \in Releases \ {q} : /\ Publishes(p)' <=> Publishes(p)
                                /\ RollsBack(p)' <=> RollsBack(p)
                                /\ \A r \in Releases : Locks(p, r)' <=> Locks(p, r)
  BY <1>5 DEF Publishes, RollsBack, Locks
<1>9. /\ Publishes(q)' => t.kind = "publish"
      /\ RollsBack(q)' => t.kind = "rollback"
      /\ \A r \in Releases : ~Locks(q, r)'
  BY <1>4, <1>5 DEF Publishes, RollsBack, Locks
<1>10. \A p \in Releases : Kept(p)' <=> Kept(p)
  BY <1>1 DEF Kept
<1>11. Times'
  <2>1. \A p \in Releases : Publishes(p) => tx[p].at \in Nat
    BY <1>2 DEF Publishes
  <2> QED
    BY <1>1, <1>2, <1>4, <1>5, <1>8, <1>9, <1>10, <2>1 DEF ReleaseInv, Times
<1>12. Holds'
  <2>1. \A p, r \in Releases : Locks(p, r) => r # q
    BY <1>1
  <2> QED
    BY <1>1, <1>4, <1>5, <1>8, <1>9, <2>1 DEF ReleaseInv, Holds
<1>13. FoundReleased'
  BY <1>1, <1>2, <1>4, <1>5, <1>8, <1>9 DEF ReleaseInv, FoundReleased
<1>14. FoundNewest'
  BY <1>1, <1>4, <1>5, <1>6, <1>8, <1>9 DEF ReleaseInv, FoundNewest
<1> QED
  BY <1>7, <1>11, <1>12, <1>13, <1>14 DEF ReleaseInv

\* A publication finds a release that is published when it looks.
LEMMA FindSafe ==
  ASSUME FeedbackTypes, ReleaseInv, NEW q \in Releases, Feedback!FindPublished(q)
  PROVE  ReleaseInv'
<1>1. /\ tx[q] # None /\ tx[q].step = "timed" /\ release' = release /\ time' = time
      /\ overtaken' = overtaken /\ None \notin Releases
  BY FindTypes, ReleaseFacts DEF Feedback!FindPublished
<1>2. Publishes(q)
  BY <1>1, ReleaseFacts DEF ReleaseInv, Holds
<1>3. PICK t \in Transaction :
        /\ tx' = [tx EXCEPT ![q] = t]
        /\ t.kind = tx[q].kind /\ t.at = tx[q].at /\ t.step = "found"
        /\ t.other = Feedback!NewestOrNone(Feedback!With("published"))
  BY FindTypes
<1>4. /\ tx'[q] = t
      /\ \A p \in Releases \ {q} : tx'[p] = tx[p]
  BY <1>3, ReleaseFacts
<1>5. t.other \in Releases => release[t.other].status = "published"
  BY <1>1, <1>3, FoundIsNewest
<1>6. \A p \in Releases : /\ Publishes(p)' => Publishes(p) /\ tx'[p].at = tx[p].at
                          /\ RollsBack(p)' => p # q /\ RollsBack(p)
                          /\ \A r \in Releases : Locks(p, r)' => p # q /\ Locks(p, r)
  BY <1>1, <1>2, <1>3, <1>4 DEF Publishes, RollsBack, Locks
<1>7. \A p \in Releases : Kept(p)' <=> Kept(p)
  BY <1>1 DEF Kept
<1>8. OneActive'
  BY <1>1, <1>7 DEF ReleaseInv, OneActive
<1>9. Times'
  BY <1>1, <1>6, <1>7 DEF ReleaseInv, Times
<1>10. Holds'
  <2>1. \A p, r \in Releases : Locks(r, p) => p # q
    BY <1>1 DEF ReleaseInv, Holds
  <2> QED
    BY <1>1, <1>4, <1>6, <2>1 DEF ReleaseInv, Holds
<1>11. FoundReleased'
  BY <1>1, <1>4, <1>5, <1>6 DEF ReleaseInv, FoundReleased
<1>12. FoundNewest'
  BY <1>1, <1>4, <1>6 DEF ReleaseInv, FoundNewest
<1> QED
  BY <1>8, <1>9, <1>10, <1>11, <1>12 DEF ReleaseInv

\* A lock takes a row that nobody holds, and only as it was found.
LEMMA LockSafe ==
  ASSUME FeedbackTypes, ReleaseInv, NEW q \in Releases, Feedback!LockOther(q)
  PROVE  ReleaseInv'
<1> DEFINE Locked(t) ==
        /\ tx' = [tx EXCEPT ![q] = t]
        /\ t.kind = tx[q].kind /\ t.at = tx[q].at /\ t.step = "locked"
        /\ t.other \in {None, tx[q].other}
        /\ tx[q].other # None => ~Feedback!Held(tx[q].other)
        /\ t.other # None => release[t.other].status = Wanted(t.kind)
        /\ (tx[q].other # None /\ release[tx[q].other].status = Wanted(tx[q].kind))
             => t.other = tx[q].other
<1>1. PICK t \in Transaction : Locked(t)
  BY LockTypes
<1>2. /\ tx[q] # None /\ tx[q].step = "found" /\ release' = release /\ time' = time
      /\ overtaken' = overtaken
  BY LockTypes DEF Feedback!LockOther
<1>3. /\ tx'[q] = t /\ None \notin Releases
      /\ \A p \in Releases \ {q} : tx'[p] = tx[p]
  BY <1>1, ReleaseFacts
<1>4. \A p \in Releases : /\ Publishes(p)' => Publishes(p) /\ tx'[p].at = tx[p].at
                          /\ RollsBack(p)' => RollsBack(p) /\ tx'[p].at = tx[p].at
  BY <1>1, <1>2, <1>3 DEF Publishes, RollsBack
<1>5. /\ \A p, r \in Releases : p # q => (Locks(p, r)' <=> Locks(p, r))
      /\ \A r \in Releases : Locks(q, r)' => t.other = r
  BY <1>3 DEF Locks
<1>6. \A p \in Releases : Kept(p)' <=> Kept(p)
  BY <1>2 DEF Kept
<1>7. OneActive'
  BY <1>2, <1>6 DEF ReleaseInv, OneActive
<1>8. Times'
  BY <1>2, <1>4, <1>6 DEF ReleaseInv, Times
<1>9. Holds'
  <2>1. ASSUME NEW r \in Releases, NEW p \in Releases, Locks(r, p)'
        PROVE  /\ tx'[p] = None /\ release'[p].status = Wanted(tx'[r].kind)
               /\ \A s \in Releases : Locks(s, p)' => s = r
    <3>1. CASE r = q
      <4>1. t.other = p /\ tx[q].other = p /\ ~Feedback!Held(p)
        BY <1>1, <1>3, <1>5, <2>1, <3>1
      <4>2. tx[p] = None /\ \A s \in Releases : ~Locks(s, p)
        BY <4>1 DEF Feedback!Held, Locks
      <4>3. p # q
        BY <1>2, <4>2
      <4> QED
        BY <1>1, <1>2, <1>3, <1>5, <3>1, <4>1, <4>2, <4>3
    <3>2. CASE r # q
      <4>1. Locks(r, p) /\ tx[p] = None /\ p # q
        BY <1>2, <1>5, <2>1, <3>2 DEF ReleaseInv, Holds
      <4>2. ~Locks(q, p)'
        <5>1. ASSUME Locks(q, p)' PROVE FALSE
          <6>1. tx[q].other = p /\ ~Feedback!Held(p)
            BY <1>1, <1>3, <1>5, <5>1
          <6> QED
            BY <4>1, <6>1 DEF Feedback!Held, Locks
        <5> QED
          BY <5>1
      <4> QED
        BY <1>2, <1>3, <1>5, <3>2, <4>1, <4>2 DEF ReleaseInv, Holds
    <3> QED
      BY <3>1, <3>2
  <2>2. \A r \in Releases : RollsBack(r)' => tx'[r].step # "timed"
    BY <1>1, <1>3, <1>4 DEF ReleaseInv, Holds
  <2> QED
    BY <1>2, <1>4, <2>1, <2>2 DEF ReleaseInv, Holds
<1>10. FoundReleased'
  BY <1>1, <1>2, <1>3, <1>4 DEF ReleaseInv, FoundReleased
<1>11. FoundNewest'
  <2>1. ASSUME NEW r \in Releases, RollsBack(r)'
        PROVE  tx'[r].other = tx[r].other
    <3>1. RollsBack(r)
      BY <1>4, <2>1
    <3>2. CASE r = q /\ tx[q].other # None
      BY <1>1, <1>3, <3>1, <3>2 DEF ReleaseInv, FoundNewest, Wanted, RollsBack
    <3> QED
      BY <1>1, <1>3, <3>2
  <2> QED
    BY <1>2, <1>4, <2>1 DEF ReleaseInv, FoundNewest
<1> QED
  BY <1>7, <1>8, <1>9, <1>10, <1>11 DEF ReleaseInv

LEMMA AbortSafe ==
  ASSUME FeedbackTypes, ReleaseInv, NEW q \in Releases, Feedback!Abort(q)
  PROVE  ReleaseInv'
<1>1. /\ release' = release /\ time' = time /\ overtaken' = overtaken /\ tx'[q] = None
      /\ \A p \in Releases \ {q} : tx'[p] = tx[p]
  BY ReleaseFacts DEF Feedback!Abort
<1>2. \A p \in Releases : /\ Publishes(p)' => Publishes(p) /\ tx'[p] = tx[p]
                          /\ RollsBack(p)' => RollsBack(p) /\ tx'[p] = tx[p]
                          /\ \A r \in Releases : Locks(p, r)' => Locks(p, r) /\ tx'[p] = tx[p]
  BY <1>1 DEF Publishes, RollsBack, Locks
<1>3. \A p \in Releases : (Kept(p)' <=> Kept(p)) /\ (tx[p] = None => tx'[p] = None)
  BY <1>1 DEF Kept
<1> QED
  BY <1>1, <1>2, <1>3 DEF ReleaseInv, OneActive, Times, Holds, FoundReleased, FoundNewest

\* Only what the partial unique index allows is published, and it replaces the release before it.
LEMMA PublishSafe ==
  ASSUME FeedbackTypes, ReleaseInv, NEW q \in Releases, Feedback!CommitPublish(q)
  PROVE  ReleaseInv'
<1> DEFINE o == tx[q].other
<1>1. /\ Publishes(q) /\ tx[q].step = "locked" /\ time' = time /\ tx'[q] = None
      /\ \A p \in Releases \ {q} : tx'[p] = tx[p]
      /\ tx[q] \in Transaction /\ tx[q].at \in Nat /\ None \notin Releases
  BY ReleaseFacts DEF Feedback!CommitPublish, Feedback!Written, Publishes
<1>2. [status |-> "published", at |-> tx[q].at] \in ReleaseRow
  BY <1>1 DEF Transaction, ReleaseRow
<1>3. /\ release'[q].status = "published" /\ release'[q].at = tx[q].at
      /\ \A p \in Releases \ {q} :
           /\ release'[p].at = release[p].at
           /\ release'[p].status = IF p = o THEN "superseded" ELSE release[p].status
  BY <1>2, StepTypes DEF Feedback!CommitPublish
<1>4. release[q].status = "draft" /\ ~Kept(q)
  BY <1>1 DEF ReleaseInv, Holds, Kept
<1>5. o \in Releases => /\ Locks(q, o) /\ tx[o] = None /\ release[o].status = "published"
                        /\ o # q
                        /\ \A r \in Releases : Locks(r, o) => r = q
  BY <1>1 DEF ReleaseInv, Holds, FoundReleased, Locks, Publishes, Wanted
<1>6. \A p \in Releases : release[p].status = "published" => p = o
  BY <1>4 DEF Feedback!CommitPublish, Feedback!Alone, Feedback!With
<1>7. \A r \in Releases : ~RollsBack(r)
  BY <1>5, <1>6 DEF ReleaseInv, Holds, RollsBack
<1>8. \A p \in Releases : Kept(p) => p # q /\ (overtaken' \/ release[p].at < tx[q].at)
  <2>1. \A p \in Releases : release[p].at \in Nat
    BY ReleaseFacts
  <2>2. \A p \in Releases : Kept(p) => release[p].at # tx[q].at
    BY <1>1 DEF ReleaseInv, Times
  <2>3. \A p \in Releases : Kept(p) /\ release[p].at > tx[q].at => overtaken'
    BY DEF Feedback!CommitPublish, Feedback!Kept, Feedback!With, Kept
  <2> QED
    BY <1>1, <1>4, <2>1, <2>2, <2>3
<1>9. \A p \in Releases \ {q} : /\ Kept(p)' <=> Kept(p)
                                /\ Kept(p) => release'[p].status = "superseded"
  BY <1>3, <1>5, <1>6 DEF Kept
<1>10. \A p \in Releases : /\ Publishes(p)' => p # q /\ Publishes(p) /\ tx'[p] = tx[p]
                           /\ ~RollsBack(p)'
                           /\ \A r \in Releases : Locks(p, r)' => p # q /\ Locks(p, r)
  BY <1>1, <1>7 DEF Publishes, RollsBack, Locks
<1>11. OneActive'
  BY <1>3, <1>8, <1>9 DEF OneActive
<1>12. Times'
  <2>1. \A p \in Releases : Kept(p)' => p = q \/ (Kept(p) /\ release'[p].at = release[p].at)
    BY <1>3, <1>9
  <2>2. \A p \in Releases : Kept(p) => release[p].at # tx[q].at
    BY <1>1 DEF ReleaseInv, Times
  <2>3. \A p \in Releases \ {q} : Publishes(p) => tx[p].at # tx[q].at
    BY <1>1 DEF ReleaseInv, Times
  <2>4. \A p, r \in Releases : Kept(p)' /\ Kept(r)' /\ release'[p].at = release'[r].at => p = r
    BY <1>3, <2>1, <2>2 DEF ReleaseInv, Times
  <2>5. \A p, r \in Releases : Publishes(p)' /\ Kept(r)' => tx'[p].at # release'[r].at
    BY <1>3, <1>10, <2>1, <2>3 DEF ReleaseInv, Times
  <2>6. \A p \in Releases : Kept(p)' => release'[p].at <= time'
    BY <1>1, <1>3, <2>1 DEF ReleaseInv, Times
  <2> QED
    BY <1>1, <1>10, <2>4, <2>5, <2>6 DEF ReleaseInv, Times
<1>13. Holds'
  <2>1. \A r \in Releases : Publishes(r)' => release'[r].status = "draft"
    BY <1>3, <1>5, <1>10 DEF ReleaseInv, Holds
  <2>2. ASSUME NEW r \in Releases, NEW p \in Releases, Locks(r, p)'
        PROVE  /\ tx'[p] = None /\ release'[p].status = Wanted(tx'[r].kind)
               /\ \A s \in Releases : Locks(s, p)' => s = r
    <3>1. r # q /\ Locks(r, p) /\ tx[p] = None /\ p # q
      BY <1>1, <1>10, <2>2 DEF ReleaseInv, Holds, Publishes
    <3>2. p # o
      BY <1>5, <3>1
    <3> QED
      BY <1>1, <1>3, <1>10, <3>1, <3>2 DEF ReleaseInv, Holds
  <2> QED
    BY <1>10, <2>1, <2>2 DEF Holds
<1>14. FoundReleased'
  <2>1. ASSUME NEW r \in Releases, NEW p \in Releases, Publishes(r)', tx'[r].other = p
        PROVE  release'[p].status \notin {"none", "draft"}
    <3>1. r # q /\ Publishes(r) /\ tx'[r] = tx[r]
      BY <1>10, <2>1
    <3>2. release[p].status \notin {"none", "draft"}
      BY <2>1, <3>1 DEF ReleaseInv, FoundReleased
    <3> QED
      BY <1>3, <1>4, <3>1, <3>2
  <2> QED
    BY <2>1 DEF FoundReleased
<1>15. FoundNewest'
  BY <1>10 DEF FoundNewest
<1> QED
  BY <1>11, <1>12, <1>13, <1>14, <1>15 DEF ReleaseInv

\* A rollback puts back what is the newest of the others.
LEMMA RollbackSafe ==
  ASSUME FeedbackTypes, ReleaseInv, NEW q \in Releases, Feedback!CommitRollback(q)
  PROVE  ReleaseInv'
<1> DEFINE o == tx[q].other
<1>1. /\ RollsBack(q) /\ tx[q].step = "locked" /\ time' = time /\ tx'[q] = None
      /\ overtaken' = overtaken
      /\ \A p \in Releases \ {q} : tx'[p] = tx[p]
      /\ tx[q] \in Transaction /\ None \notin Releases
  BY ReleaseFacts DEF Feedback!CommitRollback, Feedback!Written, RollsBack
<1>2. release[q].at \in 0..MaxTime /\ release[q] \in ReleaseRow
  BY TypesInParts DEF QualityTypes, ReleaseRow
<1>3. /\ release'[q].status = "rolled_back" /\ release'[q].at = release[q].at
      /\ \A p \in Releases \ {q} :
           /\ release'[p].at = release[p].at
           /\ release'[p].status = IF p = o THEN "published" ELSE release[p].status
  <2>1. [release[q] EXCEPT !.status = "rolled_back"] \in ReleaseRow
    BY <1>2 DEF ReleaseRow
  <2> QED
    BY <1>2, <2>1, StepTypes DEF Feedback!CommitRollback, ReleaseRow
<1>4. release[q].status = "published"
  BY <1>1 DEF ReleaseInv, Holds
<1>5. \A p \in Releases \ {q} : Kept(p) => release[p].status = "superseded"
  BY <1>4 DEF ReleaseInv, OneActive, Kept
<1>6. \/ o = None /\ (\A p \in Releases : release[p].status # "superseded")
      \/ /\ o \in Releases /\ release[o].status = "superseded"
         /\ \A p \in Releases : release[p].status = "superseded" => release[p].at <= release[o].at
  BY <1>1 DEF ReleaseInv, FoundNewest
<1>7. o \in Releases => /\ Locks(q, o) /\ tx[o] = None /\ o # q
                        /\ \A r \in Releases : Locks(r, o) => r = q
  BY <1>1 DEF ReleaseInv, Holds, Locks, RollsBack
<1>8. \A p \in Releases : /\ Publishes(p)' => p # q /\ Publishes(p) /\ tx'[p] = tx[p]
                          /\ RollsBack(p)' => p # q /\ RollsBack(p)
                          /\ \A r \in Releases : Locks(p, r)' => p # q /\ Locks(p, r)
  BY <1>1 DEF Publishes, RollsBack, Locks
<1>9. \A p \in Releases : ~RollsBack(p)'
  BY <1>5, <1>8 DEF ReleaseInv, Holds, Kept
<1>10. \A p \in Releases : /\ release'[p].at = release[p].at
                           /\ Kept(p)' => Kept(p) /\ p # q
                           /\ Kept(p)' /\ p # o => release'[p].status = "superseded"
  <2>1. \A p \in Releases : Kept(p)' => p # q
    BY <1>3 DEF Kept
  <2>2. ASSUME NEW p \in Releases, Kept(p)', p # o
        PROVE  Kept(p) /\ release'[p].status = "superseded"
    <3>1. Kept(p) /\ p # q /\ release'[p].status = release[p].status
      BY <1>3, <2>1, <2>2 DEF Kept
    <3> QED
      BY <1>5, <3>1
  <2>3. ASSUME NEW p \in Releases, p = o
        PROVE  Kept(p)
    <3>1. o # None
      BY <1>1, <2>3
    <3> QED
      BY <1>6, <2>3, <3>1 DEF Kept
  <2> HIDE DEF o
  <2> QED
    BY <1>3, <2>1, <2>2, <2>3
<1>11. OneActive'
  <2>1. CASE o = None
    BY <1>1, <1>5, <1>6, <1>10, <2>1 DEF OneActive, Kept
  <2>2. CASE o \in Releases
    <3>1. release'[o].status = "published"
      BY <1>3, <1>7, <2>2
    <3>2. \A p \in Releases : release[p].at \in Nat
      BY ReleaseFacts
    <3>3. ASSUME NEW p \in Releases \ {o}, Kept(p)'
          PROVE  release'[p].status = "superseded" /\ release'[p].at < release'[o].at
      <4>1. Kept(p) /\ p # q /\ release[p].status = "superseded"
        BY <1>5, <1>10, <3>3
      <4>2. release[p].at <= release[o].at /\ release[p].at # release[o].at
        BY <1>1, <1>6, <2>2, <4>1 DEF ReleaseInv, Times, Kept
      <4> QED
        BY <1>10, <2>2, <3>2, <3>3, <4>2
    <3> QED
      BY <2>2, <3>1, <3>3 DEF OneActive
  <2> QED
    BY <1>6, <2>1, <2>2
<1>12. Times'
  BY <1>1, <1>8, <1>10 DEF ReleaseInv, Times
<1>13. Holds'
  <2>1. \A r \in Releases : Publishes(r)' => release'[r].status = "draft"
    BY <1>1, <1>3, <1>6, <1>8 DEF ReleaseInv, Holds
  <2>2. ASSUME NEW r \in Releases, NEW p \in Releases, Locks(r, p)'
        PROVE  /\ tx'[p] = None /\ release'[p].status = Wanted(tx'[r].kind)
               /\ \A s \in Releases : Locks(s, p)' => s = r
    <3>1. r # q /\ Locks(r, p) /\ tx[p] = None /\ p # q
      BY <1>1, <1>8, <2>2 DEF ReleaseInv, Holds, RollsBack
    <3>2. p # o
      BY <1>7, <3>1
    <3> QED
      BY <1>1, <1>3, <1>8, <3>1, <3>2 DEF ReleaseInv, Holds
  <2> QED
    BY <1>9, <2>1, <2>2 DEF Holds
<1>14. FoundReleased'
  BY <1>3, <1>8 DEF ReleaseInv, FoundReleased
<1>15. FoundNewest'
  BY <1>9 DEF FoundNewest
<1> QED
  BY <1>11, <1>12, <1>13, <1>14, <1>15 DEF ReleaseInv

\* A step of a transaction.
LEMMA NextRelease ==
  ASSUME FeedbackTypes, ReleaseInv, [Feedback!Next]_Feedback!vars
  PROVE  ReleaseInv'
<1>1. CASE UserStep
  BY <1>1, UserStepRests, RestingReleases
<1>2. ASSUME NEW q \in Releases, QualityStep(q)
      PROVE  ReleaseInv'
  BY <1>2, CreateReleaseSafe, BeginSafe, FindSafe, LockSafe, PublishSafe, RollbackSafe, AbortSafe
  DEF QualityStep
<1>3. CASE UNCHANGED Feedback!vars
  BY <1>3, RestingReleases DEF QualityRests, Feedback!vars, Feedback!qualityVars
<1> QED
  BY <1>1, <1>2, <1>3, FeedbackSteps

LEMMA NextLeavesNothing ==
  ASSUME FeedbackTypes, LeftOverInv, [Feedback!Next]_Feedback!vars
  PROVE  LeftOverInv'
<1>1. CASE UserStep
  BY <1>1, UserStepLeavesNothing
<1>2. CASE \E q \in Releases : QualityStep(q)
  BY <1>2, QualityStepLeavesNothing
<1>3. CASE UNCHANGED Feedback!vars
  BY <1>3
  DEF LeftOverInv, LinkedHaveRows, NothingIsLeftOver, Feedback!NothingIsLeftOver,
      Feedback!DeletedLeavesNoRow, Feedback!ScreenshotHasRow, Feedback!Rows, Feedback!Owned,
      Feedback!vars, Feedback!itemVars, Feedback!userVars, Feedback!qualityVars
<1> QED
  BY <1>1, <1>2, <1>3, FeedbackSteps

LEMMA FeedbackInit == Feedback!Init => FeedbackInv
<1> SUFFICES ASSUME Feedback!Init PROVE FeedbackInv
  OBVIOUS
<1>1. /\ MaxTime \in Nat /\ OwnerOf \in [Items -> Senders]
      /\ \A q \in Releases : tx[q] = None /\ release[q] = [status |-> "none", at |-> 0]
  BY FeedbackConstants DEF Feedback!FeedbackAssumption, Feedback!Init
<1>2. UserTypes
  BY DEF Feedback!Init, UserTypes
<1>3. QualityTypes
  <2>1. release \in [Releases -> ReleaseRow] /\ tx \in [Releases -> Transaction \cup {None}]
    BY <1>1 DEF Feedback!Init, ReleaseRow
  <2>2. linked \subseteq Releases \X Items /\ time \in 0..MaxTime
    BY <1>1 DEF Feedback!Init
  <2>3. overtaken \in BOOLEAN
    BY DEF Feedback!Init
  <2> QED
    BY <2>1, <2>2, <2>3 DEF QualityTypes
<1>4. \A q \in Releases : ~Kept(q) /\ ~Publishes(q) /\ ~RollsBack(q)
  BY <1>1 DEF Kept, Publishes, RollsBack
<1>5. \A q, p \in Releases : ~Locks(q, p)
  BY <1>1 DEF Locks
<1>6. ReleaseInv
  BY <1>4, <1>5 DEF ReleaseInv, OneActive, Times, Holds, FoundReleased, FoundNewest
<1>7. LinkedHaveRows /\ NothingIsLeftOver
  BY <1>1 DEF Feedback!Init, LinkedHaveRows, NothingIsLeftOver, Feedback!NothingIsLeftOver,
              Feedback!DeletedLeavesNoRow, Feedback!ScreenshotHasRow, Feedback!Rows,
              Feedback!Owned
<1> QED
  BY <1>2, <1>3, <1>6, <1>7, TypesInParts DEF FeedbackInv

\* The invariant from which both properties of the feedback side follow.
THEOREM FeedbackInvariant == Feedback!Spec => []FeedbackInv
<1>1. FeedbackInv /\ [Feedback!Next]_Feedback!vars => FeedbackInv'
  BY NextTypes, NextRelease, NextLeavesNothing DEF FeedbackInv, LeftOverInv
<1> QED
  BY <1>1, FeedbackInit, PTL DEF Feedback!Spec

\* However many publications and rollbacks cross in several processes: while a release is
\* published or superseded one is published and no other, the newest of them if no publication
\* was overtaken.
THEOREM OneReleaseIsActive == Feedback!Spec => []OneIsActive
<1>1. FeedbackInv => OneIsActive
  <2> SUFFICES ASSUME FeedbackInv, Feedback!Kept # {}
               PROVE  \E q \in Feedback!Kept :
                        /\ Feedback!With("published") = {q}
                        /\ overtaken \/ q = Feedback!Newest(Feedback!Kept)
    BY DEF OneIsActive, Feedback!OneIsActive
  <2>1. /\ Feedback!Kept \subseteq Releases
        /\ \A q \in Releases : q \in Feedback!Kept <=> Kept(q)
    BY DEF Feedback!Kept, Feedback!With, Kept
  <2>2. PICK n \in Releases :
               /\ release[n].status = "published"
               /\ \A p \in Releases \ {n} : Kept(p) =>
                    /\ release[p].status = "superseded"
                    /\ overtaken \/ release[p].at < release[n].at
    BY <2>1 DEF FeedbackInv, ReleaseInv, OneActive
  <2>3. Feedback!With("published") = {n} /\ n \in Feedback!Kept
    BY <2>1, <2>2 DEF Feedback!With, Kept
  <2>4. /\ Feedback!Newest(Feedback!Kept) \in Feedback!Kept
        /\ release[n].at <= release[Feedback!Newest(Feedback!Kept)].at
    BY <2>1, <2>3, NewestIsNewest DEF FeedbackInv
  <2>5. \A q \in Releases : release[q].at \in Nat
    BY ReleaseFacts DEF FeedbackInv
  <2>6. overtaken \/ Feedback!Newest(Feedback!Kept) = n
    BY <2>1, <2>2, <2>4, <2>5
  <2> QED
    BY <2>3, <2>6
<1> QED
  BY <1>1, FeedbackInvariant, PTL

\* Whatever was under way when an installation was deleted, no sample and no item of it is left;
\* and a screenshot without a row belongs to a submission under way or to such an installation,
\* unless its write failed half-way or its submission was cut off.
THEOREM NothingStays == Feedback!Spec => []NothingIsLeftOver
<1>1. FeedbackInv => NothingIsLeftOver
  BY DEF FeedbackInv
<1> QED
  BY <1>1, FeedbackInvariant, PTL

-----------------------------------------------------------------------------
(* Optimize: a sum over a finite set is the number of units in it.         *)

\* The cost of the calls in D when s is what was sent.
Total(s, D) ==
  LET iter[X \in SUBSET D] ==
        IF X = {} THEN 0
        ELSE LET x == CHOOSE x \in X : TRUE IN (InputChars + s[x]) + iter[X \ {x}]
  IN  iter[D]

\* Every unit of cost of the calls in D.
Units(s, D) == {u \in D \X Nat : u[2] < InputChars + s[u[1]]}

LEMMA InputIsNat == InputChars \in Nat
  BY CloudAssumption

LEMMA UnitsOfOne ==
  ASSUME NEW s, NEW r, s[r] \in Nat
  PROVE  IsFiniteSet(Units(s, {r})) /\ Cardinality(Units(s, {r})) = InputChars + s[r]
<1> DEFINE n == InputChars + s[r]
<1>1. Units(s, {r}) = {r} \X (0 .. n - 1)
  <2>1. \A k \in Nat : k < n <=> k \in 0 .. n - 1
    BY InputIsNat
  <2>2. \A k \in 0 .. n - 1 : k \in Nat
    OBVIOUS
  <2> HIDE DEF n
  <2>3. Units(s, {r}) = {u \in {r} \X Nat : u[2] < n}
    BY DEF Units, n
  <2> QED
    BY <2>1, <2>2, <2>3
<1>5. n \in Nat
  BY InputIsNat
<1> HIDE DEF n
<1>2. IsFiniteSet(0 .. n - 1) /\ Cardinality(0 .. n - 1) = n
  <2>1. n - 1 \in Int /\ (IF 0 > n - 1 THEN 0 ELSE (n - 1) - 0 + 1) = n
    BY <1>5
  <2> QED
    BY <2>1, FS_Interval
<1>3. IsFiniteSet({r}) /\ Cardinality({r}) = 1
  BY FS_Singleton
<1>4. /\ IsFiniteSet({r} \X (0 .. n - 1))
      /\ Cardinality({r} \X (0 .. n - 1)) = Cardinality({r}) * Cardinality(0 .. n - 1)
  BY <1>2, <1>3, FS_Product
<1>6. Cardinality({r} \X (0 .. n - 1)) = n
  BY <1>2, <1>3, <1>4, <1>5
<1> QED
  BY <1>1, <1>4, <1>6 DEF n

LEMMA UnitsOfOneMore ==
  ASSUME NEW s, NEW D, IsFiniteSet(D), NEW r, r \notin D,
         IsFiniteSet(Units(s, D)), s[r] \in Nat
  PROVE  /\ IsFiniteSet(Units(s, D \cup {r}))
         /\ Cardinality(Units(s, D \cup {r})) = Cardinality(Units(s, D)) + (InputChars + s[r])
<1>1. Units(s, D \cup {r}) = Units(s, D) \cup Units(s, {r})
  BY DEF Units
<1>2. Units(s, D) \cap Units(s, {r}) = {}
  BY DEF Units
<1>3. IsFiniteSet(Units(s, {r})) /\ Cardinality(Units(s, {r})) = InputChars + s[r]
  BY UnitsOfOne
<1>4. /\ IsFiniteSet(Units(s, D) \cup Units(s, {r}))
      /\ Cardinality(Units(s, D) \cup Units(s, {r}))
           = Cardinality(Units(s, D)) + Cardinality(Units(s, {r}))
             - Cardinality(Units(s, D) \cap Units(s, {r}))
  BY <1>3, FS_Union
<1>5. Cardinality(Units(s, D)) \in Nat /\ InputChars + s[r] \in Nat
  BY FS_CardinalityType, InputIsNat
<1>6. Cardinality(Units(s, D) \cap Units(s, {r})) = 0
  BY <1>2, FS_EmptySet
<1>7. Cardinality(Units(s, D) \cup Units(s, {r}))
        = Cardinality(Units(s, D)) + (InputChars + s[r]) - 0
  BY <1>3, <1>4, <1>6
<1>8. \A a, b, c \in Nat : c = a + b - 0 => c = a + b
  OBVIOUS
<1>9. Cardinality(Units(s, D) \cup Units(s, {r})) \in Nat
  BY <1>4, FS_CardinalityType
<1> QED
  BY <1>1, <1>4, <1>5, <1>7, <1>8, <1>9

LEMMA UnitsOfOneLess ==
  ASSUME NEW s, NEW D, IsFiniteSet(D), NEW r \in D,
         IsFiniteSet(Units(s, D \ {r})), s[r] \in Nat
  PROVE  /\ IsFiniteSet(Units(s, D))
         /\ Cardinality(Units(s, D)) = (InputChars + s[r]) + Cardinality(Units(s, D \ {r}))
<1> DEFINE E == D \ {r}
<1>1. D = E \cup {r} /\ r \notin E /\ IsFiniteSet(E) /\ IsFiniteSet(Units(s, E))
  BY FS_RemoveElement
<1> HIDE DEF E
<1>2. /\ IsFiniteSet(Units(s, E \cup {r}))
      /\ Cardinality(Units(s, E \cup {r})) = Cardinality(Units(s, E)) + (InputChars + s[r])
  BY <1>1, UnitsOfOneMore
<1>3. Cardinality(Units(s, E)) \in Nat /\ InputChars + s[r] \in Nat
  BY <1>1, FS_CardinalityType, InputIsNat
<1>4. \A a, b \in Nat : a + b = b + a
  OBVIOUS
<1>5. Cardinality(Units(s, E \cup {r})) = (InputChars + s[r]) + Cardinality(Units(s, E))
  BY <1>2, <1>3, <1>4
<1>6. Units(s, E \cup {r}) = Units(s, D)
  BY <1>1
<1> QED
  BY <1>2, <1>5, <1>6 DEF E

\* Of the finite sets with no or infinitely many units one would have fewest elements.
LEMMA UnitsAreFinite ==
  ASSUME NEW s, NEW D, IsFiniteSet(D), \A r \in D : s[r] \in Nat
  PROVE  IsFiniteSet(Units(s, D))
<1> DEFINE T == {n \in Nat : \E X \in SUBSET D : n = Cardinality(X) /\ ~IsFiniteSet(Units(s, X))}
<1> SUFFICES ASSUME ~IsFiniteSet(Units(s, D)) PROVE FALSE
  OBVIOUS
<1>1. Cardinality(D) \in T
  BY FS_CardinalityType
<1>2. PICK n \in T : \A m \in T : n <= m
  BY <1>1, LeastNumber
<1>3. PICK X \in SUBSET D : n = Cardinality(X) /\ ~IsFiniteSet(Units(s, X))
  OBVIOUS
<1>4. IsFiniteSet(X)
  BY FS_Subset
<1>5. X # {}
  <2>1. ASSUME X = {} PROVE FALSE
    <3>1. Units(s, X) = {}
      BY <2>1 DEF Units
    <3> QED
      BY <1>3, <3>1, FS_EmptySet
  <2> QED
    BY <2>1
<1>6. PICK r \in X : TRUE
  BY <1>5
<1>7. IsFiniteSet(X \ {r}) /\ Cardinality(X \ {r}) = Cardinality(X) - 1
  BY <1>4, <1>6, FS_RemoveElement
<1>8. IsFiniteSet(Units(s, X \ {r}))
  <2>1. ASSUME ~IsFiniteSet(Units(s, X \ {r})) PROVE FALSE
    <3>1. Cardinality(X \ {r}) \in T
      BY <1>7, <2>1, FS_CardinalityType
    <3>2. n \in Nat
      OBVIOUS
    <3> HIDE DEF T
    <3> QED
      BY <1>2, <1>3, <1>7, <3>1, <3>2
  <2> QED
    BY <2>1
<1> QED
  BY <1>3, <1>4, <1>6, <1>8, UnitsOfOneLess

\* Two functions that satisfy the equation of the fold agree: where they did not, they would
\* not on some set with fewest elements.
LEMMA TotalCounts ==
  ASSUME NEW s, NEW D, IsFiniteSet(D), \A r \in D : s[r] \in Nat
  PROVE  Total(s, D) = Cardinality(Units(s, D)) /\ Total(s, D) \in Nat
<1> DEFINE pick(X) == CHOOSE x \in X : TRUE
           rest(X) == X \ {pick(X)}
           g == [X \in SUBSET D |-> Cardinality(Units(s, X))]
           Eq(f) == f = [X \in SUBSET D |-> IF X = {} THEN 0
                                            ELSE (InputChars + s[pick(X)]) + f[rest(X)]]
           f == CHOOSE h : Eq(h)
<1>1. \A X \in SUBSET D : IsFiniteSet(X) /\ IsFiniteSet(Units(s, X)) /\ Cardinality(Units(s, X)) \in Nat
  BY FS_Subset, UnitsAreFinite, FS_CardinalityType
<1>2. ASSUME NEW X \in SUBSET D, X # {}
      PROVE  /\ pick(X) \in X /\ rest(X) \in SUBSET D
             /\ Cardinality(Units(s, X)) = (InputChars + s[pick(X)]) + Cardinality(Units(s, rest(X)))
             /\ Cardinality(rest(X)) = Cardinality(X) - 1
  <2>1. pick(X) \in X
    BY <1>2
  <2>2. rest(X) \in SUBSET D
    OBVIOUS
  <2>3. IsFiniteSet(X) /\ IsFiniteSet(Units(s, rest(X))) /\ s[pick(X)] \in Nat
    BY <1>1, <2>1, <2>2
  <2>4. Cardinality(rest(X)) = Cardinality(X) - 1
    BY <2>1, <2>3, FS_RemoveElement
  <2> HIDE DEF pick
  <2>5. Cardinality(Units(s, X)) = (InputChars + s[pick(X)]) + Cardinality(Units(s, rest(X)))
    BY <2>1, <2>3, UnitsOfOneLess
  <2> QED
    BY <2>1, <2>2, <2>4, <2>5
<1>3. Units(s, {}) = {}
  BY DEF Units
<1>4. Eq(g)
  <2>1. ASSUME NEW X \in SUBSET D
        PROVE  g[X] = IF X = {} THEN 0 ELSE (InputChars + s[pick(X)]) + g[rest(X)]
    BY <1>2, <1>3, FS_EmptySet
  <2> HIDE DEF pick, rest
  <2> QED
    BY <2>1
<1>5. Eq(f)
  <2> HIDE DEF g, Eq
  <2> QED
    BY <1>4
<1>6. /\ f[{}] = 0
      /\ \A X \in SUBSET D : X # {} => f[X] = (InputChars + s[pick(X)]) + f[rest(X)]
  <2> HIDE DEF f, pick, rest
  <2> QED
    BY <1>5
<1> HIDE DEF f, pick, rest
<1>7. ASSUME NEW X \in SUBSET D
      PROVE  f[X] = Cardinality(Units(s, X))
  <2> DEFINE T == {n \in Nat : \E Y \in SUBSET D : n = Cardinality(Y) /\ f[Y] # Cardinality(Units(s, Y))}
  <2> SUFFICES ASSUME f[X] # Cardinality(Units(s, X)) PROVE FALSE
    OBVIOUS
  <2>1. Cardinality(X) \in T
    BY <1>1, FS_CardinalityType
  <2>2. PICK n \in T : \A m \in T : n <= m
    BY <2>1, LeastNumber
  <2>3. PICK Y \in SUBSET D : n = Cardinality(Y) /\ f[Y] # Cardinality(Units(s, Y))
    OBVIOUS
  <2>4. Y # {}
    BY <1>3, <1>6, <2>3, FS_EmptySet
  <2>5. f[rest(Y)] # Cardinality(Units(s, rest(Y)))
    BY <1>2, <1>6, <2>3, <2>4
  <2>6. Cardinality(rest(Y)) \in T
    BY <1>1, <1>2, <2>4, <2>5, FS_CardinalityType
  <2>7. n \in Nat /\ Cardinality(rest(Y)) = n - 1
    BY <1>2, <2>3, <2>4
  <2> HIDE DEF T
  <2> QED
    BY <2>2, <2>6, <2>7
<1>8. Total(s, D) = f[D]
  BY DEF Total, f, pick, rest
<1> QED
  BY <1>1, <1>7, <1>8

\* The sum of BooksHold is that sum.
LEMMA SumIsTotal ==
  /\ \A D : MapThenSumSet(Cost, D) = Total(sent, D)
  /\ \A D : (MapThenSumSet(Cost, D) = Total(sent, D))'
  BY DEF MapThenSumSet, MapThenFoldSet, Cost, Total
-----------------------------------------------------------------------------
(* Optimize: the inductive invariant.                                      *)

UsageRow == [requests : Nat, input : Nat, output : Nat]
LedgerRow == [admitted : Nat, settled : Nat, reserved : Nat]

OptimizeTypes ==
  /\ TypeOK
  /\ usage \in [Installs -> UsageRow \cup {None}]
  /\ ledger \in [Days -> LedgerRow \cup {None}]

\* A call that runs has the claim that stands under its id, its own until its stream starts.
RunningHoldClaims ==
  \A r \in Requests :
    /\ Runs(r) => claims[IdOf[r]] = token[r]
    /\ pc[r] \in {"idle", "reserve", "open"} => token[r] = r

\* The gates hold for the claims.
ClaimedBy(i) == {id \in Claimed : InstallOf[claims[id]] = i}

ClaimsAreFew ==
  /\ IsFiniteSet(Claimed) /\ Cardinality(Claimed) <= MaxGlobal
  /\ \A i \in Installs : Cardinality(ClaimedBy(i)) <= MaxPerInstall

\* Only a call past its admission has a reservation, and only one that is over settled it.
Stages ==
  \A r \in Requests :
    /\ pc[r] \in {"idle", "reserve"} => res[r].status = "none" /\ sent[r] = 0
    /\ res[r].status = "settled" => pc[r] = "over"

\* Reservations are made on days that have a ledger, and no day to come has one.
Booked == {r \in Requests : res[r].status # "none"}

LedgersAreThere ==
  /\ IsFiniteSet(Booked)
  /\ \A r \in Booked : ledger[res[r].day] # None
  /\ \A d \in Days : d > today => ledger[d] = None

\* Every ledger sums up its reservations, and what was settled of them.
SettledOn(d) == {r \in Requests : res[r].day = d /\ res[r].status = "settled"}

LedgersAreExact ==
  \A d \in Days : ledger[d] # None =>
    /\ ledger[d].reserved = Estimate * Cardinality(Open(d))
    /\ ledger[d].settled >= Total(sent, SettledOn(d))

\* What a call reserved today has sent is in today's row of its installation.
OutputIsCounted ==
  /\ \A i \in Installs : usage[i] # None => usage[i].output <= DayOutput
  /\ \A r \in Requests : res[r].status = "reserved" /\ res[r].day = today =>
       /\ usage[InstallOf[r]] # None
       /\ sent[r] <= usage[InstallOf[r]].output

WithinBudget ==
  ledger[today] # None =>
    /\ ledger[today].settled + ledger[today].reserved <= Budget
    /\ ledger[today].admitted <= Admissions

ClaimsInv == RunningHoldClaims /\ ClaimsAreFew
BooksInv == Stages /\ LedgersAreThere /\ LedgersAreExact /\ OutputIsCounted
-----------------------------------------------------------------------------
(* Optimize: types.                                                        *)

Reservation == [status : {"none", "reserved", "settled", "expired"}, day : Days]

LEMMA OptimizeConstants ==
  /\ InputChars \in Nat /\ MaxOutput \in Nat /\ MaxDay \in Nat /\ MaxFaults \in Nat
  /\ Admissions \in Nat /\ Budget \in Nat /\ MaxGlobal \in Nat /\ MaxPerInstall \in Nat
  /\ DayOutput \in Nat /\ Estimate \in Nat /\ ChunkSizes \subseteq Nat
  /\ IdOf \in [Requests -> Ids] /\ InstallOf \in [Requests -> Installs]
  /\ None \notin Requests /\ None \notin UsageRow /\ None \notin LedgerRow
  BY CloudAssumption DEF Estimate, UsageRow, LedgerRow

LEMMA UnusedIsRow == Unused \in UsageRow /\ Unused.output = 0
  BY DEF Unused, UsageRow

\* The row of today, the ledger of a day, and a ledger without some reservations.
LEMMA RowIsRow ==
  ASSUME OptimizeTypes, NEW i \in Installs
  PROVE  /\ Row(i) \in UsageRow
         /\ usage[i] # None => Row(i) = usage[i]
         /\ usage[i] = None => Row(i).output = 0
  BY UnusedIsRow DEF Row, OptimizeTypes

LEMMA LedgerIsRow ==
  ASSUME OptimizeTypes, NEW d \in Days
  PROVE  /\ Ledger(d) \in LedgerRow
         /\ ledger[d] # None => Ledger(d) = ledger[d]
         /\ ledger[d] = None => Ledger(d).reserved = 0
<1>1. spent.requests \in Nat /\ spent.cost \in Nat
  BY DEF OptimizeTypes, TypeOK
<1>2. [admitted |-> spent.requests, settled |-> spent.cost, reserved |-> 0] \in LedgerRow
  BY <1>1 DEF LedgerRow
<1> QED
  BY <1>2 DEF Ledger, OptimizeTypes

LEMMA WithoutIsRow ==
  ASSUME NEW l \in LedgerRow, NEW rs, IsFiniteSet(rs)
  PROVE  /\ Without(l, rs) \in LedgerRow
         /\ Without(l, rs).admitted = l.admitted /\ Without(l, rs).settled = l.settled
         /\ Without(l, rs).reserved = Less(l.reserved, Estimate * Cardinality(rs))
         /\ Less(l.reserved, Estimate * Cardinality(rs)) \in Nat
<1> DEFINE k == Estimate * Cardinality(rs)
<1>1. Cardinality(rs) \in Nat /\ Estimate \in Nat
  BY FS_CardinalityType, OptimizeConstants
<1>2. k \in Nat
  BY <1>1
<1> HIDE DEF k
<1>3. l.reserved \in Nat /\ l.admitted \in Nat /\ l.settled \in Nat
  BY DEF LedgerRow
<1>4. Less(l.reserved, k) \in Nat
  BY <1>2, <1>3 DEF Less
<1>5. Without(l, rs) = [l EXCEPT !.reserved = Less(l.reserved, k)]
  BY DEF Without, k, LedgerRow
<1> QED
  BY <1>4, <1>5 DEF LedgerRow, k

\* The reservations that may lapse are finitely many.
LEMMA LapsedAreBooked ==
  ASSUME OptimizeTypes, LedgersAreThere
  PROVE  /\ \A d \in Days : Open(d) \subseteq Booked /\ IsFiniteSet(Open(d))
         /\ \A d \in Days : IsFiniteSet(SettledOn(d))
         /\ \A lapsed \in SUBSET UNION {Open(d) : d \in Days} :
              lapsed \subseteq Booked /\ IsFiniteSet(lapsed)
<1>1. \A d \in Days : Open(d) \subseteq Booked /\ SettledOn(d) \subseteq Booked
  BY DEF Open, SettledOn, Booked
<1>2. \A S \in SUBSET Booked : IsFiniteSet(S)
  BY FS_Subset DEF LedgersAreThere
<1> QED
  BY <1>1, <1>2

\* What an admission writes.
LEMMA ReserveEffect ==
  ASSUME OptimizeTypes, LedgersAreThere, NEW r \in Requests,
         NEW lapsed \in SUBSET Open(today), Reserve(r, lapsed)
  PROVE  /\ \E u \in UsageRow : /\ usage' = [usage EXCEPT ![InstallOf[r]] = u]
                                /\ u.output = Row(InstallOf[r]).output
         /\ \E l \in LedgerRow :
              /\ ledger' = [ledger EXCEPT ![today] = l]
              /\ l.admitted = Ledger(today).admitted + 1 /\ l.admitted <= Admissions
              /\ l.settled = Ledger(today).settled
              /\ l.reserved = Less(Ledger(today).reserved, Estimate * Cardinality(lapsed)) + Estimate
              /\ l.settled + l.reserved <= Budget
         /\ res' \in [Requests -> Reservation]
         /\ res'[r] = [status |-> "reserved", day |-> today]
         /\ \A p \in Requests \ {r} :
              /\ res'[p].day = res[p].day
              /\ res'[p].status = IF p \in lapsed THEN "expired" ELSE res[p].status
<1> DEFINE i == InstallOf[r]
           u == [Row(i) EXCEPT !.requests = Row(i).requests + 1,
                            !.input = Row(i).input + InputChars]
           w == Without(Ledger(today), lapsed)
           l == [w EXCEPT !.admitted = w.admitted + 1, !.reserved = w.reserved + Estimate]
<1>1. i \in Installs /\ today \in Days /\ InputChars \in Nat /\ Estimate \in Nat /\ Budget \in Nat
  BY OptimizeConstants DEF OptimizeTypes, TypeOK
<1>2. /\ usage' = [usage EXCEPT ![i] = u] /\ BudgetLeft(w)
      /\ ledger' = [ledger EXCEPT ![today] = l]
      /\ res' = [Expire(lapsed) EXCEPT ![r] = [status |-> "reserved", day |-> today]]
  BY DEF Reserve
<1>3. Row(i) \in UsageRow
  BY <1>1, RowIsRow
<1>4. u \in UsageRow /\ u.output = Row(i).output
  <2> HIDE DEF i
  <2>1. Row(i).requests + 1 \in Nat /\ Row(i).input + InputChars \in Nat
    BY <1>1, <1>3 DEF UsageRow
  <2> QED
    BY <1>3, <2>1 DEF UsageRow
<1>5. IsFiniteSet(lapsed)
  BY <1>1, LapsedAreBooked, FS_Subset
<1>6. /\ w \in LedgerRow /\ w.admitted = Ledger(today).admitted /\ w.settled = Ledger(today).settled
      /\ w.reserved = Less(Ledger(today).reserved, Estimate * Cardinality(lapsed))
  BY <1>1, <1>5, LedgerIsRow, WithoutIsRow
<1>7. /\ l \in LedgerRow /\ l.admitted = w.admitted + 1 /\ l.settled = w.settled
      /\ l.reserved = w.reserved + Estimate
  <2> HIDE DEF w
  <2>1. w.admitted + 1 \in Nat /\ w.reserved + Estimate \in Nat
    BY <1>1, <1>6 DEF LedgerRow
  <2> QED
    BY <1>6, <2>1 DEF LedgerRow
<1>8. l.admitted <= Admissions /\ l.settled + l.reserved <= Budget
  <2> HIDE DEF w, l
  <2>1. w.settled \in Nat /\ w.reserved \in Nat /\ w.admitted \in Nat
    BY <1>6 DEF LedgerRow
  <2> QED
    BY <1>1, <1>2, <1>7, <2>1 DEF BudgetLeft
<1>9. res \in [Requests -> Reservation]
  BY DEF OptimizeTypes, TypeOK, Reservation
<1>10. Expire(lapsed) \in [Requests -> Reservation]
  <2>1. \A p \in Requests : [res[p] EXCEPT !.status = "expired"] \in Reservation
    BY <1>9 DEF Reservation
  <2> QED
    BY <1>9, <2>1 DEF Expire
<1>11. \A p \in Requests : /\ Expire(lapsed)[p].day = res[p].day
                           /\ Expire(lapsed)[p].status =
                                IF p \in lapsed THEN "expired" ELSE res[p].status
  BY <1>9 DEF Expire, Reservation
<1>12. [status |-> "reserved", day |-> today] \in Reservation
  BY <1>1 DEF Reservation
<1> HIDE DEF i, u, w, l
<1>13. /\ res' \in [Requests -> Reservation]
       /\ res'[r] = [status |-> "reserved", day |-> today]
       /\ \A p \in Requests \ {r} : res'[p] = Expire(lapsed)[p]
  BY <1>2, <1>10, <1>12
<1> QED
  BY <1>2, <1>4, <1>6, <1>7, <1>8, <1>11, <1>13 DEF i

\* What the retention loop and a restart write.
LEMMA PurgeEffect ==
  ASSUME OptimizeTypes, LedgersAreThere,
         NEW lapsed \in SUBSET UNION {Open(d) : d \in Days}, Purged(lapsed)
  PROVE  /\ ledger' \in [Days -> LedgerRow \cup {None}]
         /\ \A d \in Days :
              /\ ledger'[d] = None <=> ledger[d] = None
              /\ ledger[d] # None =>
                   /\ ledger[d] \in LedgerRow /\ ledger'[d] \in LedgerRow
                   /\ ledger'[d].admitted = ledger[d].admitted
                   /\ ledger'[d].settled = ledger[d].settled
                   /\ ledger'[d].reserved =
                        Less(ledger[d].reserved, Estimate * Cardinality(lapsed \cap Open(d)))
         /\ res' \in [Requests -> Reservation]
         /\ \A p \in Requests :
              /\ res'[p].day = res[p].day
              /\ res'[p].status = IF p \in lapsed THEN "expired" ELSE res[p].status
<1>1. res \in [Requests -> Reservation] /\ ledger \in [Days -> LedgerRow \cup {None}]
  BY DEF OptimizeTypes, TypeOK, Reservation
<1>2. \A d \in Days : IsFiniteSet(lapsed \cap Open(d))
  BY LapsedAreBooked, FS_Subset
<1>3. ASSUME NEW d \in Days, ledger[d] # None
      PROVE  /\ ledger[d] \in LedgerRow /\ Without(ledger[d], lapsed \cap Open(d)) \in LedgerRow
             /\ Without(ledger[d], lapsed \cap Open(d)).admitted = ledger[d].admitted
             /\ Without(ledger[d], lapsed \cap Open(d)).settled = ledger[d].settled
             /\ Without(ledger[d], lapsed \cap Open(d)).reserved =
                  Less(ledger[d].reserved, Estimate * Cardinality(lapsed \cap Open(d)))
  BY <1>1, <1>2, <1>3, WithoutIsRow
<1>4. \A d \in Days : ledger'[d] = IF ledger[d] = None THEN None
                                   ELSE Without(ledger[d], lapsed \cap Open(d))
  BY DEF Purged
<1>8. ASSUME NEW d \in Days
      PROVE  ledger'[d] = None <=> ledger[d] = None
  BY <1>3, <1>4, OptimizeConstants
<1>5. ledger' \in [Days -> LedgerRow \cup {None}]
  BY <1>3 DEF Purged
<1>6. res' \in [Requests -> Reservation]
  <2>1. \A p \in Requests : [res[p] EXCEPT !.status = "expired"] \in Reservation
    BY <1>1 DEF Reservation
  <2> QED
    BY <1>1, <2>1 DEF Expire, Purged
<1>7. \A p \in Requests : /\ res'[p].day = res[p].day
                          /\ res'[p].status = IF p \in lapsed THEN "expired" ELSE res[p].status
  BY <1>1 DEF Expire, Purged, Reservation
<1> QED
  BY <1>3, <1>4, <1>5, <1>6, <1>7, <1>8

\* What a settlement writes, if the reservation is still open.
LEMMA SettleEffect ==
  ASSUME OptimizeTypes, LedgersAreThere, NEW r \in Requests, Settle(r), res[r].status = "reserved"
  PROVE  LET d == res[r].day IN
         /\ d \in Days /\ ledger[d] \in LedgerRow /\ Cost(r) \in Nat
         /\ \E l \in LedgerRow :
              /\ ledger' = [ledger EXCEPT ![d] = l] /\ l.admitted = ledger[d].admitted
              /\ l.settled = ledger[d].settled + Cost(r)
              /\ l.reserved = Less(ledger[d].reserved, Estimate)
         /\ res' \in [Requests -> Reservation]
         /\ res'[r].day = d /\ res'[r].status = "settled"
         /\ \A p \in Requests \ {r} : res'[p] = res[p]
<1> DEFINE d == res[r].day
           l == [ledger[d] EXCEPT !.reserved = Less(ledger[d].reserved, Estimate),
                                  !.settled = ledger[d].settled + Cost(r)]
<1>1. res \in [Requests -> Reservation] /\ ledger \in [Days -> LedgerRow \cup {None}]
  BY DEF OptimizeTypes, TypeOK, Reservation
<1>2. d \in Days /\ ledger[d] # None
  BY <1>1 DEF Reservation, LedgersAreThere, Booked
<1>3. Cost(r) \in Nat /\ Estimate \in Nat
  BY OptimizeConstants DEF Cost, OptimizeTypes, TypeOK
<1>4. ledger[d] \in LedgerRow
  BY <1>1, <1>2
<1>5. /\ ledger' = [ledger EXCEPT ![d] = l]
      /\ res' = [res EXCEPT ![r].status = "settled"]
  BY DEF Settle
<1> HIDE DEF d
<1>6. Less(ledger[d].reserved, Estimate) \in Nat /\ ledger[d].settled + Cost(r) \in Nat
  BY <1>3, <1>4 DEF Less, LedgerRow
<1>7. /\ l \in LedgerRow /\ l.admitted = ledger[d].admitted
      /\ l.settled = ledger[d].settled + Cost(r) /\ l.reserved = Less(ledger[d].reserved, Estimate)
  BY <1>3, <1>4, <1>6 DEF LedgerRow
<1>8. /\ res' \in [Requests -> Reservation]
      /\ res'[r].day = res[r].day /\ res'[r].status = "settled"
      /\ \A p \in Requests \ {r} : res'[p] = res[p]
  BY <1>1, <1>5 DEF Reservation
<1> HIDE DEF l
<1> QED
  BY <1>2, <1>3, <1>4, <1>5, <1>7, <1>8 DEF d

CallTypes ==
  /\ pc \in [Requests -> {"idle", "reserve", "open", "stream", "close", "record",
                          "settle", "over"}]
  /\ claims \in [Ids -> Requests \cup {None}]
  /\ token \in [Requests -> Requests]
  /\ cancelled \subseteq Requests /\ sent \in [Requests -> Nat]
  /\ today \in Days /\ faults \in 0..MaxFaults

BookTypes ==
  /\ usage \in [Installs -> UsageRow \cup {None}]
  /\ ledger \in [Days -> LedgerRow \cup {None}]
  /\ spent \in [requests : Nat, cost : Nat]
  /\ res \in [Requests -> Reservation]

LEMMA OptimizeInParts ==
  /\ OptimizeTypes <=> CallTypes /\ BookTypes
  /\ OptimizeTypes' <=> CallTypes' /\ BookTypes'
  BY DEF OptimizeTypes, TypeOK, CallTypes, BookTypes, Reservation, UsageRow, LedgerRow

LEMMA CallStepTypes ==
  ASSUME OptimizeTypes, [Next]_vars
  PROVE  CallTypes'
<1> USE DEF CallTypes, callVars, bookVars, Goto, Fault
<1>0. CallTypes /\ MaxFaults \in Nat /\ MaxDay \in Nat /\ ChunkSizes \subseteq Nat /\ None \notin Requests
  BY OptimizeInParts, OptimizeConstants
<1>1. ASSUME NEW r \in Requests, Claim(r) \/ ClaimRefused(r)
      PROVE  CallTypes'
  BY <1>0, <1>1, OptimizeConstants DEF Claim, ClaimRefused
<1>2. ASSUME NEW r \in Requests, NEW p \in {"over", "close", "record"}, Release(r), Goto(r, p),
             UNCHANGED <<token, sent, today, faults>>
      PROVE  CallTypes'
  BY <1>0, <1>2, OptimizeConstants DEF Release
<1>3. ASSUME NEW r \in Requests,
             ReserveRefused(r) \/ Stop(r) \/ Close(r) \/ \E n \in ChunkSizes : ChunkRefused(r, n)
      PROVE  CallTypes'
  BY <1>2, <1>3 DEF ReserveRefused, Stop, Close, ChunkRefused, Leave
<1>4. ASSUME NEW r \in Requests,
             Abandon(r) \/ StartRefused(r) \/ Record(r) \/ RecordFails(r)
             \/ Settle(r) \/ SettleFails(r)
      PROVE  CallTypes'
  BY <1>0, <1>4 DEF Abandon, StartRefused, Record, RecordFails, Settle, SettleFails
<1>5. ASSUME NEW r \in Requests, NEW n \in ChunkSizes, Chunk(r, n)
      PROVE  CallTypes'
  BY <1>0, <1>5 DEF Chunk
<1>6. ASSUME NEW r \in Requests, NEW lapsed \in SUBSET Open(today), Reserve(r, lapsed)
      PROVE  CallTypes'
  BY <1>0, <1>6 DEF Reserve
<1>7. ASSUME NEW i \in Installs, NEW id \in Ids, Cancel(i, id)
      PROVE  CallTypes'
  BY <1>0, <1>7 DEF Cancel
<1>8. ASSUME NEW lapsed, Purge(lapsed) \/ Restart(lapsed)
      PROVE  CallTypes'
  BY <1>0, <1>8 DEF Purge, Restart
<1>9. CASE NextDay
  BY <1>0, <1>9 DEF NextDay, Days
<1>10. CASE UNCHANGED vars
  BY <1>0, <1>10 DEF vars
<1>11. ASSUME NEW r \in Requests, Start(r)
       PROVE  CallTypes'
  <2>1. claims[IdOf[r]] \in Requests
    BY <1>0, <1>11, OptimizeConstants DEF Start
  <2> QED
    BY <1>0, <1>11, <2>1 DEF Start
<1> QED
  BY <1>1, <1>3, <1>4, <1>5, <1>6, <1>7, <1>8, <1>9, <1>10, <1>11 DEF Next, Work

LEMMA BookStepTypes ==
  ASSUME OptimizeTypes, LedgersAreThere, [Next]_vars
  PROVE  BookTypes'
<1>0. CallTypes /\ BookTypes
  BY OptimizeInParts
<1>1. CASE UNCHANGED <<usage, ledger, spent, res>>
  BY <1>0, <1>1 DEF BookTypes
<1>2. ASSUME NEW r \in Requests, Record(r)
      PROVE  BookTypes'
  <2>1. Cost(r) \in Nat
    BY <1>0, OptimizeConstants DEF Cost, CallTypes
  <2>2. spent.requests \in Nat /\ spent.cost \in Nat
    BY <1>0 DEF BookTypes
  <2>3. spent' \in [requests : Nat, cost : Nat]
    BY <1>2, <2>1, <2>2 DEF Record
  <2> QED
    BY <1>0, <1>2, <2>3 DEF BookTypes, Record
<1>3. ASSUME NEW r \in Requests, NEW lapsed \in SUBSET Open(today), Reserve(r, lapsed)
      PROVE  BookTypes'
  <2>1. /\ \E u \in UsageRow : usage' = [usage EXCEPT ![InstallOf[r]] = u]
        /\ \E l \in LedgerRow : ledger' = [ledger EXCEPT ![today] = l]
        /\ res' \in [Requests -> Reservation]
    BY <1>3, ReserveEffect
  <2> QED
    BY <1>0, <1>3, <2>1 DEF BookTypes, Reserve
<1>4. ASSUME NEW r \in Requests, NEW n \in ChunkSizes, Chunk(r, n)
      PROVE  BookTypes'
  <2> DEFINE i == InstallOf[r]
             u == [usage[i] EXCEPT !.output = usage[i].output + n]
  <2>1. usage[i] \in UsageRow /\ n \in Nat
    BY <1>0, <1>4, OptimizeConstants DEF Chunk, Fits, BookTypes
  <2>2. usage[i].output + n \in Nat
    BY <2>1 DEF UsageRow
  <2>3. usage' = [usage EXCEPT ![i] = u]
    BY <1>4 DEF Chunk
  <2>4. u \in UsageRow
    BY <2>1, <2>2 DEF UsageRow
  <2>5. ledger' = ledger /\ spent' = spent /\ res' = res
    BY <1>4 DEF Chunk
  <2> HIDE DEF i, u
  <2> QED
    BY <1>0, <2>3, <2>4, <2>5 DEF BookTypes
<1>5. ASSUME NEW r \in Requests, Settle(r), res[r].status = "reserved"
      PROVE  BookTypes'
  <2>1. /\ \E l \in LedgerRow : ledger' = [ledger EXCEPT ![res[r].day] = l]
        /\ res' \in [Requests -> Reservation]
    BY <1>5, SettleEffect
  <2> QED
    BY <1>0, <1>5, <2>1 DEF BookTypes, Settle
<1>6. ASSUME NEW r \in Requests, Settle(r), res[r].status # "reserved"
      PROVE  BookTypes'
  BY <1>1, <1>6 DEF Settle
<1>7. ASSUME NEW lapsed \in SUBSET UNION {Open(d) : d \in Days}, Purge(lapsed) \/ Restart(lapsed)
      PROVE  BookTypes'
  <2>1. ledger' \in [Days -> LedgerRow \cup {None}] /\ res' \in [Requests -> Reservation]
    BY <1>7, PurgeEffect DEF Purge, Restart
  <2> QED
    BY <1>0, <1>7, <2>1 DEF BookTypes, Purge, Restart, callVars
<1>8. CASE NextDay
  BY <1>0, <1>8 DEF BookTypes, NextDay
<1> QED
  BY <1>1, <1>2, <1>3, <1>4, <1>5, <1>6, <1>7, <1>8
  DEF Next, Work, vars, callVars, bookVars, Claim, ClaimRefused, ReserveRefused, Abandon, Start,
      StartRefused, ChunkRefused, Stop, Close, RecordFails, SettleFails, Cancel

LEMMA OptimizeStepTypes ==
  ASSUME OptimizeTypes, LedgersAreThere, [Next]_vars
  PROVE  OptimizeTypes'
  BY OptimizeInParts, CallStepTypes, BookStepTypes

-----------------------------------------------------------------------------
(* Optimize: claims.                                                       *)

LEMMA ClaimsRest ==
  ASSUME ClaimsInv, claims' = claims, token' = token,
         \A r \in Requests : /\ Runs(r)' => Runs(r)
                             /\ pc'[r] \in {"idle", "reserve", "open"} =>
                                  pc[r] \in {"idle", "reserve", "open"}
  PROVE  ClaimsInv'
<1>1. RunningHoldClaims'
  <2>1. \A r \in Requests : Runs(r)' => claims'[IdOf[r]] = token'[r]
    BY DEF ClaimsInv, RunningHoldClaims
  <2>2. \A r \in Requests : pc'[r] \in {"idle", "reserve", "open"} => token'[r] = r
    BY DEF ClaimsInv, RunningHoldClaims
  <2> QED
    BY <2>1, <2>2 DEF RunningHoldClaims
<1>2. Claimed' = Claimed /\ \A i \in Installs : ClaimedBy(i)' = ClaimedBy(i)
  BY DEF Claimed, ClaimedBy
<1>3. ClaimsAreFew'
  BY <1>2 DEF ClaimsInv, ClaimsAreFew
<1> QED
  BY <1>1, <1>3 DEF ClaimsInv

\* A release takes the claim of the id whoever has it, and cancels every call that runs with it.
LEMMA ReleaseSafe ==
  ASSUME OptimizeTypes, ClaimsInv, NEW r \in Requests, Release(r), token' = token,
         NEW p \in {"over", "close", "record"}, Goto(r, p)
  PROVE  ClaimsInv'
<1>1. CallTypes /\ IdOf \in [Requests -> Ids] /\ None \notin Requests
  BY OptimizeInParts, OptimizeConstants
<1>2. /\ claims' = [claims EXCEPT ![IdOf[r]] = None]
      /\ cancelled' = (cancelled \cup {claims[IdOf[r]]}) \ {None}
      /\ pc' = [pc EXCEPT ![r] = p]
  BY DEF Release, Goto
<1>3. ASSUME NEW s \in Requests, Runs(s)'
      PROVE  claims'[IdOf[s]] = token'[s]
  <2>1. s # r /\ Runs(s) /\ claims[IdOf[r]] # token[s]
    BY <1>1, <1>2, <1>3 DEF Runs, CallTypes
  <2>2. claims[IdOf[s]] = token[s]
    BY <2>1 DEF ClaimsInv, RunningHoldClaims
  <2>3. IdOf[s] # IdOf[r]
    BY <2>1, <2>2
  <2> QED
    BY <1>1, <1>2, <2>2, <2>3 DEF CallTypes
<1>7. \A s \in Requests : pc'[s] \in {"idle", "reserve", "open"} => token'[s] = s
  BY <1>1, <1>2 DEF CallTypes, ClaimsInv, RunningHoldClaims
<1>4. /\ Claimed' \subseteq Claimed
      /\ \A i \in Installs : ClaimedBy(i)' \subseteq ClaimedBy(i)
  BY <1>1, <1>2 DEF Claimed, ClaimedBy, CallTypes
<1>5. IsFiniteSet(Claimed) /\ \A i \in Installs : ClaimedBy(i) \subseteq Claimed
  BY DEF ClaimsInv, ClaimsAreFew, ClaimedBy
<1>6. ClaimsAreFew'
  <2>1. /\ IsFiniteSet(Claimed') /\ Cardinality(Claimed') <= Cardinality(Claimed)
        /\ Cardinality(Claimed') \in Nat /\ Cardinality(Claimed) \in Nat
    BY <1>4, <1>5, FS_Subset, FS_CardinalityType
  <2>2. ASSUME NEW i \in Installs
        PROVE  /\ Cardinality(ClaimedBy(i)') <= Cardinality(ClaimedBy(i))
               /\ Cardinality(ClaimedBy(i)') \in Nat /\ Cardinality(ClaimedBy(i)) \in Nat
    <3>1. IsFiniteSet(ClaimedBy(i))
      BY <1>5, FS_Subset
    <3> QED
      BY <1>4, <3>1, FS_Subset, FS_CardinalityType
  <2>3. Cardinality(Claimed') <= MaxGlobal
    BY <2>1, OptimizeConstants DEF ClaimsInv, ClaimsAreFew
  <2>4. \A i \in Installs : Cardinality(ClaimedBy(i)') <= MaxPerInstall
    BY <2>2, OptimizeConstants DEF ClaimsInv, ClaimsAreFew
  <2> QED
    BY <2>1, <2>3, <2>4 DEF ClaimsAreFew
<1> QED
  BY <1>3, <1>6, <1>7 DEF ClaimsInv, RunningHoldClaims

\* A claim passes both gates, and finds no call with its id that runs.
LEMMA ClaimSafe ==
  ASSUME OptimizeTypes, ClaimsInv, NEW r \in Requests, Claim(r)
  PROVE  ClaimsInv'
<1>1. /\ CallTypes /\ IdOf \in [Requests -> Ids] /\ InstallOf \in [Requests -> Installs]
      /\ None \notin Requests /\ IdOf[r] \in Ids /\ InstallOf[r] \in Installs
  BY OptimizeInParts, OptimizeConstants
<1>2. /\ claims' = [claims EXCEPT ![IdOf[r]] = r] /\ cancelled' = cancelled /\ token' = token
      /\ pc' = [pc EXCEPT ![r] = "reserve"] /\ claims[IdOf[r]] = None /\ token[r] = r
      /\ Cardinality(Claimed) < MaxGlobal
      /\ Cardinality(ClaimedBy(InstallOf[r])) < MaxPerInstall
  BY DEF Claim, Goto, MayClaim, ClaimedBy, ClaimsInv, RunningHoldClaims
<1>3. ASSUME NEW s \in Requests, Runs(s)'
      PROVE  claims'[IdOf[s]] = token'[s]
  <2>1. CASE s = r
    BY <1>1, <1>2, <2>1 DEF CallTypes
  <2>2. CASE s # r
    <3>1. claims[IdOf[s]] = token[s] /\ token[s] \in Requests
      BY <1>1, <1>2, <1>3, <2>2 DEF ClaimsInv, RunningHoldClaims, Runs, CallTypes
    <3>2. IdOf[s] # IdOf[r]
      BY <1>1, <1>2, <3>1
    <3> QED
      BY <1>1, <1>2, <3>1, <3>2 DEF CallTypes
  <2> QED
    BY <2>1, <2>2
<1>9. \A s \in Requests : pc'[s] \in {"idle", "reserve", "open"} => token'[s] = s
  BY <1>1, <1>2 DEF CallTypes, ClaimsInv, RunningHoldClaims
<1>4. /\ Claimed' = Claimed \cup {IdOf[r]} /\ IdOf[r] \notin Claimed
      /\ ClaimedBy(InstallOf[r])' = ClaimedBy(InstallOf[r]) \cup {IdOf[r]}
      /\ \A i \in Installs \ {InstallOf[r]} : ClaimedBy(i)' = ClaimedBy(i)
  BY <1>1, <1>2 DEF Claimed, ClaimedBy, CallTypes
<1>5. /\ IsFiniteSet(Claimed) /\ IsFiniteSet(ClaimedBy(InstallOf[r]))
      /\ IdOf[r] \notin ClaimedBy(InstallOf[r])
  <2>1. ClaimedBy(InstallOf[r]) \subseteq Claimed
    BY DEF ClaimedBy
  <2> QED
    BY <1>4, <2>1, FS_Subset DEF ClaimsInv, ClaimsAreFew
<1>6. /\ IsFiniteSet(Claimed') /\ Cardinality(Claimed') = Cardinality(Claimed) + 1
      /\ Cardinality(ClaimedBy(InstallOf[r])') = Cardinality(ClaimedBy(InstallOf[r])) + 1
      /\ Cardinality(Claimed) \in Nat /\ Cardinality(ClaimedBy(InstallOf[r])) \in Nat
  BY <1>4, <1>5, FS_AddElement, FS_CardinalityType
<1>7. /\ Cardinality(Claimed') <= MaxGlobal
      /\ Cardinality(ClaimedBy(InstallOf[r])') <= MaxPerInstall
  BY <1>2, <1>6, OptimizeConstants
<1>8. ClaimsAreFew'
  BY <1>4, <1>6, <1>7 DEF ClaimsInv, ClaimsAreFew
<1> QED
  BY <1>3, <1>8, <1>9 DEF ClaimsInv, RunningHoldClaims

\* The stream takes the claim that stands under its id, whosever it is.
LEMMA StartSafe ==
  ASSUME OptimizeTypes, ClaimsInv, NEW r \in Requests, Start(r)
  PROVE  ClaimsInv'
<1>1. CallTypes /\ claims' = claims /\ cancelled' = cancelled
  BY OptimizeInParts DEF Start
<1>2. /\ token'[r] = claims[IdOf[r]] /\ pc'[r] = "stream"
      /\ \A s \in Requests \ {r} : token'[s] = token[s] /\ pc'[s] = pc[s]
  BY <1>1 DEF Start, Goto, CallTypes
<1>3. RunningHoldClaims'
  BY <1>1, <1>2 DEF ClaimsInv, RunningHoldClaims, Runs
<1>4. Claimed' = Claimed /\ \A i \in Installs : ClaimedBy(i)' = ClaimedBy(i)
  BY <1>1 DEF Claimed, ClaimedBy
<1>5. ClaimsAreFew'
  BY <1>4 DEF ClaimsInv, ClaimsAreFew
<1> QED
  BY <1>3, <1>5 DEF ClaimsInv

LEMMA RestartSafe ==
  ASSUME NEW lapsed, Restart(lapsed)
  PROVE  ClaimsInv'
<1>1. \A r \in Requests : ~Runs(r)' /\ token'[r] = r
  BY DEF Restart, Runs
<1>2. Claimed' = {} /\ \A i \in Installs : ClaimedBy(i)' = {}
  BY DEF Restart, Claimed, ClaimedBy
<1> QED
  BY <1>1, <1>2, FS_EmptySet, OptimizeConstants DEF ClaimsInv, RunningHoldClaims, ClaimsAreFew

LEMMA OptimizeStepClaims ==
  ASSUME OptimizeTypes, ClaimsInv, [Next]_vars
  PROVE  ClaimsInv'
<1> USE DEF callVars, bookVars
<1>0. CallTypes
  BY OptimizeInParts
<1>1. ASSUME NEW r \in Requests,
             ReserveRefused(r) \/ Stop(r) \/ Close(r) \/ \E n \in ChunkSizes : ChunkRefused(r, n)
      PROVE  ClaimsInv'
  BY <1>1, ReleaseSafe DEF ReserveRefused, Stop, Close, ChunkRefused, Leave
<1>2. ASSUME NEW r \in Requests, NEW p, Goto(r, p), UNCHANGED <<claims, token, cancelled>>,
             p \notin {"idle", "reserve", "open", "stream"} \/ (p = "open" /\ pc[r] = "reserve")
      PROVE  ClaimsInv'
  <2>1. \A s \in Requests : pc'[s] = IF s = r THEN p ELSE pc[s]
    BY <1>0, <1>2 DEF Goto, CallTypes
  <2>2. \A s \in Requests : /\ Runs(s)' => Runs(s)
                            /\ pc'[s] \in {"idle", "reserve", "open"} =>
                                 pc[s] \in {"idle", "reserve", "open"}
    BY <1>2, <2>1 DEF Runs
  <2> QED
    BY <1>2, <2>2, ClaimsRest
<1>3. ASSUME NEW r \in Requests,
             ClaimRefused(r) \/ Abandon(r) \/ StartRefused(r) \/ Record(r)
             \/ RecordFails(r) \/ Settle(r) \/ SettleFails(r)
      PROVE  ClaimsInv'
  <2>1. \E p \in {"over", "close", "settle"} : Goto(r, p)
    BY <1>3 DEF ClaimRefused, Abandon, StartRefused, Record, RecordFails, Settle, SettleFails
  <2>2. UNCHANGED <<claims, token, cancelled>>
    BY <1>3 DEF ClaimRefused, Abandon, StartRefused, Record, RecordFails, Settle, SettleFails
  <2> QED
    BY <1>2, <2>1, <2>2
<1>5. ASSUME NEW r \in Requests, \E lapsed \in SUBSET Open(today) : Reserve(r, lapsed)
      PROVE  ClaimsInv'
  BY <1>2, <1>5 DEF Reserve
<1>4. CASE UNCHANGED <<pc, claims, token>> /\ cancelled \subseteq cancelled'
  BY <1>4, ClaimsRest DEF Runs
<1> QED
  BY <1>1, <1>3, <1>4, <1>5, ClaimSafe, StartSafe, RestartSafe
  DEF Next, Work, vars, Chunk, Cancel, Purge, NextDay

\* The ids under which calls run are no more than the claims.
LEMMA RunningAreFew ==
  ASSUME OptimizeTypes, ClaimsInv
  PROVE  EachIdIsCounted
<1> DEFINE ids(calls) == {IdOf[r] : r \in calls}
           of(i) == {r \in Running : InstallOf[token[r]] = i}
<1>1. CallTypes /\ IdOf \in [Requests -> Ids] /\ None \notin Requests
  BY OptimizeInParts, OptimizeConstants
<1>2. \A r \in Running : claims[IdOf[r]] = token[r] /\ IdOf[r] \in Claimed
  BY <1>1 DEF ClaimsInv, RunningHoldClaims, Running, Claimed, CallTypes
<1>3. /\ IsFiniteSet(Claimed)
      /\ ids(Running) \subseteq Claimed
      /\ \A i \in Installs : ClaimedBy(i) \subseteq Claimed /\ ids(of(i)) \subseteq ClaimedBy(i)
  BY <1>2 DEF ClaimsInv, ClaimsAreFew, ClaimedBy
<1>4. Cardinality(ids(Running)) <= MaxGlobal
  <2>1. /\ Cardinality(ids(Running)) <= Cardinality(Claimed)
        /\ Cardinality(ids(Running)) \in Nat /\ Cardinality(Claimed) \in Nat
    BY <1>3, FS_Subset, FS_CardinalityType
  <2> HIDE DEF ids
  <2> QED
    BY <2>1, OptimizeConstants DEF ClaimsInv, ClaimsAreFew
<1>5. ASSUME NEW i \in Installs
      PROVE  Cardinality(ids(of(i))) <= MaxPerInstall
  <2>1. IsFiniteSet(ClaimedBy(i)) /\ ids(of(i)) \subseteq ClaimedBy(i)
    BY <1>3, FS_Subset
  <2> HIDE DEF ids, of
  <2>2. /\ Cardinality(ids(of(i))) <= Cardinality(ClaimedBy(i))
        /\ Cardinality(ids(of(i))) \in Nat /\ Cardinality(ClaimedBy(i)) \in Nat
    BY <2>1, FS_Subset, FS_CardinalityType
  <2> QED
    BY <2>2, OptimizeConstants DEF ClaimsInv, ClaimsAreFew
<1> QED
  BY <1>2, <1>4, <1>5 DEF EachIdIsCounted

-----------------------------------------------------------------------------
(* Optimize: books.                                                        *)

LEMMA Products ==
  ASSUME NEW e \in Nat, NEW n \in Nat
  PROVE  /\ e * n \in Nat /\ e * 0 = 0 /\ e * 1 = e
         /\ e * (n + 1) = e * n + e
         /\ \A k \in Nat : k <= n => Less(e * n, e * k) = e * (n - k)
<1>1. e * n \in Nat /\ e * 0 = 0 /\ e * 1 = e /\ e * (n + 1) = e * n + e
  OBVIOUS
<1>2. ASSUME NEW k \in Nat, k <= n
      PROVE  Less(e * n, e * k) = e * (n - k)
  <2>1. e * (n - k) = e * n - e * k
    BY <1>2
  <2>2. n - k \in Nat /\ e * (n - k) \in Nat /\ e * k \in Nat
    BY <1>2
  <2>3. \A a, b, c \in Nat : c = a - b => Less(a, b) = c
    BY DEF Less
  <2> QED
    BY <1>1, <2>1, <2>2, <2>3, SMTT(30)
<1> QED
  BY <1>1, <1>2

LEMMA LessOfProducts == \A e, n, k \in Nat : k <= n => Less(e * n, e * k) = e * (n - k)
  BY Products

\* The sum depends on what the calls in it sent, and grows by the cost of one more.
LEMMA TotalSame ==
  ASSUME NEW s, NEW t, NEW D, IsFiniteSet(D), \A r \in D : s[r] \in Nat /\ t[r] = s[r]
  PROVE  Total(t, D) = Total(s, D)
<1>1. Units(t, D) = Units(s, D)
  BY DEF Units
<1> QED
  BY <1>1, TotalCounts

LEMMA TotalOneMore ==
  ASSUME NEW s, NEW D, IsFiniteSet(D), NEW r, r \notin D, \A p \in D \cup {r} : s[p] \in Nat
  PROVE  Total(s, D \cup {r}) = Total(s, D) + (InputChars + s[r])
<1>1. IsFiniteSet(Units(s, D)) /\ IsFiniteSet(D \cup {r})
  BY UnitsAreFinite, FS_AddElement
<1>2. Cardinality(Units(s, D \cup {r})) = Cardinality(Units(s, D)) + (InputChars + s[r])
  BY <1>1, UnitsOfOneMore
<1>3. /\ Total(s, D) = Cardinality(Units(s, D))
      /\ Total(s, D \cup {r}) = Cardinality(Units(s, D \cup {r}))
  BY <1>1, TotalCounts
<1> QED
  BY <1>2, <1>3

\* A call only goes on.
PcAhead ==
  \A r \in Requests : /\ pc'[r] \in {"idle", "reserve"} => pc[r] \in {"idle", "reserve"}
                      /\ pc[r] = "over" => pc'[r] = "over"

\* Steps that write no row of the books, but for the aggregate of the day.
LEMMA BooksRest ==
  ASSUME BooksInv, PcAhead, UNCHANGED <<sent, usage, ledger, res, today>>
  PROVE  BooksInv' /\ (WithinBudget => WithinBudget')
<1>1. Stages'
  BY DEF BooksInv, Stages, PcAhead
<1>2. LedgersAreThere' /\ OutputIsCounted'
  BY DEF BooksInv, LedgersAreThere, OutputIsCounted, Booked
<1>3. LedgersAreExact'
  BY DEF BooksInv, LedgersAreExact, Open, SettledOn
<1> QED
  BY <1>1, <1>2, <1>3 DEF BooksInv, WithinBudget

\* A new ledger sums up the reservations of its day too: there are none.
LEMMA LedgerIsExact ==
  ASSUME OptimizeTypes, BooksInv, NEW d \in Days
  PROVE  /\ Ledger(d).reserved = Estimate * Cardinality(Open(d))
         /\ Ledger(d).settled >= Total(sent, SettledOn(d))
<1>1. CASE ledger[d] # None
  BY <1>1, LedgerIsRow DEF BooksInv, LedgersAreExact
<1>2. CASE ledger[d] = None
  <2>1. Open(d) = {} /\ SettledOn(d) = {}
    BY <1>2 DEF BooksInv, LedgersAreThere, Booked, Open, SettledOn
  <2>2. Cardinality({}) = 0 /\ Units(sent, {}) = {} /\ IsFiniteSet({})
    BY FS_EmptySet DEF Units
  <2>3. Total(sent, {}) = 0
    BY <2>2, TotalCounts
  <2>4. Ledger(d).reserved = 0 /\ Ledger(d).settled \in Nat
    BY <1>2, LedgerIsRow DEF LedgerRow
  <2> QED
    BY <2>1, <2>2, <2>3, <2>4, OptimizeConstants, Products
<1> QED
  BY <1>1, <1>2

LEMMA ReserveBooks ==
  ASSUME OptimizeTypes, BooksInv, NEW r \in Requests,
         NEW lapsed \in SUBSET Open(today), Reserve(r, lapsed)
  PROVE  BooksInv' /\ WithinBudget'
<1> DEFINE i == InstallOf[r]
<1>1. /\ CallTypes /\ BookTypes /\ i \in Installs /\ today \in Days
      /\ None \notin UsageRow /\ None \notin LedgerRow /\ Estimate \in Nat /\ DayOutput \in Nat
  BY OptimizeInParts, OptimizeConstants DEF CallTypes
<1>2. /\ pc[r] = "reserve" /\ pc' = [pc EXCEPT ![r] = "open"]
      /\ sent' = sent /\ today' = today
  BY DEF Reserve, Goto
<1>3. LedgersAreThere
  BY DEF BooksInv
<1>4. PICK u \in UsageRow : /\ usage' = [usage EXCEPT ![i] = u]
                            /\ u.output = Row(i).output
  BY <1>3, ReserveEffect
<1>5. PICK l \in LedgerRow :
        /\ ledger' = [ledger EXCEPT ![today] = l]
        /\ l.admitted <= Admissions
        /\ l.settled = Ledger(today).settled
        /\ l.reserved = Less(Ledger(today).reserved, Estimate * Cardinality(lapsed)) + Estimate
        /\ l.settled + l.reserved <= Budget
  BY <1>3, ReserveEffect
<1>6. /\ res' \in [Requests -> Reservation]
      /\ res'[r].status = "reserved" /\ res'[r].day = today
      /\ \A p \in Requests \ {r} :
           /\ res'[p].day = res[p].day
           /\ res'[p].status = IF p \in lapsed THEN "expired" ELSE res[p].status
  BY <1>3, ReserveEffect
<1>7. /\ ledger'[today] = l /\ \A d \in Days \ {today} : ledger'[d] = ledger[d]
      /\ usage'[i] = u /\ \A j \in Installs \ {i} : usage'[j] = usage[j]
  BY <1>1, <1>4, <1>5 DEF BookTypes
<1>8. res[r].status = "none" /\ sent[r] = 0
  BY <1>2 DEF BooksInv, Stages
<1>9. \A p \in lapsed : p \in Requests /\ p # r /\ res[p].status = "reserved" /\ res[p].day = today
  BY <1>8 DEF Open
<1>10. Stages'
  BY <1>1, <1>2, <1>6, <1>9 DEF BooksInv, Stages, CallTypes
<1>11. LedgersAreThere'
  <2>1. Booked' = Booked \cup {r}
    BY <1>6, <1>9 DEF Booked
  <2>2. IsFiniteSet(Booked')
    BY <1>3, <2>1, FS_AddElement DEF LedgersAreThere
  <2>3. \A p \in Booked' : res'[p].day \in Days /\ (p # r => p \in Booked /\ res'[p].day = res[p].day)
    BY <1>6, <2>1 DEF Reservation, Booked
  <2>4. \A p \in Booked' : ledger'[res'[p].day] # None
    BY <1>1, <1>3, <1>6, <1>7, <2>3 DEF LedgersAreThere
  <2>5. \A d \in Days : d > today' => ledger'[d] = None
    BY <1>1, <1>2, <1>3, <1>7 DEF LedgersAreThere, Days
  <2> QED
    BY <2>2, <2>4, <2>5 DEF LedgersAreThere
<1>12. LedgersAreExact'
  <2>1. ASSUME NEW d \in Days
        PROVE  SettledOn(d)' = SettledOn(d)
    BY <1>6, <1>8, <1>9 DEF SettledOn
  <2>2. ASSUME NEW d \in Days, d # today
        PROVE  Open(d)' = Open(d)
    BY <1>6, <1>8, <1>9, <2>2 DEF Open
  <2>3. Open(today)' = (Open(today) \ lapsed) \cup {r} /\ r \notin Open(today)
    BY <1>2, <1>6, <1>8, <1>9 DEF Open
  <2>4. /\ IsFiniteSet(Open(today)) /\ Open(today) \cap lapsed = lapsed
        /\ IsFiniteSet(lapsed) /\ Cardinality(lapsed) <= Cardinality(Open(today))
        /\ Cardinality(lapsed) \in Nat /\ Cardinality(Open(today)) \in Nat
    BY <1>1, <1>3, LapsedAreBooked, FS_Subset, FS_CardinalityType
  <2>5. /\ IsFiniteSet(Open(today) \ lapsed)
        /\ Cardinality(Open(today) \ lapsed) = Cardinality(Open(today)) - Cardinality(lapsed)
    BY <2>4, FS_Difference
  <2>6. Cardinality((Open(today) \ lapsed) \cup {r})
          = Cardinality(Open(today)) - Cardinality(lapsed) + 1
    BY <2>3, <2>5, FS_AddElement
  <2>7. l.reserved = Estimate * Cardinality(Open(today)')
    <3> DEFINE n == Cardinality(Open(today))
               k == Cardinality(lapsed)
    <3>1. Ledger(today).reserved = Estimate * n
      BY <1>1, LedgerIsExact
    <3>2. n \in Nat /\ k \in Nat /\ k <= n /\ n - k \in Nat /\ Cardinality(Open(today)') = n - k + 1
      BY <2>3, <2>4, <2>6
    <3> HIDE DEF n, k
    <3>3. Less(Estimate * n, Estimate * k) = Estimate * (n - k)
      BY <1>1, <3>2, LessOfProducts, Zenon
    <3>4. Estimate * ((n - k) + 1) = Estimate * (n - k) + Estimate
      <4> DEFINE m == n - k
      <4>1. m \in Nat
        BY <3>2
      <4> HIDE DEF m
      <4>2. Estimate * (m + 1) = Estimate * m + Estimate
        BY <1>1, <4>1, Products
      <4> QED
        BY <4>2 DEF m
    <3> QED
      BY <1>5, <3>1, <3>2, <3>3, <3>4 DEF k
  <2>8. l.settled >= Total(sent, SettledOn(today))
    BY <1>1, <1>5, LedgerIsExact
  <2>9. ASSUME NEW d \in Days, ledger'[d] # None
        PROVE  /\ ledger'[d].reserved = Estimate * Cardinality(Open(d)')
               /\ ledger'[d].settled >= Total(sent', SettledOn(d)')
    <3>1. CASE d = today
      BY <1>2, <1>7, <2>1, <2>7, <2>8, <3>1
    <3>2. CASE d # today
      BY <1>2, <1>7, <2>1, <2>2, <2>9, <3>2 DEF BooksInv, LedgersAreExact
    <3> QED
      BY <3>1, <3>2
  <2> QED
    BY <2>9 DEF LedgersAreExact
<1>13. OutputIsCounted'
  <2>1. Row(i) \in UsageRow /\ (usage[i] # None => Row(i) = usage[i])
        /\ (usage[i] = None => Row(i).output = 0)
    BY <1>1, RowIsRow
  <2>2. u.output \in Nat /\ u.output <= DayOutput
    BY <1>1, <1>4, <2>1 DEF BooksInv, OutputIsCounted, UsageRow
  <2>3. \A j \in Installs : usage'[j] # None => usage'[j].output <= DayOutput
    BY <1>7, <2>2 DEF BooksInv, OutputIsCounted
  <2>4. ASSUME NEW p \in Requests, res'[p].status = "reserved", res'[p].day = today
        PROVE  usage'[InstallOf[p]] # None /\ sent[p] <= usage'[InstallOf[p]].output
    <3>1. CASE p = r
      BY <1>1, <1>7, <1>8, <2>2, <3>1
    <3>2. CASE p # r
      <4>1. InstallOf[p] \in Installs /\ usage[InstallOf[p]] # None
            /\ sent[p] <= usage[InstallOf[p]].output
        BY <1>6, <2>4, <3>2, OptimizeConstants DEF BooksInv, OutputIsCounted
      <4> QED
        BY <1>1, <1>4, <1>7, <2>1, <4>1
    <3> QED
      BY <3>1, <3>2
  <2> QED
    BY <1>2, <2>3, <2>4 DEF OutputIsCounted
<1>14. WithinBudget'
  BY <1>2, <1>5, <1>7 DEF WithinBudget
<1> QED
  BY <1>10, <1>11, <1>12, <1>13, <1>14 DEF BooksInv

LEMMA ChunkBooks ==
  ASSUME OptimizeTypes, BooksInv, NEW r \in Requests, NEW n \in ChunkSizes, Chunk(r, n)
  PROVE  BooksInv' /\ (WithinBudget => WithinBudget')
<1> DEFINE i == InstallOf[r]
           u == [usage[i] EXCEPT !.output = usage[i].output + n]
<1>1. /\ CallTypes /\ BookTypes /\ i \in Installs /\ n \in Nat
      /\ None \notin UsageRow /\ DayOutput \in Nat
  BY OptimizeInParts, OptimizeConstants
<1>2. /\ pc[r] = "stream" /\ usage[i] # None /\ usage[i].output + n <= DayOutput
      /\ sent' = [sent EXCEPT ![r] = sent[r] + n] /\ usage' = [usage EXCEPT ![i] = u]
      /\ pc' = pc /\ ledger' = ledger /\ res' = res /\ today' = today
  BY <1>1 DEF Chunk, Fits, CallTypes
<1>3. usage[i] \in UsageRow /\ usage[i].output \in Nat
  BY <1>1, <1>2 DEF BookTypes, UsageRow
<1>4. u \in UsageRow /\ u.output = usage[i].output + n
  BY <1>1, <1>3 DEF UsageRow
<1> HIDE DEF u, i
<1>5. /\ usage'[i] = u /\ \A j \in Installs \ {i} : usage'[j] = usage[j]
      /\ sent'[r] = sent[r] + n /\ \A p \in Requests \ {r} : sent'[p] = sent[p]
  BY <1>1, <1>2 DEF BookTypes, CallTypes
<1>6. Stages'
  BY <1>2, <1>5 DEF BooksInv, Stages
<1>7. LedgersAreThere'
  BY <1>2 DEF BooksInv, LedgersAreThere, Booked
<1>8. LedgersAreExact'
  <2>1. ASSUME NEW d \in Days
        PROVE  /\ Open(d)' = Open(d) /\ SettledOn(d)' = SettledOn(d)
               /\ Total(sent', SettledOn(d)) = Total(sent, SettledOn(d))
    <3>1. Open(d)' = Open(d) /\ SettledOn(d)' = SettledOn(d)
      BY <1>2 DEF Open, SettledOn
    <3>2. \A p \in SettledOn(d) : p \in Requests /\ p # r
      BY <1>2 DEF SettledOn, BooksInv, Stages
    <3>3. \A p \in SettledOn(d) : sent[p] \in Nat /\ sent'[p] = sent[p]
      BY <1>1, <1>5, <3>2 DEF CallTypes
    <3>4. IsFiniteSet(SettledOn(d))
      BY LapsedAreBooked DEF BooksInv
    <3> QED
      BY <3>1, <3>3, <3>4, TotalSame
  <2> QED
    BY <1>2, <2>1 DEF BooksInv, LedgersAreExact
<1>9. OutputIsCounted'
  <2>1. \A j \in Installs : usage'[j] # None => usage'[j].output <= DayOutput
    BY <1>2, <1>4, <1>5 DEF BooksInv, OutputIsCounted
  <2>2. ASSUME NEW p \in Requests, res[p].status = "reserved", res[p].day = today
        PROVE  usage'[InstallOf[p]] # None /\ sent'[p] <= usage'[InstallOf[p]].output
    <3>1. /\ InstallOf[p] \in Installs /\ usage[InstallOf[p]] # None
          /\ sent[p] <= usage[InstallOf[p]].output /\ sent[p] \in Nat
      BY <1>1, <2>2, OptimizeConstants DEF BooksInv, OutputIsCounted, CallTypes
    <3>2. CASE p = r
      BY <1>1, <1>3, <1>4, <1>5, <3>1, <3>2 DEF i
    <3>3. CASE p # r /\ InstallOf[p] = i
      BY <1>1, <1>3, <1>4, <1>5, <3>1, <3>3
    <3>4. CASE p # r /\ InstallOf[p] # i
      BY <1>5, <3>1, <3>4
    <3> QED
      BY <3>2, <3>3, <3>4
  <2> QED
    BY <1>2, <2>1, <2>2 DEF OutputIsCounted
<1> QED
  BY <1>2, <1>6, <1>7, <1>8, <1>9 DEF BooksInv, WithinBudget

\* A settlement takes the estimate from what is reserved and adds the cost to what is settled.
\* If today's ledger is to stay within the budget, no call may cost more than its estimate.
LEMMA SettleBooks ==
  ASSUME OptimizeTypes, BooksInv, NEW r \in Requests, Settle(r), res[r].status = "reserved"
  PROVE  BooksInv' /\ (WithinBudget /\ DayOutput <= MaxOutput => WithinBudget')
<1>0. PICK d : d = res[r].day
  OBVIOUS
<1>1. /\ CallTypes /\ BookTypes /\ None \notin LedgerRow /\ Estimate \in Nat /\ LedgersAreThere
      /\ today \in Days
  BY OptimizeInParts, OptimizeConstants DEF BooksInv, CallTypes
<1>2. /\ pc' = [pc EXCEPT ![r] = "over"]
      /\ sent' = sent /\ usage' = usage /\ today' = today
  BY DEF Settle, Goto
<1>3. /\ d \in Days /\ ledger[d] \in LedgerRow /\ Cost(r) \in Nat
      /\ res' \in [Requests -> Reservation]
      /\ res'[r].day = d /\ res'[r].status = "settled"
      /\ \A p \in Requests \ {r} : res'[p] = res[p]
  BY <1>0, <1>1, SettleEffect
<1>4. PICK l \in LedgerRow :
        /\ ledger' = [ledger EXCEPT ![d] = l] /\ l.admitted = ledger[d].admitted
        /\ l.settled = ledger[d].settled + Cost(r)
        /\ l.reserved = Less(ledger[d].reserved, Estimate)
  BY <1>0, <1>1, SettleEffect
<1>5. /\ ledger'[d] = l /\ \A e \in Days \ {d} : ledger'[e] = ledger[e]
      /\ ledger[d] # None /\ ledger'[d] # None
  BY <1>1, <1>3, <1>4 DEF BookTypes
<1>6. Stages'
  BY <1>1, <1>2, <1>3 DEF BooksInv, Stages, CallTypes
<1>7. LedgersAreThere'
  <2>1. Booked' = Booked
    BY <1>3 DEF Booked
  <2>2. \A p \in Booked : ledger'[res'[p].day] # None
    <3>1. ASSUME NEW p \in Booked
          PROVE  ledger'[res'[p].day] # None
      <4>1. res'[p].day = res[p].day /\ res[p].day \in Days /\ ledger[res[p].day] # None
        BY <1>0, <1>1, <1>3 DEF Booked, BookTypes, Reservation, LedgersAreThere
      <4> QED
        BY <1>5, <4>1
    <3> QED
      BY <3>1
  <2>3. \A e \in Days : e > today => ledger'[e] = None
    BY <1>1, <1>5 DEF LedgersAreThere
  <2> QED
    BY <1>1, <1>2, <2>1, <2>2, <2>3 DEF LedgersAreThere
<1>8. /\ Open(d)' = Open(d) \ {r} /\ r \in Open(d)
      /\ SettledOn(d)' = SettledOn(d) \cup {r} /\ r \notin SettledOn(d)
      /\ \A e \in Days \ {d} : Open(e)' = Open(e) /\ SettledOn(e)' = SettledOn(e)
  BY <1>0, <1>3 DEF Open, SettledOn
<1>9. /\ IsFiniteSet(Open(d)) /\ IsFiniteSet(SettledOn(d))
      /\ \A p \in SettledOn(d) \cup {r} : sent[p] \in Nat
  BY <1>1, <1>3, LapsedAreBooked DEF SettledOn, CallTypes
<1> DEFINE n == Cardinality(Open(d))
<1>10. n \in Nat /\ n >= 1 /\ n - 1 \in Nat /\ Cardinality(Open(d)') = n - 1
  <2>1. n \in Nat /\ Cardinality(Open(d) \ {r}) \in Nat /\ Cardinality(Open(d) \ {r}) = n - 1
    BY <1>8, <1>9, FS_RemoveElement, FS_CardinalityType
  <2> QED
    BY <1>8, <2>1
<1>11. ledger[d].reserved = Estimate * n /\ ledger[d].settled >= Total(sent, SettledOn(d))
  BY <1>3, <1>5 DEF BooksInv, LedgersAreExact
<1> HIDE DEF n
<1>12. l.reserved = Estimate * (n - 1) /\ ledger[d].reserved = l.reserved + Estimate
  <2>1. Less(Estimate * n, Estimate * 1) = Estimate * (n - 1) /\ Estimate * 1 = Estimate
    <3>1. 1 \in Nat /\ 1 <= n
      BY <1>10
    <3>2. Less(Estimate * n, Estimate * 1) = Estimate * (n - 1)
      BY <1>1, <1>10, <3>1, LessOfProducts, Zenon
    <3>3. Estimate * 1 = Estimate
      BY <1>1, Products
    <3> QED
      BY <3>2, <3>3
  <2> DEFINE m == n - 1
  <2>2. m \in Nat /\ n = m + 1
    BY <1>10
  <2> HIDE DEF m
  <2>3. Estimate * n = Estimate * m + Estimate
    BY <1>1, <2>2, Products
  <2> QED
    BY <1>4, <1>11, <2>1, <2>3 DEF m
<1>13. Total(sent, SettledOn(d) \cup {r}) = Total(sent, SettledOn(d)) + Cost(r)
       /\ Total(sent, SettledOn(d)) \in Nat
  BY <1>8, <1>9, TotalOneMore, TotalCounts DEF Cost
<1>14. LedgersAreExact'
  <2>1. l.settled >= Total(sent, SettledOn(d) \cup {r})
    BY <1>3, <1>4, <1>11, <1>13 DEF LedgerRow
  <2>2. ASSUME NEW e \in Days, ledger'[e] # None
        PROVE  /\ ledger'[e].reserved = Estimate * Cardinality(Open(e)')
               /\ ledger'[e].settled >= Total(sent', SettledOn(e)')
    <3>1. CASE e = d
      BY <1>2, <1>5, <1>8, <1>10, <1>12, <2>1, <3>1
    <3>2. CASE e # d
      BY <1>2, <1>5, <1>8, <2>2, <3>2 DEF BooksInv, LedgersAreExact
    <3> QED
      BY <3>1, <3>2
  <2> QED
    BY <2>2 DEF LedgersAreExact
<1>15. OutputIsCounted'
  BY <1>2, <1>3 DEF BooksInv, OutputIsCounted
<1>16. ASSUME WithinBudget, DayOutput <= MaxOutput
       PROVE  WithinBudget'
  <2>1. CASE d = today
    <3>1. /\ usage[InstallOf[r]] # None /\ sent[r] <= usage[InstallOf[r]].output
          /\ usage[InstallOf[r]].output <= DayOutput /\ usage[InstallOf[r]] \in UsageRow
      BY <1>0, <1>1, <2>1, OptimizeConstants DEF BooksInv, OutputIsCounted, BookTypes
    <3>2. Cost(r) <= Estimate
      BY <1>1, <1>16, <3>1, OptimizeConstants DEF Cost, Estimate, UsageRow, CallTypes
    <3>3. ledger[d].settled + ledger[d].reserved <= Budget /\ ledger[d].admitted <= Admissions
      BY <1>5, <1>16, <2>1 DEF WithinBudget
    <3>4. /\ l.settled \in Nat /\ l.reserved \in Nat
          /\ ledger[d].settled \in Nat /\ ledger[d].reserved \in Nat
      BY <1>3 DEF LedgerRow
    <3>5. l.settled + l.reserved <= Budget
      BY <1>1, <1>3, <1>4, <1>12, <3>2, <3>3, <3>4, OptimizeConstants
    <3> QED
      BY <1>2, <1>4, <1>5, <2>1, <3>3, <3>5 DEF WithinBudget
  <2>2. CASE d # today
    BY <1>1, <1>2, <1>5, <1>16, <2>2 DEF WithinBudget
  <2> QED
    BY <2>1, <2>2
<1> QED
  BY <1>6, <1>7, <1>14, <1>15, <1>16 DEF BooksInv

LEMMA PurgeBooks ==
  ASSUME OptimizeTypes, BooksInv, PcAhead,
         NEW lapsed \in SUBSET UNION {Open(d) : d \in Days}, Purged(lapsed),
         UNCHANGED <<sent, usage, today>>
  PROVE  BooksInv' /\ (WithinBudget => WithinBudget')
<1>1. /\ CallTypes /\ BookTypes /\ None \notin LedgerRow /\ Estimate \in Nat /\ LedgersAreThere
      /\ today \in Days
  BY OptimizeInParts, OptimizeConstants DEF BooksInv, CallTypes
<1>2. /\ \A d \in Days :
           /\ ledger'[d] = None <=> ledger[d] = None
           /\ ledger[d] # None =>
                /\ ledger[d] \in LedgerRow /\ ledger'[d] \in LedgerRow
                /\ ledger'[d].admitted = ledger[d].admitted
                /\ ledger'[d].settled = ledger[d].settled
                /\ ledger'[d].reserved =
                     Less(ledger[d].reserved, Estimate * Cardinality(lapsed \cap Open(d)))
      /\ \A p \in Requests :
           /\ res'[p].day = res[p].day
           /\ res'[p].status = IF p \in lapsed THEN "expired" ELSE res[p].status
  BY <1>1, PurgeEffect
<1>3. \A p \in lapsed : p \in Requests /\ res[p].status = "reserved"
  BY DEF Open
<1>4. Stages'
  BY <1>2, <1>3 DEF BooksInv, Stages, PcAhead
<1>5. LedgersAreThere'
  <2>1. Booked' = Booked
    BY <1>2, <1>3 DEF Booked
  <2>2. \A p \in Booked : res'[p].day = res[p].day /\ res[p].day \in Days
    BY <1>1, <1>2 DEF Booked, BookTypes, Reservation
  <2>3. today' = today
    OBVIOUS
  <2>4. ASSUME NEW p \in Booked
        PROVE  ledger'[res'[p].day] # None
    <3>1. res'[p].day = res[p].day /\ res[p].day \in Days /\ ledger[res[p].day] # None
      BY <1>1, <2>2 DEF LedgersAreThere
    <3> QED
      BY <1>2, <3>1
  <2>5. \A d \in Days : d > today => ledger'[d] = None
    BY <1>1, <1>2 DEF LedgersAreThere
  <2> QED
    BY <1>1, <2>1, <2>3, <2>4, <2>5 DEF LedgersAreThere
<1>6. ASSUME NEW d \in Days
      PROVE  /\ Open(d)' = Open(d) \ lapsed
             /\ SettledOn(d)' = SettledOn(d)
  BY <1>2, <1>3 DEF Open, SettledOn
<1>7. ASSUME NEW d \in Days, ledger[d] # None
      PROVE  /\ ledger'[d].reserved = Estimate * Cardinality(Open(d)')
             /\ ledger'[d].reserved <= ledger[d].reserved
  <2> DEFINE n == Cardinality(Open(d))
             k == Cardinality(lapsed \cap Open(d))
  <2>1. IsFiniteSet(Open(d)) /\ Open(d) \cap lapsed = lapsed \cap Open(d)
    BY <1>1, LapsedAreBooked
  <2>2. /\ n \in Nat /\ k \in Nat /\ k <= n
        /\ Cardinality(Open(d) \ lapsed) = n - k
    <3>1. IsFiniteSet(lapsed \cap Open(d)) /\ k <= n
      BY <2>1, FS_Intersection
    <3>2. Cardinality(Open(d) \ lapsed) = n - Cardinality(Open(d) \cap lapsed)
      BY <2>1, FS_Difference
    <3> QED
      BY <2>1, <3>1, <3>2, FS_CardinalityType
  <2>3. ledger[d].reserved = Estimate * n
    BY <1>7 DEF BooksInv, LedgersAreExact
  <2>4. ledger'[d].reserved = Less(Estimate * n, Estimate * k)
    BY <1>2, <1>7, <2>3
  <2> HIDE DEF n, k
  <2>5. Less(Estimate * n, Estimate * k) = Estimate * (n - k)
    BY <1>1, <2>2, LessOfProducts, Zenon
  <2>6. Estimate * n \in Nat /\ Estimate * k \in Nat
    BY <1>1, <2>2, Products
  <2>7. Less(Estimate * n, Estimate * k) <= Estimate * n
    BY <2>6 DEF Less
  <2> QED
    BY <1>6, <2>2, <2>3, <2>4, <2>5, <2>7
<1>8. LedgersAreExact'
  <2>1. ASSUME NEW d \in Days, ledger'[d] # None
        PROVE  /\ ledger'[d].reserved = Estimate * Cardinality(Open(d)')
               /\ ledger'[d].settled >= Total(sent', SettledOn(d)')
    <3>1. ledger[d] # None
      BY <1>2, <2>1
    <3>2. ledger'[d].settled = ledger[d].settled /\ sent' = sent
      BY <1>2, <3>1
    <3> QED
      BY <1>6, <1>7, <3>1, <3>2 DEF BooksInv, LedgersAreExact
  <2> QED
    BY <2>1 DEF LedgersAreExact
<1>9. OutputIsCounted'
  BY <1>2, <1>3 DEF BooksInv, OutputIsCounted
<1>10. ASSUME WithinBudget
       PROVE  WithinBudget'
  <2>1. CASE ledger[today] = None
    BY <1>1, <1>2, <2>1 DEF WithinBudget
  <2>2. CASE ledger[today] # None
    <3>1. /\ ledger[today].settled + ledger[today].reserved <= Budget
          /\ ledger[today].admitted <= Admissions
          /\ ledger'[today].reserved <= ledger[today].reserved
      BY <1>1, <1>7, <1>10, <2>2 DEF WithinBudget
    <3>2. /\ ledger[today] \in LedgerRow /\ ledger'[today] \in LedgerRow
          /\ ledger'[today].admitted = ledger[today].admitted
          /\ ledger'[today].settled = ledger[today].settled
      BY <1>1, <1>2, <2>2
    <3>3. ledger'[today].settled + ledger'[today].reserved <= Budget
      BY <3>1, <3>2, OptimizeConstants DEF LedgerRow
    <3> QED
      BY <3>1, <3>2, <3>3 DEF WithinBudget
  <2> QED
    BY <2>1, <2>2
<1> QED
  BY <1>4, <1>5, <1>8, <1>9, <1>10 DEF BooksInv

\* At midnight no ledger is there for the new day.
LEMMA NextDayBooks ==
  ASSUME OptimizeTypes, BooksInv, NextDay
  PROVE  BooksInv' /\ WithinBudget'
<1>1. /\ today \in Nat /\ today + 1 \in Days /\ \A d \in Days : d \in Nat
  BY OptimizeConstants DEF NextDay, OptimizeTypes, TypeOK, Days
<1>2. /\ pc' = pc /\ sent' = sent /\ ledger' = ledger /\ res' = res /\ today' = today + 1
      /\ usage' = [i \in Installs |-> None]
  BY DEF NextDay, callVars
<1>3. Stages'
  BY <1>2 DEF BooksInv, Stages
<1>4. LedgersAreThere'
  <2>1. \A d \in Days : d > today + 1 => d > today
    BY <1>1
  <2> QED
    BY <1>2, <2>1 DEF BooksInv, LedgersAreThere, Booked
<1>5. LedgersAreExact'
  BY <1>2 DEF BooksInv, LedgersAreExact, Open, SettledOn
<1>6. ledger[today + 1] = None
  BY <1>1 DEF BooksInv, LedgersAreThere
<1>7. OutputIsCounted'
  <2>1. \A r \in Requests : res[r].status = "reserved" => res[r].day # today + 1
    BY <1>6 DEF BooksInv, LedgersAreThere, Booked
  <2> QED
    BY <1>2, <2>1 DEF OutputIsCounted
<1> QED
  BY <1>2, <1>3, <1>4, <1>5, <1>6, <1>7 DEF BooksInv, WithinBudget

LEMMA OptimizeStepBooks ==
  ASSUME OptimizeTypes, BooksInv, [Next]_vars
  PROVE  BooksInv' /\ (WithinBudget /\ DayOutput <= MaxOutput => WithinBudget')
<1> USE DEF callVars, bookVars
<1>0. CallTypes
  BY OptimizeInParts
<1>1. ASSUME NEW r \in Requests, NEW p, Goto(r, p), UNCHANGED <<sent, usage, ledger, res, today>>,
             p \notin {"idle", "reserve"} \/ pc[r] = "idle", pc[r] # "over" \/ p = "over"
      PROVE  BooksInv' /\ (WithinBudget => WithinBudget')
  <2>1. PcAhead
    BY <1>0, <1>1 DEF PcAhead, Goto, CallTypes
  <2> QED
    BY <1>1, <2>1, BooksRest
<1>2. ASSUME NEW r \in Requests,
             \/ Claim(r) \/ ClaimRefused(r) \/ ReserveRefused(r) \/ Abandon(r) \/ Start(r)
             \/ StartRefused(r) \/ Stop(r) \/ Close(r) \/ Record(r) \/ RecordFails(r)
             \/ SettleFails(r) \/ (\E n \in ChunkSizes : ChunkRefused(r, n))
             \/ (Settle(r) /\ res[r].status # "reserved")
      PROVE  BooksInv' /\ (WithinBudget => WithinBudget')
  BY <1>1, <1>2 DEF Claim, ClaimRefused, ReserveRefused, Abandon, Start, StartRefused, Stop, Close,
                    Record, RecordFails, SettleFails, ChunkRefused, Leave, Settle
<1>3. CASE UNCHANGED <<pc, sent, usage, ledger, res, today>>
  <2>1. PcAhead
    BY <1>3 DEF PcAhead
  <2> QED
    BY <1>3, <2>1, BooksRest
<1>4. ASSUME NEW lapsed \in SUBSET UNION {Open(d) : d \in Days}, Purge(lapsed) \/ Restart(lapsed)
      PROVE  BooksInv' /\ (WithinBudget => WithinBudget')
  <2>1. PcAhead
    BY <1>0, <1>4 DEF PcAhead, Purge, Restart, CallTypes
  <2>2. Purged(lapsed) /\ UNCHANGED <<sent, usage, today>>
    BY <1>4 DEF Purge, Restart
  <2> QED
    BY <2>1, <2>2, PurgeBooks
<1> QED
  BY <1>2, <1>3, <1>4, ReserveBooks, ChunkBooks, SettleBooks, NextDayBooks
  DEF Next, Work, vars, Cancel

LEMMA OptimizeInit == Init => OptimizeTypes /\ ClaimsInv /\ BooksInv /\ WithinBudget
<1> SUFFICES ASSUME Init PROVE OptimizeTypes /\ ClaimsInv /\ BooksInv /\ WithinBudget
  OBVIOUS
<1>1. 0 \in Days
  BY OptimizeConstants DEF Days
<1>2. OptimizeTypes
  <2>1. CallTypes
    BY <1>1, OptimizeConstants DEF Init, CallTypes
  <2>2. BookTypes
    BY <1>1 DEF Init, BookTypes, Reservation
  <2> QED
    BY <2>1, <2>2, OptimizeInParts
<1>3. Claimed = {} /\ \A i \in Installs : ClaimedBy(i) = {}
  BY DEF Init, Claimed, ClaimedBy
<1>4. ClaimsInv
  <2>1. RunningHoldClaims
    BY DEF Init, RunningHoldClaims, Runs
  <2>2. ClaimsAreFew
    BY <1>3, FS_EmptySet, OptimizeConstants DEF ClaimsAreFew
  <2> QED
    BY <2>1, <2>2 DEF ClaimsInv
<1>5. Booked = {}
  BY DEF Init, Booked
<1>6. BooksInv
  BY <1>5, FS_EmptySet
  DEF Init, BooksInv, Stages, LedgersAreThere, LedgersAreExact, OutputIsCounted
<1>7. WithinBudget
  BY <1>1 DEF Init, WithinBudget
<1> QED
  BY <1>2, <1>4, <1>6, <1>7

\* Types, claims and books together are inductive: an expiry needs the exact sum of the ledger,
\* and that a settled call sends nothing more.
THEOREM OptimizeInvariant == Spec => [](OptimizeTypes /\ ClaimsInv /\ BooksInv)
<1>1. OptimizeTypes /\ ClaimsInv /\ BooksInv /\ [Next]_vars
        => (OptimizeTypes /\ ClaimsInv /\ BooksInv)'
  BY OptimizeStepTypes, OptimizeStepClaims, OptimizeStepBooks DEF BooksInv
<1>2. Init => OptimizeTypes /\ ClaimsInv /\ BooksInv
  BY OptimizeInit
<1> QED
  BY <1>1, <1>2, PTL DEF Spec

\* However often an id is used at once: a call that runs does so under the claim that stands
\* under its id, and the ids under which calls run keep both gates.
THEOREM GatesHold == Spec => []EachIdIsCounted
<1>1. OptimizeTypes /\ ClaimsInv => EachIdIsCounted
  BY RunningAreFew
<1> QED
  BY <1>1, OptimizeInvariant, PTL

\* Every ledger is exact, and today's is within budget and limit if a call cannot send more on a
\* day than was estimated for it (as the defaults of the settings have it, and their types do not).
THEOREM BooksAreTrue ==
  ASSUME DayOutput <= MaxOutput
  PROVE  Spec => []BooksHold
<1>1. OptimizeTypes /\ BooksInv /\ WithinBudget => BooksHold
  <2> SUFFICES ASSUME OptimizeTypes, BooksInv, WithinBudget PROVE BooksHold
    OBVIOUS
  <2>1. ASSUME NEW d \in Days
        PROVE  LET of(s) == {r \in Requests : res[r].day = d /\ res[r].status = s} IN
               IF ledger[d] = None THEN of("reserved") = {}
               ELSE /\ ledger[d].reserved = Estimate * Cardinality(of("reserved"))
                    /\ ledger[d].settled >= MapThenSumSet(Cost, of("settled"))
    <3> DEFINE of(s) == {r \in Requests : res[r].day = d /\ res[r].status = s}
    <3>1. of("reserved") = Open(d) /\ of("settled") = SettledOn(d)
      BY DEF Open, SettledOn
    <3>2. ledger[d] = None => Open(d) = {}
      BY DEF BooksInv, LedgersAreThere, Booked, Open
    <3>3. ledger[d] # None => /\ ledger[d].reserved = Estimate * Cardinality(Open(d))
                              /\ ledger[d].settled >= Total(sent, SettledOn(d))
      BY DEF BooksInv, LedgersAreExact
    <3>4. MapThenSumSet(Cost, SettledOn(d)) = Total(sent, SettledOn(d))
      BY SumIsTotal
    <3> QED
      BY <3>1, <3>2, <3>3, <3>4
  <2> QED
    BY <2>1 DEF BooksHold, WithinBudget
<1>2. OptimizeTypes /\ BooksInv /\ WithinBudget /\ [Next]_vars => WithinBudget'
  BY OptimizeStepBooks
<1>3. Init => WithinBudget
  BY OptimizeInit
<1> QED
  BY <1>1, <1>2, <1>3, OptimizeInvariant, PTL DEF Spec
=============================================================================
