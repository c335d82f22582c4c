-------------------------------- MODULE Cloud --------------------------------
(***************************************************************************)
(* Reflex Cloud (reflex_cloud/): its two halves share a database but no    *)
(* row that either changes.  CloudOptimize is extended, CloudFeedback is   *)
(* instantiated, with installations of its own.                            *)
(***************************************************************************)
EXTENDS CloudOptimize

CONSTANTS Items, Senders, OwnerOf, Releases, SourcesOf, MaxTime   \* of CloudFeedback

VARIABLES alive, sub, status, files, strays, deletion, purge, sampling, samples,
          release, linked, tx, time, overtaken

feedbackVars == <<alive, sub, status, files, strays, deletion, purge, sampling,
                  samples, release, linked, tx, time, overtaken>>

Feedback == INSTANCE CloudFeedback WITH Installs <- Senders

ASSUME FeedbackConstants == Feedback!FeedbackAssumption

\* While releases are published or superseded exactly one of them is published, whatever
\* publications and rollbacks of several processes cross: the newest of them, unless a
\* publication was overtaken by one that took its time later.
OneIsActive == Feedback!OneIsActive

\* No sample and no feedback item of a deleted installation is in the database, and a
\* screenshot without a row belongs to a submission under way or a deleted installation,
\* unless its write failed half-way or its submission was cut off.
NothingIsLeftOver == Feedback!NothingIsLeftOver
==============================================================================
