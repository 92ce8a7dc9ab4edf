--------------------------- MODULE MotionLifecycle ---------------------------
(***************************************************************************)
(* One motion draft of a case, from its creation to its export, as the     *)
(* handlers of server/app/api/routes/motions.py change it.                 *)
(*                                                                         *)
(* A request is a process with an SQLAlchemy session of its own.  Under    *)
(* READ COMMITTED each SELECT of a handler sees what is committed when it  *)
(* runs and no handler locks a row, so a handler is a sequence of reading  *)
(* steps followed by one atomic commit.  The unit of work writes the       *)
(* columns whose new value differs from the value that was LOADED          *)
(* (operator Written), and no others.                                      *)
(*                                                                         *)
(* Roles and the organisation filter of the queries are stateless guards   *)
(* and are left out; they reject a request before it reads the motion.     *)
(***************************************************************************)
EXTENDS Naturals, Sequences

CONSTANTS
    Requests,     \* the requests in flight at one time
    Handlers,     \* the handlers they call
    Choices,      \* the decisions a reviewer takes
    Compliant,    \* the version numbers whose text holds the phrases the
                  \* ethics check asks for (a text never changes)
    MaxVersions,  \* bound: versions of the motion
    MaxReviews    \* bound: attorney reviews of the motion

AllHandlers == {"create_motion_version", "check_motion_citations",
                "check_motion_ethics", "submit_motion_review",
                "review_motion", "export"}
Decisions   == {"changes_requested", "approved", "rejected"}

ASSUME InputsAssumption == /\ Handlers \subseteq AllHandlers
                           /\ Choices \subseteq Decisions
ASSUME BoundsAssumption == /\ MaxVersions \in Nat \ {0, 1}
                           /\ MaxReviews \in Nat \ {0, 1}

VARIABLES
    run,        \* status of the latest analysis run of the case
    pages,      \* does the case have a stored document page?
    motion,     \* the motion_drafts row
    versions,   \* its motion_versions rows, in the order of version_number
    reviews,    \* its attorney_reviews rows, in the order of their commits
    exports,    \* the versions named by its motion_export audit events
    req,        \* what each request has read so far
    overlapped  \* history: some request committed over another one's commit

vars == <<run, pages, motion, versions, reviews, exports, req, overlapped>>

-----------------------------------------------------------------------------
(* Rows.                                                                   *)

Statuses  == Decisions \cup {"draft", "review_required", "exported"}
Unlocked  == {"approved", "exported"}
Verdicts  == {"pending", "passed_synthetic_sources", "failed_missing_sources"}
Findings  == {"pending", "passed_with_attorney_review", "requires_revision"}

\* "cleared" is history: the version has had a passing citation verdict.
VersionRow == [citation: Verdicts, ethics: Findings, cleared: BOOLEAN]
PassedFromStart == [citation |-> "passed_synthetic_sources",
                    ethics |-> "pending", cleared |-> FALSE]
NewVersion == [citation |-> "pending", ethics |-> "pending", cleared |-> FALSE]

\* A review row names the motion and not a version: "version" is history, the
\* current version of the motion as its handler loaded it.
ReviewRow == [decision: Decisions, version: 1 .. MaxVersions]

\* at: how far the handler has read; stale (history): another request has
\* committed since it began.
Snapshot == [at: {"idle", "motion", "version", "pages"},
             handler: AllHandlers, status: Statuses, current: 0 .. MaxVersions,
             version: 0 .. MaxVersions, citation: Verdicts, ethics: Findings,
             pages: BOOLEAN, stale: BOOLEAN]

NotSent == [at |-> "idle", handler |-> "review_motion", status |-> "draft",
            current |-> 0, version |-> 0, citation |-> "pending",
            ethics |-> "pending", pages |-> FALSE, stale |-> FALSE]

\* Every row and every snapshot has its type.
TypeOK ==
    /\ run \in {"none", "completed", "failed"}
    /\ pages \in BOOLEAN
    /\ motion \in [status: Statuses, current: 0 .. MaxVersions]
    /\ versions \in Seq(VersionRow)
    /\ Len(versions) <= MaxVersions
    /\ reviews \in Seq(ReviewRow)
    /\ exports \subseteq 1 .. MaxVersions
    /\ req \in [Requests -> Snapshot]
    /\ overlapped \in BOOLEAN

\* No motion yet: no version row, and a motion row nobody can load.
Init ==
    /\ run = "none"
    /\ pages \in BOOLEAN
    /\ motion = [status |-> "draft", current |-> 0]
    /\ versions = << >>
    /\ reviews = << >>
    /\ exports = {}
    /\ req = [r \in Requests |-> NotSent]
    /\ overlapped = FALSE

-----------------------------------------------------------------------------
(* What surrounds the motion: the case's documents and its analysis.       *)

\* Uploads, reprocessing and deletions add and remove the case's pages.
SourcesChange ==
    /\ pages' = ~pages
    /\ UNCHANGED <<run, motion, versions, reviews, exports, req, overlapped>>

\* An analysis run that found sources commits a motion of its own, already
\* approved, with two checked versions and two reviews: this motion, or
\* another one.  The run writes both reviews in the name of whoever started it,
\* as if a PIN had been verified and with times a minute or two ahead; nothing
\* here reads the times.  The latest run decides only whether a motion may be created,
\* so runs are followed up to the creation of this one.
RunCaseAnalysis ==
    /\ versions = << >>
    /\ run' = "completed"
    /\ \/ /\ pages
          /\ motion' = [status |-> "approved", current |-> 2]
          /\ versions' =
                [n \in 1 .. 2 |->
                    [citation |-> "passed_synthetic_sources",
                     ethics |-> "passed_with_attorney_review",
                     cleared |-> TRUE]]
          /\ reviews' = << [decision |-> "changes_requested", version |-> 2],
                           [decision |-> "approved", version |-> 2] >>
       \/ UNCHANGED <<motion, versions, reviews>>
    /\ UNCHANGED <<pages, exports, req, overlapped>>

\* A run that raised: it is the latest one all the same.  A motion it had
\* flushed by then, approved and without a review, is not this one.
AnalysisFails ==
    /\ versions = << >>
    /\ run' = "failed"
    /\ UNCHANGED <<pages, motion, versions, reviews, exports, req, overlapped>>

CreateMotion ==
    /\ versions = << >>
    /\ run = "completed"
    /\ motion' = [status |-> "draft", current |-> 1]
    /\ versions' = << NewVersion >>
    /\ UNCHANGED <<run, pages, reviews, exports, req, overlapped>>

-----------------------------------------------------------------------------
(* The reading steps of a handler.                                         *)

\* _get_motion: the first SELECT of every handler.
GetMotion(r, handler) ==
    /\ req[r].at = "idle"
    /\ versions # << >>
    /\ req' = [req EXCEPT ![r] =
                  [NotSent EXCEPT !.at = "motion", !.handler = handler,
                                  !.status = motion.status,
                                  !.current = motion.current]]
    /\ UNCHANGED <<run, pages, motion, versions, reviews, exports, overlapped>>

\* _latest_version: the second SELECT, of every handler but review_motion.
LatestVersion(r) ==
    LET n == Len(versions) IN
    /\ req[r].at = "motion"
    /\ req[r].handler # "review_motion"
    /\ req' = [req EXCEPT ![r] =
                  [@ EXCEPT !.at = "version", !.version = n,
                            !.citation = versions[n].citation,
                            !.ethics = versions[n].ethics]]
    /\ UNCHANGED <<run, pages, motion, versions, reviews, exports, overlapped>>

\* The SELECT of at most three pages of the case by the Citation Firewall.
SelectPages(r) ==
    /\ req[r].at = "version"
    /\ req[r].handler = "check_motion_citations"
    /\ req' = [req EXCEPT ![r] = [@ EXCEPT !.at = "pages", !.pages = pages]]
    /\ UNCHANGED <<run, pages, motion, versions, reviews, exports, overlapped>>

-----------------------------------------------------------------------------
(* How a handler ends.                                                     *)

\* Only an attribute that differs from its loaded value is in the UPDATE.
Written(loaded, new, stored) == IF new = loaded THEN stored ELSE new

\* session.commit(): every other request in flight now works on old rows.
Commit(r) ==
    /\ req' = [q \in Requests |->
                  IF q = r THEN NotSent
                  ELSE IF req[q].at = "idle" THEN req[q]
                  ELSE [req[q] EXCEPT !.stale = TRUE]]
    /\ overlapped' = (overlapped \/ req[r].stale)

\* An ApplicationError or a database error: the session is rolled back.
RollBack(r) ==
    /\ req' = [req EXCEPT ![r] = NotSent]
    /\ UNCHANGED <<run, pages, motion, versions, reviews, exports, overlapped>>

-----------------------------------------------------------------------------
(* The deciding and writing part of each handler.                          *)

\* The unique index uq_motion_versions_draft_number.
NoUniqueIndex(r) == TRUE
NumberIsFree(r) == Len(versions) < req[r].version + 1

\* The status a new version leaves the motion in.
KeepStatus(r) == motion.status
StatusOfEdit(r) == Written(req[r].status, "draft", motion.status)

CreateMotionVersion(r) ==
    /\ req[r].at = "version"
    /\ req[r].handler = "create_motion_version"
    /\ Len(versions) < MaxVersions
    /\ NumberIsFree(r)
    /\ versions' = Append(versions, NewVersion)
    /\ motion' = [status  |-> StatusOfEdit(r),
                  current |-> Written(req[r].current, req[r].version + 1,
                                      motion.current)]
    /\ Commit(r)
    /\ UNCHANGED <<run, pages, reviews, exports>>

\* The INSERT of a number that is taken: the flush raises, nothing is kept.
CreateMotionVersionCollides(r) ==
    /\ req[r].at = "version"
    /\ req[r].handler = "create_motion_version"
    /\ ~NumberIsFree(r)
    /\ RollBack(r)

CitationVerdict(r) == IF req[r].pages THEN "passed_synthetic_sources"
                                      ELSE "failed_missing_sources"

CheckMotionCitations(r) ==
    LET n == req[r].version IN
    /\ req[r].at = "pages"
    /\ req[r].handler = "check_motion_citations"
    /\ req[r].pages => pages   \* else the records' foreign key fails
    /\ versions' = [versions EXCEPT ![n] =
                       [versions[n] EXCEPT
                           !.citation = Written(req[r].citation,
                                                CitationVerdict(r), @),
                           !.cleared = @ \/ req[r].pages]]
    /\ Commit(r)
    /\ UNCHANGED <<run, pages, motion, reviews, exports>>

\* The pages read are deleted before the records that name them are stored.
CheckMotionCitationsFails(r) ==
    /\ req[r].at = "pages"
    /\ req[r].handler = "check_motion_citations"
    /\ req[r].pages /\ ~pages
    /\ RollBack(r)

EthicsFinding(n) == IF n \in Compliant THEN "passed_with_attorney_review"
                                       ELSE "requires_revision"

CheckMotionEthics(r) ==
    LET n == req[r].version IN
    /\ req[r].at = "version"
    /\ req[r].handler = "check_motion_ethics"
    /\ versions' = [versions EXCEPT ![n] =
                       [versions[n] EXCEPT
                           !.ethics = Written(req[r].ethics,
                                              EthicsFinding(n), @)]]
    /\ Commit(r)
    /\ UNCHANGED <<run, pages, motion, reviews, exports>>

NoFirewall(r) == TRUE
FirewallPassed(r) == req[r].citation = "passed_synthetic_sources"

SubmitMotionReview(r) ==
    /\ req[r].at = "version"
    /\ req[r].handler = "submit_motion_review"
    /\ FirewallPassed(r)
    /\ motion' = [motion EXCEPT !.status = Written(req[r].status,
                                                   "review_required", @)]
    /\ Commit(r)
    /\ UNCHANGED <<run, pages, versions, reviews, exports>>

SubmitMotionReviewRefused(r) ==
    /\ req[r].at = "version"
    /\ req[r].handler = "submit_motion_review"
    /\ ~FirewallPassed(r)
    /\ RollBack(r)

ReviewMotion(r) ==
    /\ req[r].at = "motion"
    /\ req[r].handler = "review_motion"
    /\ Len(reviews) < MaxReviews
    /\ \E decision \in Choices :
          /\ reviews' = Append(reviews, [decision |-> decision,
                                         version |-> req[r].current])
          /\ motion' = [motion EXCEPT !.status = Written(req[r].status,
                                                         decision, @)]
    /\ Commit(r)
    /\ UNCHANGED <<run, pages, versions, exports>>

\* The review PIN of the payload is not the configured one.
ReviewMotionRefused(r) ==
    /\ req[r].at = "motion"
    /\ req[r].handler = "review_motion"
    /\ RollBack(r)

\* The approved review is selected last, just before the commit: reviews are
\* never removed, so a review read is a review still there.
ApprovedOnce == \E i \in 1 .. Len(reviews) : reviews[i].decision = "approved"
NoApproval(r) == TRUE
MayExport(r) == req[r].status \in Unlocked /\ ApprovedOnce

Export(r) ==
    /\ req[r].at = "version"
    /\ req[r].handler = "export"
    /\ MayExport(r)
    /\ motion' = [motion EXCEPT !.status = Written(req[r].status,
                                                   "exported", @)]
    /\ exports' = exports \cup {req[r].version}
    /\ Commit(r)
    /\ UNCHANGED <<run, pages, versions, reviews>>

ExportRefused(r) ==
    /\ req[r].at = "version"
    /\ req[r].handler = "export"
    /\ ~MayExport(r)
    /\ RollBack(r)

Next ==
    \/ SourcesChange
    \/ RunCaseAnalysis
    \/ AnalysisFails
    \/ CreateMotion
    \/ \E r \in Requests :
          \/ \E handler \in Handlers : GetMotion(r, handler)
          \/ LatestVersion(r)
          \/ SelectPages(r)
          \/ CreateMotionVersion(r)
          \/ CreateMotionVersionCollides(r)
          \/ CheckMotionCitations(r)
          \/ CheckMotionCitationsFails(r)
          \/ CheckMotionEthics(r)
          \/ SubmitMotionReview(r)
          \/ SubmitMotionReviewRefused(r)
          \/ ReviewMotion(r)
          \/ ReviewMotionRefused(r)
          \/ Export(r)
          \/ ExportRefused(r)

Spec == Init /\ [][Next]_vars

-----------------------------------------------------------------------------
(* Properties of every interleaving.                                       *)

\* However edits race, the motion names its newest version: the numbers of
\* the versions have no gap and current_version is the greatest
\* (create_motion_version against itself).
CurrentVersionIsLatest == motion.current = Len(versions)

\* A motion is approved or exported only if some row of attorney_reviews
\* approves it, an attorney's or the one its analysis run has written itself:
\* no slow request can put either status on a motion without such a row
\* (review_motion, _export, run_case_analysis).
UnlockedOnlyByApproval ==
    (motion.status \in Unlocked \/ exports # {}) => ApprovedOnce

\* A verdict of the Citation Firewall stays with the version whose check
\* found it: a passed version is one whose own check passed, however many
\* checks of however many versions overlap (check_motion_citations).
VerdictBelongsToVersion ==
    \A n \in 1 .. Len(versions) :
        versions[n].citation = "passed_synthetic_sources"
            => versions[n].cleared

-----------------------------------------------------------------------------
(* Properties of the executions in which no request commits over another   *)
(* one's commit: what the handlers guarantee without a lock.               *)

\* An unlocked motion was approved by its LAST review, and that review saw
\* the newest version: an edit takes the approval away, a later rejection
\* too (create_motion_version, review_motion, _export).
ApprovalCoversCurrent ==
    (~overlapped /\ motion.status \in Unlocked) =>
        /\ reviews # << >>
        /\ reviews[Len(reviews)].decision = "approved"
        /\ reviews[Len(reviews)].version = Len(versions)

\* Each exported version was approved, that version and not another
\* (_export).
VersionApproved(n) ==
    \E i \in 1 .. Len(reviews) :
        reviews[i].decision = "approved" /\ reviews[i].version = n
ExportedWasApproved == ~overlapped => \A n \in exports : VersionApproved(n)

\* A motion that waits for review has a newest version that the Citation
\* Firewall has let through (submit_motion_review).
SubmittedWasCleared ==
    (~overlapped /\ motion.status = "review_required")
        => versions[Len(versions)].cleared

\* An export by itself unlocks nothing: "exported" follows "approved" or
\* "exported", never a draft or a rejected motion (_export).
ExportUnlocksNothing ==
    [][ (motion.status \notin Unlocked /\ motion'.status = "exported")
            => overlapped' ]_vars

-----------------------------------------------------------------------------
(* The inductive invariant behind them.                                    *)

\* What a request has read is at most as new as what is stored; what made a
\* loaded motion unlocked, or a loaded version passed, is still there.
SnapshotsAreOld ==
    \A r \in Requests : req[r].at # "idle" =>
        /\ req[r].current \in 1 .. Len(versions)
        /\ req[r].status \in Unlocked => ApprovedOnce
        /\ req[r].at # "motion" =>
              /\ req[r].version \in req[r].current .. Len(versions)
              /\ FirewallPassed(r) => versions[req[r].version].cleared

\* A request nobody has overtaken has read what is stored.
FreshSnapshots ==
    \A r \in Requests : (req[r].at # "idle" /\ ~req[r].stale) =>
        /\ req[r].status = motion.status
        /\ req[r].current = motion.current
        /\ req[r].at # "motion" => req[r].version = Len(versions)

\* Reviews and exports are of versions that exist.
NamedVersionsExist ==
    /\ \A i \in 1 .. Len(reviews) : reviews[i].version \in 1 .. Len(versions)
    /\ exports \subseteq 1 .. Len(versions)

IInv == /\ TypeOK
        /\ NamedVersionsExist
        /\ SnapshotsAreOld
        /\ FreshSnapshots
        /\ CurrentVersionIsLatest
        /\ UnlockedOnlyByApproval
        /\ VerdictBelongsToVersion
        /\ ApprovalCoversCurrent
        /\ ExportedWasApproved
        /\ SubmittedWasCleared

-----------------------------------------------------------------------------
(* The promise it keeps.                                                   *)

ApprovedVersions ==
    {reviews[i].version : i \in {j \in 1 .. Len(reviews) :
                                    reviews[j].decision = "approved"}}

Promise == INSTANCE ApprovalPromise
           WITH newest   <- Len(versions),
                unlocked <- motion.status \in Unlocked,
                approved <- ApprovedVersions,
                released <- exports,
                raced    <- overlapped

\* Requests that read, decide and commit separately implement the gate of
\* ApprovalPromise, whose steps are single: every commit that overlaps no
\* other one's is exactly one of its steps (create_motion_version,
\* review_motion, submit_motion_review, _export).
KeepsPromise == Promise!Spec

-----------------------------------------------------------------------------
(* What the documentation says of every execution.                         *)

\* "Review decisions are ... bound to the current persisted motion version":
\* what is exported was approved, also when requests overlap.
ApprovalBoundToVersion == \A n \in exports : VersionApproved(n)
=============================================================================
