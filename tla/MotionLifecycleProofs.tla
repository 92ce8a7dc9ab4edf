------------------------ MODULE MotionLifecycleProofs ------------------------
(***************************************************************************)
(* The safety of MotionLifecycle for any set of requests and any bounds.   *)
(*                                                                         *)
(* IInv is inductive.  SnapshotsAreOld says how far behind a request may   *)
(* be, FreshSnapshots that it is not behind at all while no other request  *)
(* has committed; the properties of the module are not inductive without   *)
(* them.                                                                   *)
(***************************************************************************)
EXTENDS MotionLifecycle, SequenceTheorems, TLAPS

\* Replacing a row of a sequence of rows.
LEMMA ReplaceRow ==
    ASSUME NEW S, NEW s \in Seq(S), NEW n \in 1 .. Len(s), NEW e \in S
    PROVE  /\ [s EXCEPT ![n] = e] \in Seq(S)
           /\ Len([s EXCEPT ![n] = e]) = Len(s)
           /\ \A i \in 1 .. Len(s) :
                 [s EXCEPT ![n] = e][i] = IF i = n THEN e ELSE s[i]
  BY ExceptSeq

\* Appending a row to a sequence of rows.
LEMMA AppendRow ==
    ASSUME NEW S, NEW s \in Seq(S), NEW e \in S
    PROVE  /\ Append(s, e) \in Seq(S)
           /\ Len(Append(s, e)) = Len(s) + 1
           /\ \A i \in 1 .. Len(s) : Append(s, e)[i] = s[i]
           /\ Append(s, e)[Len(s) + 1] = e
  OBVIOUS

\* The properties that depend on the rows and on "overlapped" alone.
RowsInv == /\ NamedVersionsExist
           /\ CurrentVersionIsLatest
           /\ UnlockedOnlyByApproval
           /\ VerdictBelongsToVersion
           /\ ApprovalCoversCurrent
           /\ ExportedWasApproved
           /\ SubmittedWasCleared

\* The record of a request that is not in flight is a snapshot.
LEMMA NotSentTyped == NotSent \in Snapshot
  BY BoundsAssumption
  DEF NotSent, Snapshot, Statuses, Verdicts, Findings, AllHandlers

\* The state before the motion exists satisfies the invariant.
LEMMA InitIInv == Init => IInv
  <1> SUFFICES ASSUME Init PROVE IInv
    OBVIOUS
  <1>1. TypeOK
    <2>1. req \in [Requests -> Snapshot]
      BY NotSentTyped DEF Init
    <2>2. motion \in [status: Statuses, current: 0 .. MaxVersions]
      BY BoundsAssumption DEF Init, Statuses
    <2>3. /\ versions \in Seq(VersionRow) /\ Len(versions) <= MaxVersions
          /\ reviews \in Seq(ReviewRow)
      BY BoundsAssumption DEF Init
    <2>4. /\ run \in {"none", "completed", "failed"}
          /\ exports \subseteq 1 .. MaxVersions
          /\ overlapped \in BOOLEAN
      BY DEF Init
    <2>5. pages \in BOOLEAN
      BY DEF Init
    <2> QED
      BY <2>1, <2>2, <2>3, <2>4, <2>5 DEF TypeOK
  <1>2. RowsInv
    BY DEF Init, RowsInv, NamedVersionsExist, CurrentVersionIsLatest,
           UnlockedOnlyByApproval, Unlocked, VerdictBelongsToVersion,
           ApprovalCoversCurrent, ExportedWasApproved, SubmittedWasCleared
  <1>3. SnapshotsAreOld /\ FreshSnapshots
    BY DEF Init, SnapshotsAreOld, FreshSnapshots, NotSent
  <1> QED
    BY <1>1, <1>2, <1>3 DEF IInv, RowsInv

\* A step that leaves the rows and the requests alone keeps every part of
\* the invariant that is about them.
LEMMA RowsUnchanged ==
    ASSUME RowsInv, UNCHANGED <<motion, versions, reviews, exports, overlapped>>
    PROVE  RowsInv'
  BY DEF RowsInv, NamedVersionsExist, CurrentVersionIsLatest,
         UnlockedOnlyByApproval, ApprovedOnce, VerdictBelongsToVersion,
         ApprovalCoversCurrent, ExportedWasApproved, VersionApproved,
         SubmittedWasCleared, Unlocked

-----------------------------------------------------------------------------
(* The surroundings and the birth of the motion.                           *)

\* Pages that come and go and runs that fail touch no row of the motion.
LEMMA SurroundingsPreserve ==
    ASSUME IInv, SourcesChange \/ AnalysisFails
    PROVE  IInv'
  <1>1. UNCHANGED <<motion, versions, reviews, exports, req, overlapped>>
    BY DEF SourcesChange, AnalysisFails
  <1>2. TypeOK'
    BY DEF IInv, TypeOK, SourcesChange, AnalysisFails
  <1>3. SnapshotsAreOld' /\ FreshSnapshots'
    BY <1>1 DEF IInv, SnapshotsAreOld, FreshSnapshots, ApprovedOnce,
                FirewallPassed, Unlocked
  <1>4. RowsInv
    BY DEF IInv, RowsInv
  <1>5. RowsInv'
    BY <1>1, <1>4, RowsUnchanged
  <1> QED
    BY <1>2, <1>3, <1>5 DEF IInv, RowsInv

\* While the motion does not exist nothing names it.
LEMMA NothingBeforeTheMotion ==
    ASSUME IInv, versions = << >>
    PROVE  /\ \A r \in Requests : req[r].at = "idle"
           /\ reviews = << >>
           /\ exports = {}
  <1>0. Len(versions) = 0
    OBVIOUS
  <1>1. ASSUME NEW r \in Requests PROVE req[r].at = "idle"
    <2>1. req[r].at # "idle" => req[r].current \in 1 .. Len(versions)
      BY DEF IInv, SnapshotsAreOld
    <2> QED
      BY <1>0, <2>1
  <1>2. reviews = << >>
    <2>1. \A i \in 1 .. Len(reviews) : FALSE
      BY DEF IInv, NamedVersionsExist
    <2> QED
      BY <2>1 DEF IInv, TypeOK
  <1>3. exports = {}
    BY DEF IInv, NamedVersionsExist
  <1> QED
    BY <1>1, <1>2, <1>3

\* create_motion stores one unchecked version of a draft.
LEMMA CreateMotionPreserves ==
    ASSUME IInv, CreateMotion
    PROVE  IInv'
  <1>1. Len(versions') = 1 /\ versions' \in Seq(VersionRow)
        /\ versions'[1] = NewVersion
    BY DEF CreateMotion, NewVersion, VersionRow, Verdicts, Findings
  <1>2. versions = << >>
    BY DEF CreateMotion
  <1>3. TypeOK'
    BY <1>1, BoundsAssumption DEF IInv, TypeOK, CreateMotion, Statuses
  <1>4. SnapshotsAreOld' /\ FreshSnapshots'
    BY <1>2, NothingBeforeTheMotion
    DEF CreateMotion, SnapshotsAreOld, FreshSnapshots
  <1>5. RowsInv'
    BY <1>1, <1>2, NothingBeforeTheMotion
    DEF CreateMotion, RowsInv, CurrentVersionIsLatest, NewVersion,
        NamedVersionsExist, UnlockedOnlyByApproval, ApprovedOnce,
        VerdictBelongsToVersion, ApprovalCoversCurrent, ExportedWasApproved,
        VersionApproved, SubmittedWasCleared, Unlocked
  <1> QED
    BY <1>3, <1>4, <1>5 DEF IInv, RowsInv

\* An analysis run stores two passed versions, approved by its last review.
LEMMA RunCaseAnalysisPreserves ==
    ASSUME IInv, RunCaseAnalysis
    PROVE  IInv'
  <1>0. versions = << >>
    BY DEF RunCaseAnalysis
  <1>1. CASE UNCHANGED <<motion, versions, reviews>>
    <2>1. UNCHANGED <<motion, versions, reviews, exports, req, overlapped>>
      BY <1>1 DEF RunCaseAnalysis
    <2>2. TypeOK'
      BY <1>1 DEF IInv, TypeOK, RunCaseAnalysis
    <2>3. SnapshotsAreOld' /\ FreshSnapshots'
      BY <2>1, <1>0, NothingBeforeTheMotion DEF SnapshotsAreOld, FreshSnapshots
    <2>4. RowsInv
      BY DEF IInv, RowsInv
    <2>5. RowsInv'
      BY <2>1, <2>4, RowsUnchanged
    <2> QED
      BY <2>2, <2>3, <2>5 DEF IInv, RowsInv
  <1>2. CASE ~ UNCHANGED <<motion, versions, reviews>>
    <2> DEFINE seeded == [citation |-> "passed_synthetic_sources",
                          ethics |-> "passed_with_attorney_review",
                          cleared |-> TRUE]
    <2>1. /\ motion' = [status |-> "approved", current |-> 2]
          /\ versions' = [n \in 1 .. 2 |-> seeded]
          /\ reviews' = << [decision |-> "changes_requested", version |-> 2],
                           [decision |-> "approved", version |-> 2] >>
          /\ UNCHANGED <<pages, exports, req, overlapped>>
          /\ run' = "completed"
      BY <1>2 DEF RunCaseAnalysis
    <2>2. /\ versions' \in Seq(VersionRow)
          /\ Len(versions') = 2
          /\ \A n \in 1 .. 2 : versions'[n] = seeded
      <3>1. seeded \in VersionRow
        BY DEF VersionRow, Verdicts, Findings
      <3> QED
        BY <2>1, <3>1
    <2>3. /\ reviews' \in Seq(ReviewRow)
          /\ Len(reviews') = 2
          /\ reviews'[2].decision = "approved"
          /\ \A i \in 1 .. 2 : reviews'[i].version = 2
      BY <2>1, BoundsAssumption DEF ReviewRow, Decisions
    <2>4. TypeOK'
      BY <2>1, <2>2, <2>3, BoundsAssumption
      DEF IInv, TypeOK, Statuses, Decisions
    <2>5. SnapshotsAreOld' /\ FreshSnapshots'
      BY <2>1, <1>0, NothingBeforeTheMotion DEF SnapshotsAreOld, FreshSnapshots
    <2>6. RowsInv'
      <3>1. ApprovedOnce' /\ exports' = {}
        BY <2>1, <2>3, <1>0, NothingBeforeTheMotion DEF ApprovedOnce
      <3> QED
        BY <2>1, <2>2, <2>3, <3>1
        DEF RowsInv, CurrentVersionIsLatest, NamedVersionsExist,
            UnlockedOnlyByApproval, VerdictBelongsToVersion,
            ApprovalCoversCurrent, ExportedWasApproved, SubmittedWasCleared
    <2> QED
      BY <2>4, <2>5, <2>6 DEF IInv, RowsInv
  <1> QED
    BY <1>1, <1>2

-----------------------------------------------------------------------------
(* Steps that change nothing but the snapshot of the request that takes    *)
(* them.                                                                   *)

\* Such a step preserves the invariant if the new snapshot is typed, old
\* and, unless it is stale, fresh.
LEMMA SnapshotStep ==
    ASSUME IInv, NEW r \in Requests, NEW new \in Snapshot,
           req' = [req EXCEPT ![r] = new],
           UNCHANGED <<run, pages, motion, versions, reviews, exports,
                       overlapped>>,
           new.at # "idle" =>
              /\ new.current \in 1 .. Len(versions)
              /\ new.status \in Unlocked => ApprovedOnce
              /\ new.at # "motion" =>
                    /\ new.version \in new.current .. Len(versions)
                    /\ new.citation = "passed_synthetic_sources"
                          => versions[new.version].cleared,
           (new.at # "idle" /\ ~new.stale) =>
              /\ new.status = motion.status
              /\ new.current = motion.current
              /\ new.at # "motion" => new.version = Len(versions)
    PROVE  IInv'
  <1>1. TypeOK'
    BY DEF IInv, TypeOK
  <1>2. \A q \in Requests : req'[q] = IF q = r THEN new ELSE req[q]
    BY DEF IInv, TypeOK
  <1>3. SnapshotsAreOld'
    BY <1>2 DEF IInv, SnapshotsAreOld, FirewallPassed, ApprovedOnce, Unlocked
  <1>4. FreshSnapshots'
    BY <1>2 DEF IInv, FreshSnapshots
  <1>5. RowsInv
    BY DEF IInv, RowsInv
  <1>6. RowsInv'
    BY <1>5, RowsUnchanged
  <1> QED
    BY <1>1, <1>3, <1>4, <1>6 DEF IInv, RowsInv

\* A request that is rolled back changes its own snapshot only.
LEMMA RollBackPreserves ==
    ASSUME IInv, NEW r \in Requests, RollBack(r)
    PROVE  IInv'
  <1>1. NotSent.at = "idle"
    BY DEF NotSent
  <1> QED
    BY <1>1, NotSentTyped, SnapshotStep DEF RollBack

\* _get_motion: the snapshot is of the motion as stored.
LEMMA GetMotionPreserves ==
    ASSUME IInv, NEW r \in Requests, NEW handler \in Handlers,
           GetMotion(r, handler)
    PROVE  IInv'
  <1> DEFINE new == [NotSent EXCEPT !.at = "motion", !.handler = handler,
                                    !.status = motion.status,
                                    !.current = motion.current]
  <1>1. new \in Snapshot
    BY NotSentTyped, InputsAssumption DEF IInv, TypeOK, Snapshot
  <1>2. /\ new.at = "motion"
        /\ new.status = motion.status
        /\ new.current = motion.current
    BY DEF NotSent
  <1>3. motion.current \in 1 .. Len(versions)
    <2>1. Len(versions) \in Nat /\ Len(versions) # 0
      BY DEF IInv, TypeOK, GetMotion
    <2> QED
      BY <2>1 DEF IInv, CurrentVersionIsLatest
  <1>4. motion.status \in Unlocked => ApprovedOnce
    BY DEF IInv, UnlockedOnlyByApproval
  <1>5. req' = [req EXCEPT ![r] = new]
        /\ UNCHANGED <<run, pages, motion, versions, reviews, exports,
                       overlapped>>
    BY DEF GetMotion
  <1> HIDE DEF new
  <1> QED
    BY <1>1, <1>2, <1>3, <1>4, <1>5, SnapshotStep

\* _latest_version: the version loaded is the newest stored, and not older
\* than the one the motion named when it was loaded.
LEMMA LatestVersionPreserves ==
    ASSUME IInv, NEW r \in Requests, LatestVersion(r)
    PROVE  IInv'
  <1> DEFINE n == Len(versions)
             new == [req[r] EXCEPT !.at = "version", !.version = n,
                                   !.citation = versions[n].citation,
                                   !.ethics = versions[n].ethics]
  <1>1. /\ req[r] \in Snapshot
        /\ req[r].at = "motion"
        /\ req[r].current \in 1 .. n
        /\ req[r].status \in Unlocked => ApprovedOnce
        /\ ~req[r].stale => /\ req[r].status = motion.status
                            /\ req[r].current = motion.current
    BY DEF IInv, TypeOK, LatestVersion, SnapshotsAreOld, FreshSnapshots
  <1>2. n \in 1 .. MaxVersions /\ versions[n] \in VersionRow
    <2>1. n \in Nat /\ n <= MaxVersions /\ n # 0
      BY <1>1 DEF IInv, TypeOK
    <2> QED
      BY <2>1, BoundsAssumption DEF IInv, TypeOK
  <1>3. new \in Snapshot
    <2>1. /\ n \in 0 .. MaxVersions
          /\ versions[n].citation \in Verdicts
          /\ versions[n].ethics \in Findings
      BY <1>2, BoundsAssumption DEF VersionRow
    <2> HIDE DEF n
    <2> QED
      BY <1>1, <2>1 DEF Snapshot
  <1>4. /\ new.at = "version"
        /\ new.version = n
        /\ new.citation = versions[n].citation
        /\ new.status = req[r].status
        /\ new.current = req[r].current
        /\ new.stale = req[r].stale
    BY <1>1 DEF Snapshot
  <1>5. versions[n].citation = "passed_synthetic_sources"
            => versions[n].cleared
    BY <1>2 DEF IInv, VerdictBelongsToVersion
  <1>6. req' = [req EXCEPT ![r] = new]
        /\ UNCHANGED <<run, pages, motion, versions, reviews, exports,
                       overlapped>>
    BY DEF LatestVersion, IInv, TypeOK
  <1>7. new.version \in new.current .. Len(versions)
    BY <1>1, <1>2, <1>4
  <1> HIDE DEF new
  <1> QED
    BY <1>1, <1>3, <1>4, <1>5, <1>6, <1>7, SnapshotStep

\* Reading the pages leaves everything else the request has read.
LEMMA SelectPagesPreserves ==
    ASSUME IInv, NEW r \in Requests, SelectPages(r)
    PROVE  IInv'
  <1> DEFINE new == [req[r] EXCEPT !.at = "pages", !.pages = pages]
  <1>1. new \in Snapshot
    BY DEF IInv, TypeOK, Snapshot
  <1>2. /\ new.at = "pages"
        /\ new.version = req[r].version
        /\ new.citation = req[r].citation
        /\ new.status = req[r].status
        /\ new.current = req[r].current
        /\ new.stale = req[r].stale
    BY DEF IInv, TypeOK, Snapshot
  <1>3. req' = [req EXCEPT ![r] = new]
        /\ UNCHANGED <<run, pages, motion, versions, reviews, exports,
                       overlapped>>
    BY DEF SelectPages, IInv, TypeOK
  <1>4. /\ req[r].current \in 1 .. Len(versions)
        /\ req[r].status \in Unlocked => ApprovedOnce
        /\ req[r].version \in req[r].current .. Len(versions)
        /\ req[r].citation = "passed_synthetic_sources"
              => versions[req[r].version].cleared
        /\ ~req[r].stale => /\ req[r].status = motion.status
                            /\ req[r].current = motion.current
                            /\ req[r].version = Len(versions)
    BY DEF IInv, SelectPages, SnapshotsAreOld, FreshSnapshots, FirewallPassed
  <1> HIDE DEF new
  <1> QED
    BY <1>1, <1>2, <1>3, <1>4, SnapshotStep

-----------------------------------------------------------------------------
(* Commits.                                                                *)

\* A request that commits without being stale has read what is stored, and
\* one that commits while stale is remembered.
LEMMA CommitFacts ==
    ASSUME IInv, NEW r \in Requests, Commit(r)
    PROVE  /\ req' \in [Requests -> Snapshot]
           /\ overlapped' \in BOOLEAN
           /\ ~overlapped' => ~overlapped /\ ~req[r].stale
           /\ \A q \in Requests :
                 req'[q].at # "idle" =>
                    /\ req'[q].stale
                    /\ req[q].at # "idle"
                    /\ req'[q].at = req[q].at
                    /\ req'[q].status = req[q].status
                    /\ req'[q].current = req[q].current
                    /\ req'[q].version = req[q].version
                    /\ req'[q].citation = req[q].citation
  <1>1. ASSUME NEW q \in Requests
        PROVE  [req[q] EXCEPT !.stale = TRUE] \in Snapshot
    BY DEF IInv, TypeOK, Snapshot
  <1>2. req' \in [Requests -> Snapshot]
    BY <1>1, NotSentTyped DEF Commit, IInv, TypeOK
  <1>3. overlapped' \in BOOLEAN /\ (~overlapped' => ~overlapped /\ ~req[r].stale)
    <2>1. overlapped \in BOOLEAN /\ req[r].stale \in BOOLEAN
      BY DEF IInv, TypeOK, Snapshot
    <2> QED
      BY <2>1 DEF Commit
  <1>4. ASSUME NEW q \in Requests, req'[q].at # "idle"
        PROVE  /\ req'[q] = [req[q] EXCEPT !.stale = TRUE]
               /\ req[q].at # "idle"
    BY <1>4 DEF Commit, NotSent
  <1>5. ASSUME NEW q \in Requests, req'[q].at # "idle"
        PROVE  /\ req'[q].stale
               /\ req'[q].at = req[q].at
               /\ req'[q].status = req[q].status
               /\ req'[q].current = req[q].current
               /\ req'[q].version = req[q].version
               /\ req'[q].citation = req[q].citation
    BY <1>4, <1>5 DEF IInv, TypeOK, Snapshot
  <1> QED
    BY <1>2, <1>3, <1>4, <1>5

\* The other requests stay as far behind as they may be when versions are
\* only added, cleared versions stay cleared and reviews are kept.
LEMMA CommitSnapshots ==
    ASSUME IInv, NEW r \in Requests, Commit(r),
           Len(versions') \in Nat, Len(versions') >= Len(versions),
           \A n \in 1 .. Len(versions) :
              versions[n].cleared => versions'[n].cleared,
           ApprovedOnce => ApprovedOnce'
    PROVE  SnapshotsAreOld' /\ FreshSnapshots'
  <1>1. SnapshotsAreOld'
    <2> SUFFICES ASSUME NEW q \in Requests, req'[q].at # "idle"
                 PROVE  /\ req'[q].current \in 1 .. Len(versions')
                        /\ req'[q].status \in Unlocked => ApprovedOnce'
                        /\ req'[q].at # "motion" =>
                              /\ req'[q].version \in
                                    req'[q].current .. Len(versions')
                              /\ FirewallPassed(q)' =>
                                    versions'[req'[q].version].cleared
      BY DEF SnapshotsAreOld, Unlocked
    <2>1. /\ req[q].at # "idle"
          /\ req'[q].at = req[q].at
          /\ req'[q].status = req[q].status
          /\ req'[q].current = req[q].current
          /\ req'[q].version = req[q].version
          /\ req'[q].citation = req[q].citation
      BY CommitFacts
    <2>2. /\ req[q].current \in 1 .. Len(versions)
          /\ req[q].status \in Unlocked => ApprovedOnce
          /\ req[q].at # "motion" =>
                /\ req[q].version \in req[q].current .. Len(versions)
                /\ FirewallPassed(q) => versions[req[q].version].cleared
      BY <2>1 DEF IInv, SnapshotsAreOld
    <2>3. Len(versions) \in Nat
      BY DEF IInv, TypeOK
    <2> QED
      BY <2>1, <2>2, <2>3 DEF FirewallPassed
  <1>2. FreshSnapshots'
    BY CommitFacts DEF FreshSnapshots
  <1> QED
    BY <1>1, <1>2

\* What the request that commits has read.
LEMMA Loaded ==
    ASSUME IInv, NEW r \in Requests, req[r].at # "idle"
    PROVE  /\ req[r] \in Snapshot
           /\ req[r].current \in 1 .. Len(versions)
           /\ req[r].status \in Unlocked => ApprovedOnce
           /\ ~req[r].stale => /\ req[r].status = motion.status
                               /\ req[r].current = motion.current
           /\ req[r].at # "motion" =>
                 /\ req[r].version \in req[r].current .. Len(versions)
                 /\ FirewallPassed(r) => versions[req[r].version].cleared
                 /\ ~req[r].stale => req[r].version = Len(versions)
  BY DEF IInv, TypeOK, SnapshotsAreOld, FreshSnapshots

\* create_motion_version: the unique index makes the new version the next,
\* and a request that is not stale takes the approval away.
LEMMA CreateMotionVersionPreserves ==
    ASSUME IInv, NEW r \in Requests, CreateMotionVersion(r)
    PROVE  IInv'
  <1> DEFINE n == Len(versions)
  <1>1. /\ n \in Nat /\ n < MaxVersions
        /\ req[r].version = n
        /\ req[r].current <= n
        /\ req[r].current \in Nat
        /\ Commit(r)
        /\ versions' = Append(versions, NewVersion)
        /\ UNCHANGED <<run, pages, reviews, exports>>
    BY Loaded DEF IInv, TypeOK, CreateMotionVersion, NumberIsFree
  <1>2. /\ versions' \in Seq(VersionRow)
        /\ Len(versions') = n + 1
        /\ \A i \in 1 .. n : versions'[i] = versions[i]
        /\ versions'[n + 1] = NewVersion
    <2>1. NewVersion \in VersionRow
      BY DEF NewVersion, VersionRow, Verdicts, Findings
    <2> QED
      BY <1>1, <2>1, AppendRow DEF IInv, TypeOK
  <1>3. /\ motion'.current = n + 1
        /\ motion'.status \in {"draft", motion.status}
        /\ ~req[r].stale => motion'.status = "draft"
        /\ motion' = [status |-> StatusOfEdit(r), current |-> n + 1]
    BY <1>1, Loaded DEF CreateMotionVersion, Written, StatusOfEdit
  <1>4. TypeOK'
    <2>1. motion' \in [status: Statuses, current: 0 .. MaxVersions]
      BY <1>1, <1>3, BoundsAssumption DEF IInv, TypeOK, Statuses
    <2> QED
      BY <1>1, <1>2, <2>1, CommitFacts, BoundsAssumption DEF IInv, TypeOK
  <1>5. SnapshotsAreOld' /\ FreshSnapshots'
    BY <1>1, <1>2, CommitSnapshots DEF ApprovedOnce
  <1>6. ~overlapped' => ~overlapped /\ motion'.status = "draft"
    BY <1>1, <1>3, CommitFacts
  <1>7. RowsInv'
    BY <1>1, <1>2, <1>3, <1>6
    DEF IInv, RowsInv, NamedVersionsExist, CurrentVersionIsLatest, NewVersion,
        UnlockedOnlyByApproval, ApprovedOnce, VerdictBelongsToVersion,
        ApprovalCoversCurrent, ExportedWasApproved, VersionApproved,
        SubmittedWasCleared, Unlocked
  <1> QED
    BY <1>4, <1>5, <1>7 DEF IInv, RowsInv

\* A check replaces the row of the version it has read by one that keeps
\* "cleared", and that is cleared if its verdict is a pass.
LEMMA CheckPreserves ==
    ASSUME IInv, NEW r \in Requests, NEW row \in VersionRow,
           req[r].at \notin {"idle", "motion"}, Commit(r),
           versions' = [versions EXCEPT ![req[r].version] = row],
           versions[req[r].version].cleared => row.cleared,
           row.citation = "passed_synthetic_sources" => row.cleared,
           UNCHANGED <<run, pages, motion, reviews, exports>>
    PROVE  IInv'
  <1> DEFINE n == req[r].version
  <1>1. n \in 1 .. Len(versions)
    BY Loaded DEF IInv, TypeOK
  <1>2. /\ versions' \in Seq(VersionRow)
        /\ Len(versions') = Len(versions)
        /\ \A i \in 1 .. Len(versions) :
              versions'[i] = IF i = n THEN row ELSE versions[i]
    BY <1>1, ReplaceRow DEF IInv, TypeOK
  <1>3. \A i \in 1 .. Len(versions) :
           versions[i].cleared => versions'[i].cleared
    BY <1>2
  <1>4. TypeOK'
    BY <1>2, CommitFacts DEF IInv, TypeOK
  <1>5. SnapshotsAreOld' /\ FreshSnapshots'
    BY <1>2, <1>3, CommitSnapshots DEF ApprovedOnce, IInv, TypeOK
  <1>6. ~overlapped' => ~overlapped
    BY CommitFacts
  <1>7. RowsInv'
    <2>1. VerdictBelongsToVersion'
      BY <1>2 DEF IInv, VerdictBelongsToVersion
    <2>2. SubmittedWasCleared'
      <3>1. motion.status = "review_required" /\ ~overlapped
              => versions[Len(versions)].cleared
        BY DEF IInv, SubmittedWasCleared
      <3>2. Len(versions) \in 1 .. Len(versions)
        BY <1>1 DEF IInv, TypeOK
      <3> QED
        BY <1>2, <1>3, <1>6, <3>1, <3>2 DEF SubmittedWasCleared
    <2>3. /\ NamedVersionsExist'
          /\ CurrentVersionIsLatest'
          /\ UnlockedOnlyByApproval'
          /\ ApprovalCoversCurrent'
          /\ ExportedWasApproved'
      BY <1>2, <1>6
      DEF IInv, NamedVersionsExist, CurrentVersionIsLatest,
          UnlockedOnlyByApproval, ApprovedOnce, ApprovalCoversCurrent,
          ExportedWasApproved, VersionApproved, Unlocked
    <2> QED
      BY <2>1, <2>2, <2>3 DEF RowsInv
  <1> QED
    BY <1>4, <1>5, <1>7 DEF IInv, RowsInv

\* check_motion_citations marks a version passed and cleared in one step.
LEMMA CheckMotionCitationsPreserves ==
    ASSUME IInv, NEW r \in Requests, CheckMotionCitations(r)
    PROVE  IInv'
  <1> DEFINE n == req[r].version
             old == versions[n]
             row == [old EXCEPT !.citation = Written(req[r].citation,
                                                     CitationVerdict(r), @),
                                !.cleared = @ \/ req[r].pages]
  <1>1. /\ req[r] \in Snapshot
        /\ n \in 1 .. Len(versions)
        /\ old \in VersionRow
        /\ req[r].at = "pages"
    BY Loaded DEF IInv, TypeOK, CheckMotionCitations
  <1>2. /\ Written(req[r].citation, CitationVerdict(r), old.citation) \in Verdicts
        /\ req[r].pages \in BOOLEAN
        /\ old.cleared \in BOOLEAN
    BY <1>1 DEF Written, CitationVerdict, Verdicts, VersionRow, Snapshot
  <1>3. row \in VersionRow
    BY <1>1, <1>2 DEF VersionRow
  <1>4. row.cleared = (old.cleared \/ req[r].pages)
        /\ row.citation = Written(req[r].citation, CitationVerdict(r),
                                  old.citation)
    BY <1>1 DEF VersionRow
  <1>5. old.citation = "passed_synthetic_sources" => old.cleared
    BY <1>1 DEF IInv, VerdictBelongsToVersion
  <1>6. row.citation = "passed_synthetic_sources" => row.cleared
    <2>1. CitationVerdict(r) = "passed_synthetic_sources" => req[r].pages
      BY DEF CitationVerdict
    <2> QED
      BY <1>4, <1>5, <2>1 DEF Written
  <1>7. versions' = [versions EXCEPT ![n] = row]
    BY DEF CheckMotionCitations
  <1>8. /\ Commit(r)
        /\ UNCHANGED <<run, pages, motion, reviews, exports>>
    BY DEF CheckMotionCitations
  <1>9. old.cleared => row.cleared
    BY <1>4
  <1> HIDE DEF row
  <1> QED
    BY <1>1, <1>3, <1>6, <1>7, <1>8, <1>9, CheckPreserves

\* check_motion_ethics leaves the citation verdicts alone.
LEMMA CheckMotionEthicsPreserves ==
    ASSUME IInv, NEW r \in Requests, CheckMotionEthics(r)
    PROVE  IInv'
  <1> DEFINE n == req[r].version
             old == versions[n]
             row == [old EXCEPT !.ethics = Written(req[r].ethics,
                                                   EthicsFinding(n), @)]
  <1>1. /\ n \in 1 .. Len(versions)
        /\ old \in VersionRow
        /\ req[r].at = "version"
    BY Loaded DEF IInv, TypeOK, CheckMotionEthics
  <1>2. Written(req[r].ethics, EthicsFinding(n), old.ethics) \in Findings
    BY <1>1 DEF Written, EthicsFinding, Findings, VersionRow
  <1>3. row \in VersionRow
    BY <1>1, <1>2 DEF VersionRow
  <1>4. row.cleared = old.cleared /\ row.citation = old.citation
    BY <1>1 DEF VersionRow
  <1>5. old.citation = "passed_synthetic_sources" => old.cleared
    BY <1>1 DEF IInv, VerdictBelongsToVersion
  <1>6. versions' = [versions EXCEPT ![n] = row]
    BY DEF CheckMotionEthics
  <1>7. /\ Commit(r)
        /\ UNCHANGED <<run, pages, motion, reviews, exports>>
    BY DEF CheckMotionEthics
  <1> HIDE DEF row
  <1> QED
    BY <1>1, <1>3, <1>4, <1>5, <1>6, <1>7, CheckPreserves

\* What a step that writes the status column must show: submit_motion_review
\* and _export keep the versions and the reviews.
LEMMA StatusStep ==
    ASSUME IInv, NEW r \in Requests, NEW new \in Statuses,
           Commit(r), NEW more \in SUBSET (1 .. Len(versions)),
           motion' = [motion EXCEPT !.status = Written(req[r].status, new, @)],
           exports' = exports \cup more,
           UNCHANGED <<run, pages, versions, reviews>>,
           new \in Unlocked \/ more # {} => ApprovedOnce,
           ~req[r].stale => req[r].status = motion.status,
           (~req[r].stale /\ new \in Unlocked) => motion.status \in Unlocked,
           (~req[r].stale /\ new = "review_required")
              => versions[Len(versions)].cleared,
           (~req[r].stale /\ ~overlapped) =>
              \A n \in more : VersionApproved(n)
    PROVE  IInv'
  <1>1. /\ motion'.current = motion.current
        /\ motion'.status \in {new, motion.status}
        /\ ~req[r].stale => motion'.status = new
        /\ motion' \in [status: Statuses, current: 0 .. MaxVersions]
    BY DEF IInv, TypeOK, Written
  <1>2. exports' \subseteq 1 .. MaxVersions /\ exports' \subseteq 1 .. Len(versions)
    BY BoundsAssumption DEF IInv, TypeOK, NamedVersionsExist
  <1>3. TypeOK'
    BY <1>1, <1>2, CommitFacts DEF IInv, TypeOK
  <1>4. SnapshotsAreOld' /\ FreshSnapshots'
    BY CommitSnapshots DEF ApprovedOnce, IInv, TypeOK
  <1>5. ~overlapped' => ~overlapped /\ ~req[r].stale
    BY CommitFacts
  <1>6. UnlockedOnlyByApproval'
    BY <1>1 DEF IInv, UnlockedOnlyByApproval, ApprovedOnce, Unlocked
  <1>7. ApprovalCoversCurrent'
    BY <1>1, <1>5 DEF IInv, ApprovalCoversCurrent, Unlocked
  <1>8. ExportedWasApproved'
    BY <1>5 DEF IInv, ExportedWasApproved, VersionApproved
  <1>9. SubmittedWasCleared'
    BY <1>1, <1>5 DEF IInv, SubmittedWasCleared
  <1>10. NamedVersionsExist' /\ CurrentVersionIsLatest' /\ VerdictBelongsToVersion'
    BY <1>1, <1>2 DEF IInv, NamedVersionsExist, CurrentVersionIsLatest,
                      VerdictBelongsToVersion
  <1> QED
    BY <1>3, <1>4, <1>6, <1>7, <1>8, <1>9, <1>10 DEF IInv, RowsInv

\* submit_motion_review: the verdict it has read is of the newest version,
\* unless it is stale.
LEMMA SubmitMotionReviewPreserves ==
    ASSUME IInv, NEW r \in Requests, SubmitMotionReview(r)
    PROVE  IInv'
  <1> DEFINE new == "review_required"
             more == {}
  <1>1. /\ req[r].at = "version" /\ FirewallPassed(r) /\ Commit(r)
        /\ motion' = [motion EXCEPT !.status = Written(req[r].status, new, @)]
        /\ exports' = exports \cup more
        /\ UNCHANGED <<run, pages, versions, reviews>>
    BY DEF SubmitMotionReview
  <1>2. new \in Statuses /\ new \notin Unlocked
    BY DEF Statuses, Unlocked
  <1>3. /\ ~req[r].stale => req[r].status = motion.status
        /\ ~req[r].stale => versions[Len(versions)].cleared
    BY <1>1, Loaded
  <1> HIDE DEF new
  <1> QED
    BY <1>1, <1>2, <1>3, StatusStep

\* _export: an approval exists, and it is of the newest version unless the
\* request is stale.
LEMMA ExportPreserves ==
    ASSUME IInv, NEW r \in Requests, Export(r)
    PROVE  IInv'
  <1> DEFINE new == "exported"
             more == {req[r].version}
  <1>1. /\ req[r].at = "version" /\ Commit(r)
        /\ req[r].status \in Unlocked /\ ApprovedOnce
        /\ motion' = [motion EXCEPT !.status = Written(req[r].status, new, @)]
        /\ exports' = exports \cup more
        /\ UNCHANGED <<run, pages, versions, reviews>>
    BY DEF Export, MayExport
  <1>2. /\ ~req[r].stale => req[r].status = motion.status
        /\ ~req[r].stale => motion.status \in Unlocked
        /\ ~req[r].stale => req[r].version = Len(versions)
        /\ req[r].version \in 1 .. Len(versions)
    BY <1>1, Loaded DEF IInv, TypeOK
  <1>3. (~req[r].stale /\ ~overlapped) => \A n \in more : VersionApproved(n)
    <2> SUFFICES ASSUME ~req[r].stale, ~overlapped
                 PROVE  VersionApproved(Len(versions))
      BY <1>2
    <2>1. /\ reviews # << >>
          /\ reviews[Len(reviews)].decision = "approved"
          /\ reviews[Len(reviews)].version = Len(versions)
      BY <1>2 DEF IInv, ApprovalCoversCurrent
    <2>2. Len(reviews) \in 1 .. Len(reviews)
      BY <2>1 DEF IInv, TypeOK
    <2> QED
      BY <2>1, <2>2 DEF VersionApproved
  <1>4. new \in Statuses /\ new # "review_required"
    BY DEF Statuses
  <1> HIDE DEF new, more
  <1>5. more \in SUBSET (1 .. Len(versions))
    BY <1>2 DEF more
  <1> QED
    BY <1>1, <1>2, <1>3, <1>4, <1>5, StatusStep

\* review_motion: the review it adds is the last, of the version it loaded.
LEMMA ReviewMotionPreserves ==
    ASSUME IInv, NEW r \in Requests, ReviewMotion(r)
    PROVE  IInv'
  <1>1. PICK decision \in Choices :
           /\ reviews' = Append(reviews, [decision |-> decision,
                                          version |-> req[r].current])
           /\ motion' = [motion EXCEPT !.status = Written(req[r].status,
                                                          decision, @)]
    BY DEF ReviewMotion
  <1> DEFINE row == [decision |-> decision, version |-> req[r].current]
             k == Len(reviews)
  <1>2. /\ req[r].at = "motion" /\ Commit(r)
        /\ UNCHANGED <<run, pages, versions, exports>>
    BY DEF ReviewMotion
  <1>3. /\ req[r].current \in 1 .. Len(versions)
        /\ req[r].status \in Unlocked => ApprovedOnce
        /\ ~req[r].stale => /\ req[r].status = motion.status
                            /\ req[r].current = motion.current
    BY <1>2, Loaded
  <1>4. decision \in Decisions /\ decision \in Statuses
        /\ decision # "review_required"
        /\ (decision \in Unlocked => decision = "approved")
    BY InputsAssumption DEF Decisions, Statuses, Unlocked
  <1>5. row \in ReviewRow /\ row.decision = decision
        /\ row.version = req[r].current
    BY <1>3, <1>4, BoundsAssumption DEF ReviewRow, IInv, TypeOK
  <1>6. /\ reviews' \in Seq(ReviewRow)
        /\ k \in Nat
        /\ Len(reviews') = k + 1
        /\ \A i \in 1 .. k : reviews'[i] = reviews[i]
        /\ reviews'[k + 1] = row
    BY <1>1, <1>5, AppendRow DEF IInv, TypeOK
  <1>7. /\ motion'.current = motion.current
        /\ motion'.status \in {decision, motion.status}
        /\ ~req[r].stale => motion'.status = decision
        /\ motion' \in [status: Statuses, current: 0 .. MaxVersions]
    BY <1>1, <1>3, <1>4 DEF IInv, TypeOK, Written
  <1>8. TypeOK'
    BY <1>2, <1>6, <1>7, CommitFacts DEF IInv, TypeOK
  <1>9. ApprovedOnce => ApprovedOnce'
    BY <1>6 DEF ApprovedOnce
  <1>10. SnapshotsAreOld' /\ FreshSnapshots'
    BY <1>2, <1>9, CommitSnapshots DEF IInv, TypeOK
  <1>11. ~overlapped' => ~overlapped /\ ~req[r].stale
    BY <1>2, CommitFacts
  <1>12. UnlockedOnlyByApproval'
    <2>1. decision = "approved" => ApprovedOnce'
      BY <1>5, <1>6 DEF ApprovedOnce
    <2> QED
      BY <1>2, <1>4, <1>7, <1>9, <2>1 DEF IInv, UnlockedOnlyByApproval, Unlocked
  <1>13. ApprovalCoversCurrent'
    BY <1>2, <1>3, <1>4, <1>5, <1>6, <1>7, <1>11
    DEF IInv, ApprovalCoversCurrent, CurrentVersionIsLatest, Unlocked
  <1>14. ExportedWasApproved'
    BY <1>2, <1>6, <1>11 DEF IInv, ExportedWasApproved, VersionApproved
  <1>15. SubmittedWasCleared'
    BY <1>2, <1>4, <1>7, <1>11 DEF IInv, SubmittedWasCleared
  <1>16. NamedVersionsExist'
    BY <1>2, <1>3, <1>5, <1>6 DEF IInv, NamedVersionsExist
  <1>17. CurrentVersionIsLatest' /\ VerdictBelongsToVersion'
    BY <1>2, <1>7 DEF IInv, CurrentVersionIsLatest, VerdictBelongsToVersion
  <1> QED
    BY <1>8, <1>10, <1>12, <1>13, <1>14, <1>15, <1>16, <1>17 DEF IInv, RowsInv

-----------------------------------------------------------------------------
(* The invariant, and what it gives.                                       *)

\* A stuttering step.
LEMMA StutterPreserves ==
    ASSUME IInv, UNCHANGED vars
    PROVE  IInv'
  <1>1. UNCHANGED <<run, pages, motion, versions, reviews, exports, req,
                    overlapped>>
    BY DEF vars
  <1>2. TypeOK'
    BY <1>1 DEF IInv, TypeOK
  <1>3. SnapshotsAreOld' /\ FreshSnapshots'
    BY <1>1 DEF IInv, SnapshotsAreOld, FreshSnapshots, ApprovedOnce,
                FirewallPassed, Unlocked
  <1>4. RowsInv
    BY DEF IInv, RowsInv
  <1>5. RowsInv'
    BY <1>1, <1>4, RowsUnchanged
  <1> QED
    BY <1>2, <1>3, <1>5 DEF IInv, RowsInv

\* The invariant is inductive.
LEMMA NextPreserves == IInv /\ [Next]_vars => IInv'
  <1> SUFFICES ASSUME IInv, Next PROVE IInv'
    BY StutterPreserves
  <1>1. CASE SourcesChange \/ AnalysisFails
    BY <1>1, SurroundingsPreserve
  <1>2. CASE RunCaseAnalysis
    BY <1>2, RunCaseAnalysisPreserves
  <1>3. CASE CreateMotion
    BY <1>3, CreateMotionPreserves
  <1>4. ASSUME NEW r \in Requests, NEW handler \in Handlers,
               GetMotion(r, handler)
        PROVE  IInv'
    BY <1>4, GetMotionPreserves
  <1>5. ASSUME NEW r \in Requests, LatestVersion(r) \/ SelectPages(r)
        PROVE  IInv'
    BY <1>5, LatestVersionPreserves, SelectPagesPreserves
  <1>6. ASSUME NEW r \in Requests,
               \/ CreateMotionVersion(r)
               \/ CheckMotionCitations(r)
               \/ CheckMotionEthics(r)
        PROVE  IInv'
    BY <1>6, CreateMotionVersionPreserves, CheckMotionCitationsPreserves,
       CheckMotionEthicsPreserves
  <1>7. ASSUME NEW r \in Requests,
               SubmitMotionReview(r) \/ ReviewMotion(r) \/ Export(r)
        PROVE  IInv'
    BY <1>7, SubmitMotionReviewPreserves, ReviewMotionPreserves, ExportPreserves
  <1>8. ASSUME NEW r \in Requests,
               \/ CreateMotionVersionCollides(r)
               \/ CheckMotionCitationsFails(r)
               \/ SubmitMotionReviewRefused(r)
               \/ ReviewMotionRefused(r)
               \/ ExportRefused(r)
        PROVE  IInv'
    <2>1. RollBack(r)
      BY <1>8 DEF CreateMotionVersionCollides, CheckMotionCitationsFails,
                  SubmitMotionReviewRefused, ReviewMotionRefused, ExportRefused
    <2> QED
      BY <2>1, RollBackPreserves
  <1> QED
    BY <1>1, <1>2, <1>3, <1>4, <1>5, <1>6, <1>7, <1>8 DEF Next

\* The invariant holds in every reachable state, whatever Requests, Handlers,
\* Choices, Compliant and the bounds are.
THEOREM Invariance == Spec => []IInv
  <1> QED
    BY InitIInv, NextPreserves, PTL DEF Spec

\* Every row and every snapshot keeps its type, for any number of requests.
THEOREM TypeCorrect == Spec => []TypeOK
  <1>1. IInv => TypeOK
    BY DEF IInv
  <1> QED
    BY Invariance, <1>1, PTL

\* Racing edits never make current_version name anything but the newest
\* version (create_motion_version).
THEOREM VersionsAreNumbered == Spec => []CurrentVersionIsLatest
  <1>1. IInv => CurrentVersionIsLatest
    BY DEF IInv
  <1> QED
    BY Invariance, <1>1, PTL

\* No interleaving unlocks or exports a motion without an approving row of
\* attorney_reviews, be it one its analysis run wrote (review_motion, _export).
THEOREM NoUnlockWithoutApproval == Spec => []UnlockedOnlyByApproval
  <1>1. IInv => UnlockedOnlyByApproval
    BY DEF IInv
  <1> QED
    BY Invariance, <1>1, PTL

\* No interleaving moves a verdict of the Citation Firewall to another
\* version (check_motion_citations).
THEOREM VerdictsStay == Spec => []VerdictBelongsToVersion
  <1>1. IInv => VerdictBelongsToVersion
    BY DEF IInv
  <1> QED
    BY Invariance, <1>1, PTL

\* As long as no request commits over another one's commit, an unlocked
\* motion is one whose newest version its last review approved.
THEOREM ApprovalIsCurrent == Spec => []ApprovalCoversCurrent
  <1>1. IInv => ApprovalCoversCurrent
    BY DEF IInv
  <1> QED
    BY Invariance, <1>1, PTL

\* As long as no request commits over another one's commit, what is exported
\* was approved.
THEOREM ExportsAreApproved == Spec => []ExportedWasApproved
  <1>1. IInv => ExportedWasApproved
    BY DEF IInv
  <1> QED
    BY Invariance, <1>1, PTL

\* As long as no request commits over another one's commit, a motion waits
\* for review only with a cleared newest version.
THEOREM SubmissionsAreCleared == Spec => []SubmittedWasCleared
  <1>1. IInv => SubmittedWasCleared
    BY DEF IInv
  <1> QED
    BY Invariance, <1>1, PTL

\* As long as no request commits over another one's commit, exporting
\* unlocks nothing.
THEOREM ExportsUnlockNothing == Spec => ExportUnlocksNothing
  <1> DEFINE Quiet == (motion.status \notin Unlocked /\ motion'.status = "exported")
                         => overlapped'
  <1>1. IInv /\ [Next]_vars => [Quiet]_vars
    <2> SUFFICES ASSUME IInv, Next, motion.status \notin Unlocked,
                        motion'.status = "exported", ~overlapped'
                 PROVE  FALSE
      BY DEF Quiet
    <2>1. motion' # motion
      BY DEF Unlocked
    <2>2. CASE RunCaseAnalysis \/ CreateMotion
      BY <2>1, <2>2 DEF RunCaseAnalysis, CreateMotion
    <2>3. ASSUME NEW r \in Requests, CreateMotionVersion(r)
          PROVE  FALSE
      BY <2>1, <2>3 DEF CreateMotionVersion, StatusOfEdit, Written, Unlocked
    <2>4. ASSUME NEW r \in Requests, SubmitMotionReview(r)
          PROVE  FALSE
      BY <2>1, <2>4 DEF SubmitMotionReview, Written, IInv, TypeOK, Unlocked
    <2>5. ASSUME NEW r \in Requests, ReviewMotion(r)
          PROVE  FALSE
      BY <2>1, <2>5, InputsAssumption
      DEF ReviewMotion, Written, IInv, TypeOK, Unlocked, Decisions
    <2>6. ASSUME NEW r \in Requests, Export(r)
          PROVE  FALSE
      <3>1. Commit(r) /\ req[r].at # "idle" /\ req[r].status \in Unlocked
        BY <2>6 DEF Export, MayExport
      <3>2. ~req[r].stale
        BY <3>1, CommitFacts
      <3> QED
        BY <3>1, <3>2, Loaded
    <2>7. CASE \E r \in Requests :
                 \/ \E handler \in Handlers : GetMotion(r, handler)
                 \/ LatestVersion(r)
                 \/ SelectPages(r)
                 \/ CheckMotionCitations(r)
                 \/ CheckMotionEthics(r)
                 \/ RollBack(r)
      BY <2>1, <2>7 DEF GetMotion, LatestVersion, SelectPages,
                        CheckMotionCitations, CheckMotionEthics, RollBack
    <2>8. CASE SourcesChange \/ AnalysisFails
      BY <2>1, <2>8 DEF SourcesChange, AnalysisFails
    <2> QED
      BY <2>2, <2>3, <2>4, <2>5, <2>6, <2>7, <2>8
      DEF Next, CreateMotionVersionCollides, CheckMotionCitationsFails,
          SubmitMotionReviewRefused, ReviewMotionRefused, ExportRefused
  <1> QED
    BY Invariance, <1>1, PTL DEF Spec, ExportUnlocksNothing

-----------------------------------------------------------------------------
(* MotionLifecycle implements ApprovalPromise: under the inductive         *)
(* invariant each of its steps is a step of the promise or none.  What     *)
(* follows from the promise alone therefore holds of the routes.           *)

\* What is approved once another row is appended to the reviews.
LEMMA ApprovedAppend ==
    ASSUME reviews \in Seq(ReviewRow), NEW e \in ReviewRow,
           reviews' = Append(reviews, e)
    PROVE  ApprovedVersions' = IF e.decision = "approved"
                               THEN ApprovedVersions \cup {e.version}
                               ELSE ApprovedVersions
  <1>1. /\ Len(reviews) \in Nat /\ Len(reviews') = Len(reviews) + 1
        /\ \A i \in 1 .. Len(reviews) : reviews'[i] = reviews[i]
        /\ reviews'[Len(reviews) + 1] = e
    BY AppendRow
  <1>2. \A v : v \in ApprovedVersions' <=>
          \E i \in 1 .. Len(reviews) + 1 :
             reviews'[i].decision = "approved" /\ reviews'[i].version = v
    BY <1>1 DEF ApprovedVersions
  <1>3. \A v : v \in ApprovedVersions <=>
          \E i \in 1 .. Len(reviews) :
             reviews[i].decision = "approved" /\ reviews[i].version = v
    BY DEF ApprovedVersions
  <1>4. \A v : v \in ApprovedVersions' <=>
          \/ v \in ApprovedVersions
          \/ e.decision = "approved" /\ e.version = v
    BY <1>1, <1>2, <1>3
  <1> QED
    BY <1>4

\* The first state of the motion is the promise's.
LEMMA InitKeeps == Init => Promise!Init
  BY DEF Init, Promise!Init, ApprovedVersions, Unlocked

\* A step that leaves the motion and its rows alone is none of the promise.
LEMMA NoStep ==
    ASSUME UNCHANGED <<motion, reviews, exports, overlapped>>,
           Len(versions') = Len(versions)
    PROVE  UNCHANGED Promise!vars
  BY DEF Promise!vars, ApprovedVersions

\* A motion begins while nothing names it.
LEMMA BeginningsKeep ==
    ASSUME IInv, RunCaseAnalysis \/ CreateMotion
    PROVE  [Promise!Next]_Promise!vars
  <1>1. /\ versions = << >> /\ Len(versions) = 0
        /\ reviews = << >> /\ exports = {}
    BY NothingBeforeTheMotion DEF RunCaseAnalysis, CreateMotion
  <1>2. ApprovedVersions = {}
    BY <1>1 DEF ApprovedVersions
  <1>3. CASE CreateMotion
    <2>1. Len(versions') = 1 /\ motion'.status = "draft"
          /\ UNCHANGED <<reviews, exports, overlapped>>
      BY <1>3 DEF CreateMotion
    <2>2. (motion.status \in Unlocked)' = FALSE
      BY <2>1 DEF Unlocked
    <2>3. ApprovedVersions' = ApprovedVersions
      BY <2>1 DEF ApprovedVersions
    <2>4. Promise!Begin
      BY <1>1, <2>1, <2>2, <2>3 DEF Promise!Begin
    <2> QED
      BY <2>4 DEF Promise!Next
  <1>4. CASE RunCaseAnalysis /\ UNCHANGED <<motion, versions, reviews>>
    BY <1>4, NoStep DEF RunCaseAnalysis
  <1>5. CASE RunCaseAnalysis /\ ~UNCHANGED <<motion, versions, reviews>>
    <2>1. /\ Len(versions') = 2 /\ motion'.status = "approved"
          /\ reviews' = << [decision |-> "changes_requested", version |-> 2],
                           [decision |-> "approved", version |-> 2] >>
          /\ UNCHANGED <<exports, overlapped>>
      BY <1>5 DEF RunCaseAnalysis
    <2>2. (motion.status \in Unlocked)' = TRUE
      BY <2>1 DEF Unlocked
    <2>3. ApprovedVersions' = {2}
      <3>1. /\ Len(reviews') = 2 /\ reviews'[1].decision # "approved"
            /\ reviews'[2].decision = "approved" /\ reviews'[2].version = 2
        BY <2>1
      <3>2. \A v : v \in ApprovedVersions' <=> \E i \in 1 .. 2 :
              reviews'[i].decision = "approved" /\ reviews'[i].version = v
        BY <3>1 DEF ApprovedVersions
      <3>3. \A v : v \in ApprovedVersions' <=> v = 2
        BY <3>1, <3>2
      <3> QED
        BY <3>3
    <2>4. Promise!Begin
      BY <1>1, <2>1, <2>2, <2>3 DEF Promise!Begin
    <2> QED
      BY <2>4 DEF Promise!Next
  <1> QED
    BY <1>3, <1>4, <1>5

\* What remains of the promise when requests overlap.
LEMMA OvertakenKeeps ==
    ASSUME IInv', overlapped',
           Len(versions') \in {Len(versions), Len(versions) + 1},
           ApprovedVersions \subseteq ApprovedVersions',
           exports \subseteq exports'
    PROVE  Promise!Next
  <1>1. ASSUME motion'.status \in Unlocked PROVE ApprovedVersions' # {}
    <2>1. ApprovedOnce'
      BY <1>1 DEF IInv, UnlockedOnlyByApproval, Unlocked
    <2> QED
      BY <2>1 DEF ApprovedOnce, ApprovedVersions
  <1>2. Promise!Overtaken
    BY <1>1 DEF Promise!Overtaken, Unlocked
  <1> QED
    BY <1>2 DEF Promise!Next

\* create_motion_version revises.
LEMMA CreateMotionVersionKeeps ==
    ASSUME IInv, IInv', NEW r \in Requests, CreateMotionVersion(r)
    PROVE  Promise!Next
  <1>1. /\ versions \in Seq(VersionRow) /\ Len(versions) \in Nat
        /\ overlapped \in BOOLEAN
    BY DEF IInv, TypeOK
  <1>2. Len(versions') = Len(versions) + 1
    BY <1>1 DEF CreateMotionVersion
  <1>3. ApprovedVersions' = ApprovedVersions /\ exports' = exports
    BY DEF CreateMotionVersion, ApprovedVersions
  <1>4. CASE overlapped'
    BY <1>2, <1>3, <1>4, OvertakenKeeps
  <1>5. CASE ~overlapped'
    <2>1. /\ overlapped' = overlapped /\ req[r].status = motion.status
          /\ Len(versions) > 0
      BY <1>1, <1>5, CommitFacts, Loaded DEF CreateMotionVersion
    <2>2. motion'.status = "draft"
      BY <2>1 DEF CreateMotionVersion, StatusOfEdit, Written
    <2>3. (motion.status \in Unlocked)' = FALSE
      BY <2>2 DEF Unlocked
    <2>4. Promise!Revise
      BY <1>2, <1>3, <2>1, <2>3 DEF Promise!Revise
    <2> QED
      BY <2>4 DEF Promise!Next
  <1> QED
    BY <1>4, <1>5

\* review_motion approves or withdraws, and decides on the newest version.
LEMMA ReviewMotionKeeps ==
    ASSUME IInv, IInv', NEW r \in Requests, ReviewMotion(r)
    PROVE  Promise!Next
  <1>1. /\ reviews \in Seq(ReviewRow) /\ overlapped \in BOOLEAN
        /\ Len(versions) \in Nat /\ Len(versions) <= MaxVersions
    BY DEF IInv, TypeOK
  <1>2. req[r].current \in 1 .. Len(versions) /\ Commit(r)
    BY Loaded DEF ReviewMotion
  <1>3. PICK decision \in Choices :
          /\ reviews' = Append(reviews, [decision |-> decision,
                                         version |-> req[r].current])
          /\ motion' = [motion EXCEPT !.status = Written(req[r].status,
                                                         decision, @)]
          /\ UNCHANGED <<versions, exports>>
    BY DEF ReviewMotion
  <1> DEFINE e == [decision |-> decision, version |-> req[r].current]
  <1>4. e \in ReviewRow
    BY <1>1, <1>2, InputsAssumption, BoundsAssumption DEF ReviewRow
  <1>5. ApprovedVersions' = IF decision = "approved"
                            THEN ApprovedVersions \cup {req[r].current}
                            ELSE ApprovedVersions
    BY <1>1, <1>3, <1>4, ApprovedAppend
  <1>6. CASE overlapped'
    BY <1>3, <1>5, <1>6, OvertakenKeeps
  <1>7. CASE ~overlapped'
    <2>1. /\ overlapped' = overlapped /\ req[r].status = motion.status
          /\ req[r].current = Len(versions) /\ Len(versions) > 0
      <3>1. ~overlapped /\ ~req[r].stale
        BY <1>2, <1>7, CommitFacts
      <3>2. req[r].at # "idle" /\ motion.current = Len(versions)
        BY DEF ReviewMotion, IInv, CurrentVersionIsLatest
      <3>3. req[r].status = motion.status /\ req[r].current = motion.current
        BY <3>1, <3>2, Loaded
      <3>4. overlapped' = overlapped
        BY <1>1, <1>2, <1>7, <3>1, CommitFacts
      <3> QED
        BY <1>1, <1>2, <3>2, <3>3, <3>4
    <2>2. motion'.status = decision
      BY <1>3, <2>1 DEF IInv, TypeOK, Written
    <2>3. CASE decision = "approved"
      <3>1. (motion.status \in Unlocked)' = TRUE
        BY <2>2, <2>3 DEF Unlocked
      <3>2. Promise!Approve
        BY <1>3, <1>5, <2>1, <2>3, <3>1 DEF Promise!Approve
      <3> QED
        BY <3>2 DEF Promise!Next
    <2>4. CASE decision # "approved"
      <3>1. (motion.status \in Unlocked)' = FALSE
        BY <2>2, <2>4, InputsAssumption DEF Unlocked, Decisions
      <3>2. Promise!Withdraw
        BY <1>3, <1>5, <2>1, <2>4, <3>1 DEF Promise!Withdraw
      <3> QED
        BY <3>2 DEF Promise!Next
    <2> QED
      BY <2>3, <2>4
  <1> QED
    BY <1>6, <1>7

\* submit_motion_review withdraws: the motion waits for another decision.
LEMMA SubmitMotionReviewKeeps ==
    ASSUME IInv, IInv', NEW r \in Requests, SubmitMotionReview(r)
    PROVE  Promise!Next
  <1>1. /\ UNCHANGED <<versions, reviews, exports>> /\ Commit(r)
        /\ motion' = [motion EXCEPT !.status = Written(req[r].status,
                                                       "review_required", @)]
        /\ req[r].at # "idle"
    BY DEF SubmitMotionReview
  <1>2. ApprovedVersions' = ApprovedVersions
    BY <1>1 DEF ApprovedVersions
  <1>3. CASE overlapped'
    BY <1>1, <1>2, <1>3, OvertakenKeeps
  <1>4. CASE ~overlapped'
    <2>1. ~overlapped /\ ~req[r].stale /\ overlapped' \in BOOLEAN
      BY <1>1, <1>4, CommitFacts
    <2>2. req[r].status = motion.status
      BY <1>1, <2>1, Loaded
    <2>3. overlapped' = overlapped
      BY <1>4, <2>1 DEF IInv, TypeOK
    <2>4. motion'.status = "review_required"
      BY <1>1, <2>2 DEF IInv, TypeOK, Written
    <2>5. (motion.status \in Unlocked)' = FALSE
      BY <2>4 DEF Unlocked
    <2>6. Promise!Withdraw
      BY <1>1, <1>2, <2>3, <2>5 DEF Promise!Withdraw
    <2> QED
      BY <2>6 DEF Promise!Next
  <1> QED
    BY <1>3, <1>4

\* _export releases the newest version of an unlocked motion.
LEMMA ExportKeeps ==
    ASSUME IInv, IInv', NEW r \in Requests, Export(r)
    PROVE  Promise!Next
  <1>1. /\ UNCHANGED <<versions, reviews>> /\ Commit(r)
        /\ exports' = exports \cup {req[r].version}
        /\ motion' = [motion EXCEPT !.status = Written(req[r].status,
                                                       "exported", @)]
        /\ req[r].at = "version" /\ req[r].status \in Unlocked
    BY DEF Export, MayExport
  <1>2. ApprovedVersions' = ApprovedVersions
    BY <1>1 DEF ApprovedVersions
  <1>3. CASE overlapped'
    BY <1>1, <1>2, <1>3, OvertakenKeeps
  <1>4. CASE ~overlapped'
    <2>1. ~overlapped /\ ~req[r].stale /\ overlapped' \in BOOLEAN
      BY <1>1, <1>4, CommitFacts
    <2>2. req[r].status = motion.status /\ req[r].version = Len(versions)
      BY <1>1, <2>1, Loaded
    <2>3. overlapped' = overlapped
      BY <1>4, <2>1 DEF IInv, TypeOK
    <2>4. motion'.status = "exported"
      BY <1>1, <2>2 DEF IInv, TypeOK, Written
    <2>5. motion.status \in Unlocked /\ motion'.status \in Unlocked
      BY <1>1, <2>2, <2>4 DEF Unlocked
    <2>6. (motion.status \in Unlocked)' = (motion.status \in Unlocked)
      BY <2>5
    <2>7. Promise!Release
      BY <1>1, <1>2, <2>2, <2>3, <2>5, <2>6 DEF Promise!Release
    <2> QED
      BY <2>7 DEF Promise!Next
  <1> QED
    BY <1>3, <1>4

\* A check records its verdict, which the promise does not speak of.
LEMMA ChecksKeep ==
    ASSUME IInv, NEW r \in Requests,
           CheckMotionCitations(r) \/ CheckMotionEthics(r)
    PROVE  [Promise!Next]_Promise!vars
  <1>1. versions \in Seq(VersionRow) /\ UNCHANGED <<motion, reviews, exports>>
    BY DEF IInv, TypeOK, CheckMotionCitations, CheckMotionEthics
  <1>2. Len(versions') = Len(versions)
    BY <1>1 DEF CheckMotionCitations, CheckMotionEthics
  <1>3. CASE UNCHANGED overlapped
    BY <1>1, <1>2, <1>3, NoStep
  <1>4. CASE ~UNCHANGED overlapped
    <2>1. Commit(r)
      BY DEF CheckMotionCitations, CheckMotionEthics
    <2>2. overlapped' \in BOOLEAN /\ (~overlapped' => ~overlapped)
      BY <2>1, CommitFacts
    <2>3. overlapped'
      BY <1>4, <2>2 DEF IInv, TypeOK
    <2>4. IInv'
      BY CheckMotionCitationsPreserves, CheckMotionEthicsPreserves
    <2>5. ApprovedVersions' = ApprovedVersions
      BY <1>1 DEF ApprovedVersions
    <2> QED
      BY <1>1, <1>2, <2>3, <2>4, <2>5, OvertakenKeeps
  <1> QED
    BY <1>3, <1>4

\* Reading, refusing and what happens around the motion are no steps of the
\* promise.
LEMMA OthersKeep ==
    ASSUME \/ SourcesChange \/ AnalysisFails \/ UNCHANGED vars
           \/ \E r \in Requests :
                 \/ \E handler \in Handlers : GetMotion(r, handler)
                 \/ LatestVersion(r) \/ SelectPages(r)
                 \/ CreateMotionVersionCollides(r)
                 \/ CheckMotionCitationsFails(r)
                 \/ SubmitMotionReviewRefused(r)
                 \/ ReviewMotionRefused(r)
                 \/ ExportRefused(r)
    PROVE  UNCHANGED Promise!vars
  <1>1. UNCHANGED <<motion, versions, reviews, exports, overlapped>>
    BY DEF SourcesChange, AnalysisFails, vars, GetMotion, LatestVersion,
           SelectPages, CreateMotionVersionCollides,
           CheckMotionCitationsFails, SubmitMotionReviewRefused,
           ReviewMotionRefused, ExportRefused, RollBack
  <1> QED
    BY <1>1, NoStep

\* MotionLifecycle implements ApprovalPromise, for any requests, handlers,
\* decisions and bounds: requests that read, decide and commit in separate
\* steps approve, revise, withdraw and release in single ones, until one
\* commits over another one's commit (create_motion_version,
\* review_motion, submit_motion_review, _export).
THEOREM ImplementsPromise == Spec => KeepsPromise
  <1>1. IInv /\ IInv' /\ [Next]_vars => [Promise!Next]_Promise!vars
    <2> SUFFICES ASSUME IInv, IInv', [Next]_vars
                 PROVE  [Promise!Next]_Promise!vars
      OBVIOUS
    <2>1. CASE RunCaseAnalysis \/ CreateMotion
      BY <2>1, BeginningsKeep
    <2>2. ASSUME NEW r \in Requests,
                 \/ CreateMotionVersion(r) \/ ReviewMotion(r)
                 \/ SubmitMotionReview(r) \/ Export(r)
          PROVE  Promise!Next
      BY <2>2, CreateMotionVersionKeeps, ReviewMotionKeeps,
         SubmitMotionReviewKeeps, ExportKeeps
    <2>3. ASSUME NEW r \in Requests,
                 CheckMotionCitations(r) \/ CheckMotionEthics(r)
          PROVE  [Promise!Next]_Promise!vars
      BY <2>3, ChecksKeep
    <2>4. CASE \/ SourcesChange \/ AnalysisFails \/ UNCHANGED vars
               \/ \E r \in Requests :
                     \/ \E handler \in Handlers : GetMotion(r, handler)
                     \/ LatestVersion(r) \/ SelectPages(r)
                     \/ CreateMotionVersionCollides(r)
                     \/ CheckMotionCitationsFails(r)
                     \/ SubmitMotionReviewRefused(r)
                     \/ ReviewMotionRefused(r)
                     \/ ExportRefused(r)
      BY <2>4, OthersKeep
    <2> QED
      BY <2>1, <2>2, <2>3, <2>4 DEF Next
  <1> QED
    BY InitKeeps, Invariance, <1>1, PTL DEF Spec, KeepsPromise, Promise!Spec

-----------------------------------------------------------------------------
(* What may be concluded from the promise alone.                           *)

\* Before there is a motion nothing is approved or released; that is needed
\* because a motion may begin with an approval.
PromiseInv ==
    /\ Promise!ReleasedAreApproved
    /\ ~overlapped => /\ Len(versions) \in Nat
                      /\ Len(versions) = 0 => ApprovedVersions = {} /\ exports = {}

\* Whatever keeps the promise releases approved versions only.
THEOREM ReleasedApproved == Promise!Spec => []Promise!ReleasedAreApproved
  <1>1. Promise!Init => PromiseInv
    BY DEF Promise!Init, PromiseInv, Promise!ReleasedAreApproved
  <1>2. PromiseInv /\ [Promise!Next]_Promise!vars => PromiseInv'
    <2> SUFFICES ASSUME PromiseInv, [Promise!Next]_Promise!vars PROVE PromiseInv'
      OBVIOUS
    <2> USE DEF PromiseInv, Promise!ReleasedAreApproved
    <2>1. CASE Promise!Begin
      <3>1. CASE overlapped'
        BY <2>1, <3>1
      <3>2. CASE ~overlapped'
        <4>1. /\ ApprovedVersions = {} /\ exports' = {}
              /\ \/ /\ Len(versions') = 1 /\ ~(motion'.status \in Unlocked)
                    /\ ApprovedVersions' = {}
                 \/ Len(versions') = 2 /\ ApprovedVersions' = {2}
          <5>1. ~overlapped
            BY <2>1, <3>2 DEF Promise!Begin
          <5>2. ApprovedVersions = {} /\ exports = {} /\ exports' = exports
            BY <2>1, <5>1 DEF Promise!Begin
          <5>3. \/ /\ Len(versions') = 1 /\ ~(motion'.status \in Unlocked)
                   /\ ApprovedVersions' = ApprovedVersions
                \/ Len(versions') = 2 /\ ApprovedVersions' = {2}
            BY <2>1, Zenon DEF Promise!Begin, Unlocked
          <5> QED
            BY <5>2, <5>3
        <4>2. Len(versions') \in Nat /\ (Len(versions') = 0 => ApprovedVersions' = {})
          BY <4>1
        <4>3. motion'.status \in Unlocked => Len(versions') \in ApprovedVersions'
          BY <4>1
        <4>4. Promise!ReleasedAreApproved'
          BY <4>1, <4>3 DEF Unlocked
        <4> QED
          BY <4>1, <4>2, <4>4
      <3> QED
        BY <3>1, <3>2
    <2>2. CASE Promise!Revise
      BY <2>2 DEF Promise!Revise
    <2>3. CASE Promise!Approve
      BY <2>3 DEF Promise!Approve
    <2>4. CASE Promise!Withdraw
      BY <2>4 DEF Promise!Withdraw
    <2>5. CASE Promise!Release
      BY <2>5 DEF Promise!Release
    <2>6. CASE Promise!Overtaken
      BY <2>6 DEF Promise!Overtaken
    <2>7. CASE UNCHANGED Promise!vars
      BY <2>7 DEF Promise!vars
    <2> QED
      BY <2>1, <2>2, <2>3, <2>4, <2>5, <2>6, <2>7 DEF Promise!Next
  <1>3. PromiseInv => Promise!ReleasedAreApproved
    BY DEF PromiseInv
  <1> QED
    BY <1>1, <1>2, <1>3, PTL DEF Promise!Spec

\* Until a request commits over another one's commit, what may be exported is
\* approved and so is everything that has been: the promise implies it, and
\* the routes keep the promise (review_motion, _export).
THEOREM RoutesReleaseApproved == Spec => []Promise!ReleasedAreApproved
  BY ImplementsPromise, ReleasedApproved, PTL DEF KeepsPromise
=============================================================================
