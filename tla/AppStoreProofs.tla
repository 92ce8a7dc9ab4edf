--------------------------- MODULE AppStoreProofs ---------------------------
(***************************************************************************)
(* Proofs about AppStore: approvals of the mock mode, and what the answers *)
(* of the http mode leave of the lists, for any cases, documents,          *)
(* arguments, strategies, texts and calls.                                 *)
(***************************************************************************)
EXTENDS AppStore, TLAPS

USE GateAssumption, StoreAssumption

\* A record that lists no document twice.
Good(r) == /\ r \in Record
           /\ \A d \in Documents : r.documents[d] <= 1

\* An approval holds what the gate asks for.
Justified(r) == r.approval # 0 => ExportUnlocked(r)

\* In mock mode there are no calls, so that only the operations on the page
\* change a record; the approvals of cases that are not shown matter as well,
\* since updateCase leaves them alone.
IInv ==
    /\ TypeOK
    /\ ListsAgree
    /\ mode = "mock" => /\ \A i \in Calls : call[i].at = "idle"
                        /\ \A c \in Cases : Justified(record[c])

-----------------------------------------------------------------------------
(* Records.                                                                *)

LEMMA Versions ==
    /\ 0 \in 0 .. MaxVersions /\ 1 \in 0 .. MaxVersions
    /\ \A n \in 0 .. MaxVersions : n < MaxVersions => n + 1 \in 0 .. MaxVersions
  OBVIOUS

LEMMA EmptyRecordGood == Good(EmptyRecord) /\ Justified(EmptyRecord)
  BY DEF Good, Record, EmptyRecord, Statuses, Justified

\* A record with a saved text.
WithText(r, text, n) == [r EXCEPT !.motion = text, !.saved = text, !.version = n]

LEMMA WithTextTyped ==
    ASSUME NEW r \in Record, NEW text \in Bodies, NEW n \in 0 .. MaxVersions
    PROVE  WithText(r, text, n) \in Record
  <1>1. [r EXCEPT !.motion = text] \in Record
    BY DEF Record
  <1>2. [[r EXCEPT !.motion = text] EXCEPT !.saved = text] \in Record
    BY <1>1 DEF Record
  <1> DEFINE q == [[r EXCEPT !.motion = text] EXCEPT !.saved = text]
  <1>3. [q EXCEPT !.version = n] \in Record
    <2>1. q \in Record
      BY <1>2
    <2> HIDE DEF q
    <2> QED
      BY <2>1 DEF Record
  <1>4. WithText(r, text, n) = [q EXCEPT !.version = n]
    BY DEF WithText
  <1> QED
    BY <1>3, <1>4

LEMMA SeedRecordGood == Good(SeedRecord(Seed)) /\ Justified(SeedRecord(Seed))
  <1> DEFINE e == [a \in Arguments |->
                     IF a = RequiredArgument THEN "pending" ELSE "approved"]
             t == [s \in Strategies |->
                     IF s = StrategyOf[RequiredArgument] THEN "pending"
                     ELSE "approved"]
  <1>1. e \in [Arguments -> Statuses] /\ t \in [Strategies -> Statuses]
    BY DEF Statuses
  <1>2. SeedRecord(Seed) = [EmptyRecord EXCEPT
                              !.ethics = e, !.stance = t, !.included = Verified,
                              !.cited = TRUE, !.motion = Seed, !.saved = Seed,
                              !.version = 1]
    BY DEF SeedRecord
  <1> HIDE DEF e, t
  <1>3. Good(SeedRecord(Seed)) /\ SeedRecord(Seed).approval = 0
    <2>1. SeedRecord(Seed) \in Record
      <3> DEFINE r1 == [EmptyRecord EXCEPT !.ethics = e, !.stance = t]
                 r2 == [r1 EXCEPT !.included = Verified, !.cited = TRUE]
      <3>1. r1 \in Record
        BY <1>1, EmptyRecordGood DEF Good, Record
      <3>2. r2 \in Record
        <4> HIDE DEF r1
        <4> QED
          BY <3>1 DEF Record
      <3>3. SeedRecord(Seed) = WithText(r2, Seed, 1)
        BY <1>2 DEF WithText
      <3>4. Seed \in Bodies
        OBVIOUS
      <3> QED
        BY <3>2, <3>3, <3>4, Versions, WithTextTyped
    <2> QED
      BY <1>2, <2>1, EmptyRecordGood DEF Good, EmptyRecord
  <1> QED
    BY <1>3 DEF Justified

\* The gate does not read the documents and the workflow.
LEMMA GateIgnores ==
    ASSUME NEW r \in Record, NEW q \in Record, Justified(r),
           q.ethics = r.ethics, q.stance = r.stance, q.included = r.included,
           q.cited = r.cited, q.motion = r.motion, q.saved = r.saved,
           q.version = r.version, q.approval = r.approval,
           q.fixture = r.fixture
    PROVE  Justified(q)
  <1>1. Approvable(q) = Approvable(r)
    BY DEF Approvable, MotionExists, SavedMotionMatches,
           AllCitationChecksPass, EthicsRejectionApplied,
           EthicsReviewResolved, UnsafeStrategyExcluded,
           RejectedArgumentAbsent, Argued, RejectedOnes
  <1> QED
    BY <1>1 DEF Justified, ExportUnlocked, ApprovalMatchesCurrent

\* setStrategyIncluded includes what the gate allows, or leaves one out.
LEMMA WithStrategyGood ==
    ASSUME NEW r, Good(r), NEW s \in Strategies, NEW include \in BOOLEAN
    PROVE  /\ Good(WithStrategy(r, s, include))
           /\ Justified(r) => Justified(WithStrategy(r, s, include))
  <1> DEFINE q == WithStrategy(r, s, include)
  <1>1. Good(q)
    BY DEF Good, Record, WithStrategy
  <1>2. ASSUME Justified(r), q.approval # 0 PROVE ExportUnlocked(q)
    <2>1. /\ q.ethics = r.ethics /\ q.stance = r.stance /\ q.cited = r.cited
          /\ q.motion = r.motion /\ q.saved = r.saved
          /\ q.version = r.version /\ q.approval = r.approval
          /\ q.fixture = r.fixture
          /\ \A x \in q.included : x \in r.included \/ (x \in Verified /\ r.stance[x] = "approved")
      BY DEF WithStrategy, Good, Record
    <2>2. ExportUnlocked(r)
      BY <1>2, <2>1 DEF Justified
    <2>3. UnsafeStrategyExcluded(q)
      BY <2>1, <2>2 DEF ExportUnlocked, Approvable, UnsafeStrategyExcluded
    <2>4. Approvable(q)
      BY <2>1, <2>2, <2>3
         DEF ExportUnlocked, Approvable, MotionExists, SavedMotionMatches,
             AllCitationChecksPass, EthicsRejectionApplied,
             EthicsReviewResolved, RejectedArgumentAbsent, Argued,
             RejectedOnes
    <2> QED
      BY <2>1, <2>2, <2>4 DEF ExportUnlocked, ApprovalMatchesCurrent
  <1> QED
    BY <1>1, <1>2 DEF Justified

\* reviewEthicsArgument and saveMotion withdraw an approval.
LEMMA WithdrawnGood ==
    ASSUME NEW r, Good(r)
    PROVE  Good(Withdrawn(r)) /\ Withdrawn(r).approval = 0
           /\ Withdrawn(r).version = r.version
           /\ Withdrawn(r).fixture = r.fixture
  <1>1. "revision" \in Statuses
    BY DEF Statuses
  <1>2. CASE r.approval = 0
    BY <1>2 DEF Withdrawn
  <1>3. CASE r.approval # 0
    <2>1. Withdrawn(r) = [r EXCEPT !.approval = 0, !.review = "revision"]
      BY <1>3 DEF Withdrawn
    <2>2. Withdrawn(r) \in Record
      BY <1>1, <2>1, Versions DEF Good, Record
    <2> QED
      BY <2>1, <2>2 DEF Good, Record
  <1> QED
    BY <1>2, <1>3

LEMMA ReviewedGood ==
    ASSUME NEW r, Good(r), NEW a \in Arguments, NEW status \in Statuses
    PROVE  Good(Reviewed(r, a, status)) /\ Justified(Reviewed(r, a, status))
  <1> DEFINE judged == [Withdrawn(r) EXCEPT !.ethics[a] = status]
  <1>1. Good(judged) /\ judged.approval = 0
    BY WithdrawnGood DEF Good, Record
  <1>2. Good(Followed(judged, a, status)) /\ Followed(judged, a, status).approval = 0
    <2> HIDE DEF judged
    <2> QED
      BY <1>1 DEF Good, Record, Followed
  <1> QED
    BY <1>1, <1>2 DEF Reviewed, Justified

LEMMA SavedGood ==
    ASSUME NEW r, Good(r), r.version < MaxVersions, NEW text \in Bodies
    PROVE  Good(Saved(r, text)) /\ Justified(Saved(r, text))
  <1> DEFINE w == Withdrawn(r)
  <1>1. Good(w) /\ w.approval = 0 /\ w.version < MaxVersions
    BY WithdrawnGood
  <1>2. Saved(r, text) = [w EXCEPT !.motion = text, !.saved = text,
                                   !.version = @ + 1]
    BY DEF Saved
  <1> HIDE DEF w
  <1>3. w.version + 1 \in 0 .. MaxVersions
    BY <1>1, Versions DEF Good, Record
  <1>4. Saved(r, text) \in Record
    <2>1. w \in Record
      BY <1>1 DEF Good
    <2>2. WithText(w, text, w.version + 1) \in Record
      BY <1>3, <2>1, WithTextTyped
    <2> QED
      BY <1>2, <2>2 DEF WithText
  <1> QED
    BY <1>1, <1>2, <1>4 DEF Good, Record, Justified

\* approveMotion needs what the gate needs.
LEMMA ApprovedGood ==
    ASSUME NEW r, Good(r), Approvable(r)
    PROVE  Good(Approved(r)) /\ Justified(Approved(r))
  <1> DEFINE q == Approved(r)
  <1>1. Good(q)
    BY DEF Good, Record, Approved, Statuses
  <1>2. /\ q.ethics = r.ethics /\ q.stance = r.stance /\ q.cited = r.cited
        /\ q.motion = r.motion /\ q.saved = r.saved /\ q.fixture = r.fixture
        /\ q.version = r.version /\ q.approval = r.version
        /\ q.included = r.included
    BY DEF Good, Record, Approved
  <1>3. Approvable(q)
    BY <1>2 DEF Approvable, MotionExists, SavedMotionMatches,
           AllCitationChecksPass, EthicsRejectionApplied,
           EthicsReviewResolved, UnsafeStrategyExcluded,
           RejectedArgumentAbsent, Argued, RejectedOnes
  <1> QED
    BY <1>1, <1>2, <1>3 DEF Justified, ExportUnlocked, ApprovalMatchesCurrent

-----------------------------------------------------------------------------
(* One record changes; everything else stays.                              *)

\* Every analysis there may be of a case.
LEMMA AnalysesTyped ==
    /\ Unanalysed \in Analysis /\ WithResults \in Analysis
    /\ Completions \subseteq Analysis /\ Failures \subseteq Analysis
  <1>1. \A run \in {"none", "completed", "failed"}, found, approved \in BOOLEAN,
           version \in 0 .. MaxVersions : Ended(run, found, version, approved) \in Analysis
    BY DEF Ended, Analysis
  <1>2. 0 \in 0 .. MaxVersions /\ 2 \in 0 .. MaxVersions
    OBVIOUS
  <1> QED
    BY <1>1, <1>2 DEF Unanalysed, WithResults, Completions, Failures

\* An edit and a review keep the type.
LEMMA EditedTyped ==
    ASSUME NEW a \in Analysis, a.version \in 1 .. MaxVersions - 1
    PROVE  Edited(a) \in Analysis
  <1>1. a.version + 1 \in 0 .. MaxVersions
    BY DEF Analysis
  <1>2. \A n \in 0 .. MaxVersions : [a EXCEPT !.version = n, !.revise = FALSE] \in Analysis
    BY DEF Analysis
  <1> QED
    BY <1>1, <1>2 DEF Edited

LEMMA JudgedTyped ==
    ASSUME NEW a \in Analysis, NEW decision
    PROVE  Judged(a, decision) \in Analysis
  <1>1. ASSUME NEW yes \in BOOLEAN, NEW ask \in BOOLEAN
        PROVE  [a EXCEPT !.approved = yes, !.revise = ask] \in Analysis
    BY <1>1 DEF Analysis
  <1>2. Judged(a, decision) = [a EXCEPT !.approved = (a.approved \/ decision = "approved"),
                                        !.revise = (decision = "changes_requested")]
    BY DEF Judged
  <1>3. /\ (a.approved \/ decision = "approved") \in BOOLEAN
        /\ (decision = "changes_requested") \in BOOLEAN
    OBVIOUS
  <1> QED
    BY <1>1, <1>2, <1>3

LEMMA OutcomesTyped ==
    ASSUME server \in Server, NEW c \in Cases, NEW ends \in SUBSET Analysis
    PROVE  Outcomes(c, ends) \subseteq Analysis
  BY DEF Outcomes, Server

LEMMA FirstServerTyped == FirstServer \in Server
  <1>1. Demo \in Cases /\ 0 \in 0 .. MaxChanges
    OBVIOUS
  <1> QED
    BY <1>1, AnalysesTyped DEF FirstServer, Server

LEMMA IdleTyped == Idle \in Call
  BY FirstServerTyped DEF Idle, Call

\* updateCase keeps the records good.
LEMMA UpdateKeepsRecords ==
    ASSUME IInv, NEW c \in Cases, NEW r, Good(r), UpdateCase(c, r)
    PROVE  /\ record' \in [Cases -> Record]
           /\ \A o \in Cases : record'[o] \in {record[o], r}
           /\ \A o \in Cases, d \in Documents : record'[o].documents[d] <= 1
  <1>1. /\ record \in [Cases -> Record] /\ r \in Record
        /\ \A o \in Cases, d \in Documents : record[o].documents[d] <= 1
        /\ \A d \in Documents : r.documents[d] <= 1
    BY DEF IInv, TypeOK, ListsAgree, Good
  <1>2. /\ record' \in [Cases -> Record]
        /\ \A o \in Cases : record'[o] \in {record[o], r}
    BY <1>1 DEF UpdateCase
  <1> QED
    BY <1>1, <1>2

LEMMA RecordGood ==
    ASSUME IInv, NEW c \in Cases
    PROVE  /\ Good(record[c]) /\ record[c] \in Record
           /\ mode = "mock" => Justified(record[c])
  BY DEF IInv, TypeOK, ListsAgree, Good

\* An operation of the page on one case.
LEMMA OneRecord ==
    ASSUME IInv, NEW c \in Cases, NEW r, Good(r),
           mode = "mock" => Justified(r),
           UpdateCase(c, r),
           UNCHANGED <<mode, listed, selected, events, server, call>>
    PROVE  IInv'
  <1>1. /\ record' \in [Cases -> Record]
        /\ \A o \in Cases : record'[o] \in {record[o], r}
        /\ \A o \in Cases, d \in Documents : record'[o].documents[d] <= 1
    BY UpdateKeepsRecords
  <1>2. TypeOK'
    BY <1>1 DEF IInv, TypeOK
  <1>3. ListsAgree'
    BY <1>1 DEF IInv, ListsAgree, Shown
  <1>4. mode' = "mock" => /\ \A i \in Calls : call'[i].at = "idle"
                          /\ \A o \in Cases : Justified(record'[o])
    BY <1>1 DEF IInv
  <1> QED
    BY <1>2, <1>3, <1>4 DEF IInv

\* The initial state.
LEMMA InitIInv == Init => IInv
  <1> SUFFICES ASSUME Init PROVE IInv
    OBVIOUS
  <1> USE DEF Init
  <1>1. /\ Demo \in Cases /\ selected \in Cases \cup {NoCase}
        /\ listed \in [Cases -> Nat]
    BY DEF OnlySeed, SeedId
  <1>2. record \in [Cases -> Record] /\ \A c \in Cases : Good(record[c]) /\ Justified(record[c])
    BY EmptyRecordGood, SeedRecordGood DEF Good
  <1>3. TypeOK
    BY <1>1, <1>2, FirstServerTyped, IdleTyped DEF TypeOK
  <1>4. selected \in Shown \cup {NoCase}
    BY <1>1 DEF Shown, SeedId, OnlySeed
  <1>5. ListsAgree
    BY <1>2, <1>4 DEF ListsAgree, Good
  <1>6. \A i \in Calls : call[i].at = "idle"
    BY DEF Idle
  <1> QED
    BY <1>2, <1>3, <1>5, <1>6 DEF IInv

-----------------------------------------------------------------------------
(* The operations on the page.                                             *)

LEMMA Typed ==
    ASSUME IInv
    PROVE  /\ server \in Server /\ call \in [Calls -> Call]
           /\ record \in [Cases -> Record] /\ listed \in [Cases -> Nat]
           /\ events \subseteq 1 .. MaxEvents /\ selected \in Cases \cup {NoCase}
           /\ mode \in {"mock", "http"}
           /\ \A i \in Calls : call[i].at # "idle" => mode # "mock"
  BY DEF IInv, TypeOK

LEMMA OnThePageKeeps ==
    ASSUME IInv, NEW c \in Busy, OnThePage(c)
    PROVE  IInv'
  <1>1. c \in Cases /\ Good(record[c]) /\ (mode = "mock" => Justified(record[c]))
    BY RecordGood
  <1>2. ASSUME NEW s \in Strategies, NEW include \in BOOLEAN,
               SetStrategyIncluded(c, s, include)
        PROVE  IInv'
    <2> DEFINE q == WithStrategy(record[c], s, include)
    <2>1. Good(q) /\ (mode = "mock" => Justified(q))
      BY <1>1, WithStrategyGood
    <2>2. UpdateCase(c, q) /\ UNCHANGED <<mode, listed, selected, events, server, call>>
      BY <1>2 DEF SetStrategyIncluded, Locally
    <2> HIDE DEF q
    <2> QED
      BY <1>1, <2>1, <2>2, OneRecord
  <1>3. ASSUME NEW a \in Arguments, NEW status \in {"approved", "rejected", "revision"},
               ReviewEthicsArgument(c, a, status)
        PROVE  IInv'
    <2> DEFINE q == Reviewed(record[c], a, status)
    <2>1. status \in Statuses
      BY DEF Statuses
    <2>2. Good(q) /\ Justified(q)
      BY <1>1, <2>1, ReviewedGood
    <2>3. UpdateCase(c, q) /\ UNCHANGED <<mode, listed, selected, events, server, call>>
      BY <1>3 DEF ReviewEthicsArgument, Locally
    <2> HIDE DEF q
    <2> QED
      BY <1>1, <2>2, <2>3, OneRecord
  <1>4. \A decision \in Decisions[mode] :
           /\ decision[1] \in Arguments
           /\ decision[2] \in {"approved", "rejected", "revision"}
    BY Typed
  <1> QED
    BY <1>2, <1>3, <1>4 DEF OnThePage

-----------------------------------------------------------------------------
(* The operations of the mock mode.                                        *)

\* Documents and the workflow are nothing the gate reads.
LEMMA DocumentsGood ==
    ASSUME NEW r, Good(r), NEW d \in Documents, NEW n \in 0 .. 1,
           NEW ready \in SUBSET Documents
    PROVE  LET q == [r EXCEPT !.documents[d] = n, !.processed = ready] IN
           Good(q) /\ (Justified(r) => Justified(q))
  <1> DEFINE docs == [r.documents EXCEPT ![d] = n]
             q    == [r EXCEPT !.documents = docs, !.processed = ready]
  <1>1. docs \in [Documents -> Nat] /\ \A x \in Documents : docs[x] <= 1
    BY DEF Good, Record
  <1> HIDE DEF docs
  <1>2. Good(q)
    BY <1>1 DEF Good, Record
  <1>3. Justified(r) => Justified(q)
    <2>1. /\ q.ethics = r.ethics /\ q.stance = r.stance
          /\ q.included = r.included /\ q.cited = r.cited
          /\ q.motion = r.motion /\ q.saved = r.saved
          /\ q.version = r.version /\ q.approval = r.approval
          /\ q.fixture = r.fixture
      BY DEF Good, Record
    <2> HIDE DEF q
    <2> QED
      BY <1>2, <2>1, GateIgnores DEF Good
  <1>4. [r EXCEPT !.documents[d] = n, !.processed = ready] = q
    BY DEF docs, Good, Record
  <1> QED
    BY <1>2, <1>3, <1>4

LEMMA WorkflowGood ==
    ASSUME NEW r, Good(r),
           NEW w \in [status: {"idle", "running", "paused", "completed"},
                      index: 0 .. Agents - 1]
    PROVE  LET q == [r EXCEPT !.workflow = w] IN
           Good(q) /\ (Justified(r) => Justified(q))
  <1> DEFINE q == [r EXCEPT !.workflow = w]
  <1>1. Good(q)
    BY DEF Good, Record
  <1>2. /\ q.ethics = r.ethics /\ q.stance = r.stance
        /\ q.included = r.included /\ q.cited = r.cited
        /\ q.motion = r.motion /\ q.saved = r.saved
        /\ q.version = r.version /\ q.approval = r.approval
        /\ q.fixture = r.fixture
    BY DEF Good, Record
  <1>3. Justified(r) => Justified(q)
    <2> HIDE DEF q
    <2> QED
      BY <1>1, <1>2, GateIgnores DEF Good
  <1> QED
    BY <1>1, <1>3

LEMMA ProcessedGood ==
    ASSUME NEW r, Good(r), NEW ready \in SUBSET Documents
    PROVE  LET q == [r EXCEPT !.processed = ready] IN
           Good(q) /\ (Justified(r) => Justified(q))
  <1> DEFINE q == [r EXCEPT !.processed = ready]
  <1>1. Good(q)
    BY DEF Good, Record
  <1>2. /\ q.ethics = r.ethics /\ q.stance = r.stance
        /\ q.included = r.included /\ q.cited = r.cited
        /\ q.motion = r.motion /\ q.saved = r.saved
        /\ q.version = r.version /\ q.approval = r.approval
        /\ q.fixture = r.fixture
    BY DEF Good, Record
  <1>3. Justified(r) => Justified(q)
    <2> HIDE DEF q
    <2> QED
      BY <1>1, <1>2, GateIgnores DEF Good
  <1> QED
    BY <1>1, <1>3

LEMMA MockDocumentsKeep ==
    ASSUME IInv, NEW c \in Busy,
           \/ ProcessDocuments(c)
           \/ \E d \in Documents :
                 AddDocument(c, d) \/ RegisterDocument(c, d) \/ DeleteDocument(c, d)
    PROVE  IInv'
  <1> DEFINE r == record[c]
  <1>1. c \in Cases /\ Good(r) /\ (mode = "mock" => Justified(r))
    BY RecordGood
  <1>2. r.processed \in SUBSET Documents
    BY <1>1 DEF Good, Record
  <1>3. CASE ProcessDocuments(c)
    <2> DEFINE ready == {d \in Documents : r.documents[d] > 0}
               q     == [r EXCEPT !.processed = ready]
    <2>1. UpdateCase(c, q) /\ UNCHANGED <<mode, listed, selected, events, server, call>>
      BY <1>3 DEF ProcessDocuments, Mocked, Locally
    <2>2. Good(q) /\ (Justified(r) => Justified(q))
      <3>1. ready \in SUBSET Documents
        OBVIOUS
      <3> HIDE DEF ready, r
      <3> QED
        BY <1>1, <3>1, ProcessedGood
    <2> HIDE DEF q
    <2> QED
      BY <1>1, <2>1, <2>2, OneRecord
  <1>4. ASSUME NEW d \in Documents,
               AddDocument(c, d) \/ RegisterDocument(c, d) \/ DeleteDocument(c, d)
        PROVE  IInv'
    <2>1. ASSUME NEW n \in 0 .. 1, NEW ready \in SUBSET Documents,
                 UpdateCase(c, [r EXCEPT !.documents[d] = n, !.processed = ready])
          PROVE  IInv'
      <3> DEFINE q == [r EXCEPT !.documents[d] = n, !.processed = ready]
      <3>1. Good(q) /\ (Justified(r) => Justified(q))
        <4> HIDE DEF r
        <4> QED
          BY <1>1, DocumentsGood
      <3>2. UpdateCase(c, q)
        BY <2>1
      <3>3. UNCHANGED <<mode, listed, selected, events, server, call>>
        BY <1>4 DEF AddDocument, RegisterDocument, DeleteDocument, Mocked, Locally
      <3> HIDE DEF q
      <3> QED
        BY <1>1, <3>1, <3>2, <3>3, OneRecord
    <2>2. 0 \in 0 .. 1 /\ 1 \in 0 .. 1
      OBVIOUS
    <2>3. CASE AddDocument(c, d)
      <3>1. [r EXCEPT !.documents[d] = 1]
            = [r EXCEPT !.documents[d] = 1, !.processed = r.processed]
        <4> HIDE DEF r
        <4> QED
          BY <1>1 DEF Good, Record
      <3>2. UpdateCase(c, [r EXCEPT !.documents[d] = 1, !.processed = r.processed])
        BY <2>3, <3>1 DEF AddDocument
      <3> QED
        BY <1>2, <2>1, <2>2, <3>2
    <2>4. CASE RegisterDocument(c, d)
      <3>1. /\ UpdateCase(c, [r EXCEPT !.documents[d] = 1,
                                       !.processed = r.processed \cup {d}])
            /\ r.processed \cup {d} \in SUBSET Documents
        BY <1>2, <2>4 DEF RegisterDocument
      <3> QED
        BY <2>1, <2>2, <3>1
    <2>5. CASE DeleteDocument(c, d)
      <3>1. /\ UpdateCase(c, [r EXCEPT !.documents[d] = 0,
                                       !.processed = r.processed \ {d}])
            /\ r.processed \ {d} \in SUBSET Documents
        BY <1>2, <2>5 DEF DeleteDocument
      <3> QED
        BY <2>1, <2>2, <3>1
    <2> QED
      BY <1>4, <2>3, <2>4, <2>5
  <1> QED
    BY <1>3, <1>4

LEMMA MockWorkflowKeeps ==
    ASSUME IInv, NEW c \in Busy,
           \/ \E from, to \in {"idle", "running", "paused"} : MoveWorkflow(c, from, to)
           \/ AdvanceWorkflow(c) \/ ResetWorkflow(c)
    PROVE  IInv'
  <1> DEFINE r == record[c]
             Workflow == [status: {"idle", "running", "paused", "completed"},
                          index: 0 .. Agents - 1]
  <1>1. c \in Cases /\ Good(r) /\ (mode = "mock" => Justified(r))
    BY RecordGood
  <1>2. r.workflow \in Workflow
    BY <1>1 DEF Good, Record
  <1>3. PICK w \in Workflow :
           /\ UpdateCase(c, [r EXCEPT !.workflow = w])
           /\ UNCHANGED <<mode, listed, selected, events, server, call>>
    <2>1. ASSUME NEW from \in {"idle", "running", "paused"},
                 NEW to \in {"idle", "running", "paused"}, MoveWorkflow(c, from, to)
          PROVE  \E w \in Workflow :
                    /\ UpdateCase(c, [r EXCEPT !.workflow = w])
                    /\ UNCHANGED <<mode, listed, selected, events, server, call>>
      <3> DEFINE w == [r.workflow EXCEPT !.status = to]
      <3>1. w \in Workflow
        BY <1>2
      <3>2. [r EXCEPT !.workflow.status = to] = [r EXCEPT !.workflow = w]
        OBVIOUS
      <3> QED
        BY <2>1, <3>1, <3>2 DEF MoveWorkflow, Mocked, Locally
    <2>2. ASSUME AdvanceWorkflow(c)
          PROVE  \E w \in Workflow :
                    /\ UpdateCase(c, [r EXCEPT !.workflow = w])
                    /\ UNCHANGED <<mode, listed, selected, events, server, call>>
      <3> DEFINE w == IF r.workflow.index = Agents - 1
                      THEN [r.workflow EXCEPT !.status = "completed"]
                      ELSE [r.workflow EXCEPT !.index = r.workflow.index + 1]
      <3>1. w \in Workflow
        BY <1>2
      <3>2. /\ UpdateCase(c, [r EXCEPT !.workflow = w])
            /\ UNCHANGED <<mode, listed, selected, events, server, call>>
        BY <2>2 DEF AdvanceWorkflow, Mocked, Locally
      <3> QED
        BY <3>1, <3>2
    <2>3. ASSUME ResetWorkflow(c)
          PROVE  \E w \in Workflow :
                    /\ UpdateCase(c, [r EXCEPT !.workflow = w])
                    /\ UNCHANGED <<mode, listed, selected, events, server, call>>
      <3>1. EmptyRecord.workflow \in Workflow
        BY DEF EmptyRecord
      <3> QED
        BY <2>3, <3>1 DEF ResetWorkflow, Mocked, Locally
    <2> QED
      BY <2>1, <2>2, <2>3
  <1> DEFINE q == [r EXCEPT !.workflow = w]
  <1>4. Good(q) /\ (Justified(r) => Justified(q))
    <2> HIDE DEF r
    <2> QED
      BY <1>1, WorkflowGood
  <1>5. UpdateCase(c, q)
    BY <1>3
  <1> HIDE DEF q
  <1> QED
    BY <1>1, <1>3, <1>4, <1>5, OneRecord

LEMMA MockMotionKeeps ==
    ASSUME IInv, NEW c \in Busy,
           (\E text \in Bodies : SaveMotion(c, text)) \/ ApproveMotion(c)
    PROVE  IInv'
  <1> DEFINE r == record[c]
  <1>1. c \in Cases /\ Good(r)
    BY RecordGood
  <1>2. ASSUME NEW text \in Bodies, SaveMotion(c, text) PROVE IInv'
    <2> DEFINE q == Saved(r, text)
    <2>1. Good(q) /\ Justified(q)
      BY <1>1, <1>2, SavedGood DEF SaveMotion
    <2>2. UpdateCase(c, q) /\ UNCHANGED <<mode, listed, selected, events, server, call>>
      BY <1>2 DEF SaveMotion, Mocked, Locally
    <2> HIDE DEF q
    <2> QED
      BY <1>1, <2>1, <2>2, OneRecord
  <1>3. ASSUME ApproveMotion(c) PROVE IInv'
    <2> DEFINE q == Approved(r)
    <2>1. Good(q) /\ Justified(q)
      BY <1>1, <1>3, ApprovedGood DEF ApproveMotion
    <2>2. UpdateCase(c, q) /\ UNCHANGED <<mode, listed, selected, events, server, call>>
      BY <1>3 DEF ApproveMotion, Mocked, Locally
    <2> HIDE DEF q
    <2> QED
      BY <1>1, <2>1, <2>2, OneRecord
  <1> QED
    BY <1>2, <1>3

-----------------------------------------------------------------------------
(* The list of cases.                                                      *)

LEMMA SelectCaseKeeps ==
    ASSUME IInv, NEW c \in Cases, SelectCase(c)
    PROVE  IInv'
  <1>1. TypeOK'
    BY DEF IInv, TypeOK, SelectCase
  <1>2. ListsAgree'
    BY DEF IInv, ListsAgree, SelectCase, Shown
  <1> QED
    BY <1>1, <1>2 DEF IInv, SelectCase

LEMMA CreateCaseKeeps ==
    ASSUME IInv, NEW c \in Cases, CreateCase(c)
    PROVE  IInv'
  <1>1. /\ listed \in [Cases -> Nat] /\ record \in [Cases -> Record]
        /\ listed' \in [Cases -> Nat] /\ listed'[c] > 0
        /\ record' = [record EXCEPT ![c] = EmptyRecord] /\ selected' = c
        /\ UNCHANGED <<mode, events, server, call>>
    BY DEF IInv, TypeOK, CreateCase
  <1>2. record' \in [Cases -> Record] /\ \A o \in Cases : record'[o] \in {record[o], EmptyRecord}
    BY <1>1, EmptyRecordGood DEF Good
  <1>3. TypeOK'
    BY <1>1, <1>2 DEF IInv, TypeOK
  <1>4. ListsAgree'
    BY <1>1, <1>2, EmptyRecordGood DEF IInv, ListsAgree, Shown, Good
  <1>5. mode' = "mock" => /\ \A i \in Calls : call'[i].at = "idle"
                          /\ \A o \in Cases : Justified(record'[o])
    BY <1>1, <1>2, EmptyRecordGood DEF IInv
  <1> QED
    BY <1>3, <1>4, <1>5 DEF IInv

LEMMA ResetDemoKeeps ==
    ASSUME IInv, ResetDemo
    PROVE  IInv'
  <1> DEFINE kept == mode = "http" /\ Demo \in Shown
             seeded == SeedRecord(Seed)
             r == IF kept THEN [seeded EXCEPT !.documents = record[Demo].documents,
                                              !.processed = record[Demo].processed]
                  ELSE seeded
  <1>1. /\ Good(record[Demo]) /\ Demo \in Cases
        /\ Good(seeded) /\ Justified(seeded)
    BY RecordGood, SeedRecordGood
  <1>2. Good(r) /\ (mode = "mock" => Justified(r))
    <2> HIDE DEF seeded
    <2> QED
      BY <1>1 DEF Good, Record
  <1>3. record' = [record EXCEPT ![Demo] = r] /\ UNCHANGED <<mode, server, call>>
    BY DEF ResetDemo
  <1> HIDE DEF r
  <1>4. record \in [Cases -> Record] /\ listed \in [Cases -> Nat]
        /\ OnlySeed \in [Cases -> Nat] /\ selected \in Cases \cup {NoCase}
    BY DEF IInv, TypeOK, OnlySeed
  <1>5. record' \in [Cases -> Record] /\ \A o \in Cases : record'[o] \in {record[o], r}
    BY <1>1, <1>2, <1>3, <1>4 DEF Good
  <1>6. /\ listed' \in [Cases -> Nat] /\ selected' \in Cases \cup {NoCase}
        /\ events' \in {events, {}}
    BY <1>1, <1>4 DEF ResetDemo, SeedId
  <1>7. TypeOK'
    BY <1>3, <1>5, <1>6 DEF IInv, TypeOK
  <1>8. selected' \in Shown' \cup {NoCase}
    <2>1. CASE kept
      BY <2>1 DEF ResetDemo, Shown
    <2>2. CASE ~kept
      <3>1. listed' = OnlySeed /\ selected' = SeedId
        BY <2>2 DEF ResetDemo
      <3> QED
        BY <1>1, <3>1 DEF Shown, OnlySeed, SeedId
    <2> QED
      BY <2>1, <2>2
  <1>9. \A c \in Cases : \A d \in Documents : record'[c].documents[d] <= 1
    BY <1>2, <1>5 DEF IInv, ListsAgree, Good
  <1>10. mode' = "mock" => /\ \A i \in Calls : call'[i].at = "idle"
                           /\ \A o \in Cases : Justified(record'[o])
    BY <1>2, <1>3, <1>5 DEF IInv
  <1> QED
    BY <1>7, <1>8, <1>9, <1>10 DEF IInv, ListsAgree

-----------------------------------------------------------------------------
(* The calls of the http mode.                                             *)

\* A step of a call that leaves what the store holds alone.
LEMMA CallStep ==
    ASSUME IInv, UNCHANGED <<mode, listed, record, selected, events>>,
           server' \in Server, call' \in [Calls -> Call], mode # "mock"
    PROVE  IInv'
  <1>1. TypeOK'
    BY DEF IInv, TypeOK
  <1>2. ListsAgree'
    BY DEF IInv, ListsAgree, Shown
  <1> QED
    BY <1>1, <1>2 DEF IInv

LEMMA SendKeeps ==
    ASSUME IInv, NEW i \in Calls, NEW kind \in Kinds, NEW c \in Cases,
           Send(i, kind, c)
    PROVE  IInv'
  <1>1. PICK d \in Documents :
           call' = [call EXCEPT
                      ![i] = [Idle EXCEPT
                                !.at = "sent", !.kind = kind, !.case = c,
                                !.documents = IF kind \in OfOneDocument
                                              THEN {d} ELSE {}]]
    BY DEF Send
  <1>2. [Idle EXCEPT !.at = "sent", !.kind = kind, !.case = c,
                     !.documents = IF kind \in OfOneDocument THEN {d} ELSE {}]
        \in Call
    BY IdleTyped DEF Call
  <1>3. call' \in [Calls -> Call]
    BY <1>1, <1>2, Typed
  <1> QED
    BY <1>3, CallStep, Typed DEF Send

LEMMA CallFailsKeeps ==
    ASSUME IInv, NEW i \in Calls, CallFails(i)
    PROVE  IInv'
  <1>1. call' \in [Calls -> Call]
    BY IdleTyped, Typed DEF CallFails
  <1> QED
    BY <1>1, CallStep, Typed DEF CallFails

LEMMA ServeCaseKeeps ==
    ASSUME IInv, NEW i \in Calls, NEW c \in Cases, ServeCase(i, c)
    PROVE  IInv'
  <1> DEFINE k == call[i]
             a == IF k.unread[c] = 2
                  THEN [k.answer EXCEPT !.documents[c] = server.documents[c]]
                  ELSE [k.answer EXCEPT !.analysis[c] = server.analysis[c]]
             u == [k.unread EXCEPT ![c] = k.unread[c] - 1]
  <1>1. /\ k \in Call /\ server \in Server /\ k.answer \in Server
        /\ call \in [Calls -> Call] /\ k.unread \in [Cases -> 0 .. 2]
        /\ k.unread[c] > 0
    BY Typed DEF Call, ServeCase
  <1>2. a \in Server
    BY <1>1 DEF Server
  <1>3. u \in [Cases -> 0 .. 2]
    <2>1. k.unread[c] \in 0 .. 2 /\ k.unread[c] - 1 \in 0 .. 2
      BY <1>1
    <2> QED
      BY <1>1, <2>1
  <1>4. call' = [call EXCEPT ![i] = [k EXCEPT !.unread = u, !.answer = a]]
    BY <1>1 DEF ServeCase, Call
  <1>5. [k EXCEPT !.unread = u, !.answer = a] \in Call
    <2> HIDE DEF k, a, u
    <2> QED
      BY <1>1, <1>2, <1>3 DEF Call
  <1>6. call' \in [Calls -> Call]
    BY <1>1, <1>4, <1>5
  <1> QED
    BY <1>1, <1>6, CallStep, Typed DEF ServeCase

\* What the server makes of a call it can serve.
LEMMA ChangedTyped ==
    ASSUME server \in Server, NEW kind \in AllKinds \cup {"none"}, NEW c \in Cases,
           NEW about \in SUBSET Documents, NEW outcome \in Analysis, NEW decision,
           Possible(kind, c, about), ~Reads(kind)
    PROVE  [Changed(kind, c, about, outcome, decision) EXCEPT !.events = @ + 1]
           \in Server
  <1> DEFINE changed == Changed(kind, c, about, outcome, decision)
  <1>1. server.events < MaxEvents /\ server.events \in 0 .. MaxEvents
    BY DEF Possible, Server
  <1>2. kind \in OfTheAnalysis => server.changes + 1 \in 0 .. MaxChanges
    BY DEF Possible, Server
  <1>3. ASSUME NEW m \in Analysis, kind \in OfTheAnalysis,
               changed = [server EXCEPT !.analysis[c] = m, !.changes = @ + 1]
        PROVE  changed \in Server /\ changed.events = server.events
    <2> HIDE DEF changed
    <2> QED
      BY <1>2, <1>3 DEF Server
  <1>4. changed \in Server /\ changed.events = server.events
    <2> DEFINE a == server.analysis[c]
    <2>0. a \in Analysis
      BY DEF Server
    <2>1. CASE kind = "createPersistentCase"
      BY <2>1 DEF Changed, Server
    <2>2. CASE kind = "uploadPersistentDocument"
      BY <2>2 DEF Changed, Server
    <2>3. CASE kind = "deleteDocumentMetadata"
      BY <2>3 DEF Changed, Server
    <2>4. CASE kind = "savePersistentMotion"
      <3> DEFINE m == Edited(a)
      <3>1. a.version \in 1 .. MaxVersions - 1
        BY <2>4 DEF Possible
      <3>2. m \in Analysis
        BY <2>0, <3>1, EditedTyped
      <3>3. changed = [server EXCEPT !.analysis[c] = m, !.changes = @ + 1]
        BY <2>4 DEF Changed
      <3> HIDE DEF m, changed
      <3> QED
        BY <1>3, <2>4, <3>2, <3>3 DEF OfTheAnalysis
    <2>5. CASE kind = "reviewPersistentMotion"
      <3> DEFINE m == Judged(a, decision)
      <3>1. m \in Analysis
        BY <2>0, JudgedTyped
      <3>3. changed = [server EXCEPT !.analysis[c] = m, !.changes = @ + 1]
        BY <2>5 DEF Changed
      <3> HIDE DEF m, changed
      <3> QED
        BY <1>3, <2>5, <3>1, <3>3 DEF OfTheAnalysis
    <2>6. CASE kind = "runPersistentAnalysis"
      <3>1. changed = [server EXCEPT !.analysis[c] = outcome, !.changes = @ + 1]
        BY <2>6 DEF Changed
      <3> HIDE DEF changed
      <3> QED
        BY <1>3, <2>6, <3>1 DEF OfTheAnalysis
    <2>7. CASE kind = "none"
      BY <2>7 DEF Changed
    <2> QED
      BY <2>1, <2>2, <2>3, <2>4, <2>5, <2>6, <2>7 DEF Reads, AllKinds
  <1>5. [changed EXCEPT !.events = @ + 1] \in Server
    <2> HIDE DEF changed
    <2> QED
      BY <1>1, <1>4 DEF Server
  <1> QED
    BY <1>5

LEMMA AnswerTyped ==
    ASSUME NEW kind, NEW c \in Cases, NEW known \in Server
    PROVE  Answer(kind, c, known) \in Server
  <1>1. Unanalysed \in Analysis /\ Demo \in Cases /\ 0 \in 0 .. MaxChanges
    BY AnalysesTyped
  <1> QED
    BY <1>1 DEF Answer, Server

LEMMA ServeKeeps ==
    ASSUME IInv, NEW i \in Calls, Serve(i)
    PROVE  IInv'
  <1> DEFINE k == call[i]
             u == [o \in Cases |-> IF k.kind = "refreshWorkspace"
                                      /\ o \in server.cases \cap Busy
                                   THEN 2 ELSE 0]
             a == Answer(k.kind, k.case, server')
  <1>1. /\ k \in Call /\ server \in Server /\ call \in [Calls -> Call]
        /\ k.at = "sent" /\ Possible(k.kind, k.case, k.documents)
        /\ k.case \in Cases /\ k.documents \in SUBSET Documents
        /\ k.kind \in AllKinds \cup {"none"}
    BY Typed DEF Serve, Call
  <1>2. server' \in Server
    <2>1. PICK outcome \in Outcomes(k.case, Completions),
               decision \in {"approved", "changes_requested", "rejected"} :
             server' = IF Reads(k.kind) THEN server
                       ELSE [Changed(k.kind, k.case, k.documents, outcome, decision)
                                EXCEPT !.events = @ + 1]
      BY DEF Serve
    <2>2. outcome \in Analysis
      BY <1>1, AnalysesTyped, OutcomesTyped
    <2> HIDE DEF k
    <2> QED
      BY <1>1, <2>1, <2>2, ChangedTyped
  <1>3. call' = [call EXCEPT ![i] = [k EXCEPT !.at = "answered", !.unread = u,
                                              !.answer = a]]
    BY <1>1 DEF Serve, Call
  <1>4. [k EXCEPT !.at = "answered", !.unread = u, !.answer = a] \in Call
    <2>1. a \in Server /\ u \in [Cases -> 0 .. 2]
      BY <1>1, <1>2, AnswerTyped
    <2> HIDE DEF k, a, u
    <2> QED
      BY <1>1, <2>1 DEF Call
  <1>5. call' \in [Calls -> Call]
    BY <1>1, <1>3, <1>4
  <1> QED
    BY <1>1, <1>2, <1>5, CallStep, Typed DEF Serve

LEMMA AnalysisFailsKeeps ==
    ASSUME IInv, NEW i \in Calls, AnalysisFails(i)
    PROVE  IInv'
  <1> DEFINE c == call[i].case
  <1>1. /\ server \in Server /\ call \in [Calls -> Call] /\ c \in Cases
        /\ server.changes + 1 \in 0 .. MaxChanges
    BY Typed DEF AnalysisFails, Call, Server
  <1>2. PICK outcome \in Outcomes(c, Failures) :
           server' = [server EXCEPT !.analysis[c] = outcome, !.changes = @ + 1]
    BY DEF AnalysisFails
  <1>3. server' \in Server
    <2>1. outcome \in Analysis
      BY <1>1, AnalysesTyped, OutcomesTyped
    <2> HIDE DEF c
    <2> QED
      BY <1>1, <1>2, <2>1 DEF Server
  <1>4. call' \in [Calls -> Call]
    BY <1>1, IdleTyped DEF AnalysisFails
  <1> QED
    BY <1>3, <1>4, CallStep, Typed DEF AnalysisFails

-----------------------------------------------------------------------------
(* What the store makes of an answer.                                      *)

\* applyBackendAnalysis leaves the documents alone.
LEMMA AnalysedGood ==
    ASSUME NEW r, Good(r), NEW answer \in Server, NEW c \in Cases
    PROVE  Good(Analysed(r, answer, c))
  <1> DEFINE m == answer.analysis[c]
             completed == m.run = "completed"
             text == IF m.version > 0 THEN Served ELSE NoText
             judged == IF m.found THEN "pending" ELSE "none"
             e == [a \in Arguments |-> judged]
             t == [s \in Strategies |-> judged]
             w == [status |-> IF completed THEN "completed" ELSE "idle",
                   index  |-> IF completed THEN Agents - 1 ELSE 0]
             n == IF m.approved THEN m.version ELSE 0
             v == IF m.approved THEN "approved"
                  ELSE IF m.revise THEN "revision" ELSE "pending"
             r1 == [r EXCEPT !.ethics = e, !.stance = t]
             r2 == [r1 EXCEPT !.included = {}, !.cited = FALSE]
             r3 == [r2 EXCEPT !.workflow = w]
             r4 == WithText(r3, text, m.version)
             r5 == [r4 EXCEPT !.approval = n]
             r6 == [r5 EXCEPT !.review = v, !.fixture = FALSE]
  <1>1. /\ m.version \in 0 .. MaxVersions /\ n \in 0 .. MaxVersions
        /\ v \in Statuses /\ e \in [Arguments -> Statuses]
        /\ t \in [Strategies -> Statuses] /\ text \in Bodies
        /\ w \in [status: {"idle", "running", "paused", "completed"},
                  index: 0 .. Agents - 1]
    <2>1. m \in Analysis
      BY DEF Server
    <2> HIDE DEF m
    <2>2. m.version \in 0 .. MaxVersions
      BY <2>1 DEF Analysis
    <2>3. n \in 0 .. MaxVersions
      BY <2>2, Versions
    <2>4. judged \in Statuses /\ v \in Statuses
      BY DEF Statuses
    <2>5. text \in Bodies
      OBVIOUS
    <2>6. w \in [status: {"idle", "running", "paused", "completed"},
                index: 0 .. Agents - 1]
      OBVIOUS
    <2> HIDE DEF judged
    <2> QED
      BY <2>2, <2>3, <2>4, <2>5, <2>6
  <1>2. CASE m.run = "none"
    BY <1>2 DEF Analysed
  <1>3. CASE m.run # "none"
    <2>1. Analysed(r, answer, c) = r6
      BY <1>3 DEF Analysed, WithText
    <2> HIDE DEF m, e, t, w, n, v, text, judged, completed
    <2>2. r1 \in Record /\ r1.documents = r.documents
      BY <1>1 DEF Good, Record
    <2> HIDE DEF r1
    <2>3. r2 \in Record /\ r2.documents = r.documents
      BY <2>2 DEF Record
    <2> HIDE DEF r2
    <2>4. r3 \in Record /\ r3.documents = r.documents
      BY <1>1, <2>3 DEF Record
    <2> HIDE DEF r3
    <2>5. r4 \in Record /\ r4.documents = r.documents
      <3>1. r4 \in Record
        BY <1>1, <2>4, WithTextTyped
      <3> QED
        BY <2>4, <3>1 DEF WithText, Record
    <2> HIDE DEF r4
    <2>6. r5 \in Record /\ r5.documents = r.documents
      BY <1>1, <2>5 DEF Record
    <2> HIDE DEF r5
    <2>7. r6 \in Record /\ r6.documents = r.documents
      BY <1>1, <2>6 DEF Record
    <2> HIDE DEF r6
    <2> QED
      BY <2>1, <2>7 DEF Good
  <1> QED
    BY <1>2, <1>3

LEMMA AsListedTyped ==
    ASSUME NEW answer \in Server, NEW c \in Cases
    PROVE  /\ AsListed(answer, c) \in [Documents -> Nat]
           /\ \A d \in Documents : AsListed(answer, c)[d] <= 1
           /\ answer.documents[c] \in SUBSET Documents
  BY DEF AsListed, Server

\* The documents of a record are replaced.
LEMMA DocumentsReplaced ==
    ASSUME NEW r \in Record, NEW docs \in [Documents -> Nat],
           \A d \in Documents : docs[d] <= 1, NEW ready \in SUBSET Documents
    PROVE  Good([r EXCEPT !.documents = docs, !.processed = ready])
  BY DEF Good, Record

LEMMA MappedGood ==
    ASSUME NEW answer \in Server, NEW c \in Cases
    PROVE  Good(Mapped(answer, c))
  <1> DEFINE docs  == AsListed(answer, c)
             ready == answer.documents[c]
             q     == [EmptyRecord EXCEPT !.documents = docs, !.processed = ready]
             p     == [q EXCEPT !.fixture = FALSE]
  <1>1. Good(q)
    BY AsListedTyped, EmptyRecordGood, DocumentsReplaced DEF Good
  <1>2. Good(p)
    <2> HIDE DEF q
    <2> QED
      BY <1>1 DEF Good, Record
  <1>3. Mapped(answer, c) = Analysed(p, answer, c)
    BY DEF Mapped
  <1> HIDE DEF p
  <1> QED
    BY <1>2, <1>3, AnalysedGood

\* An answer that changes the records, the list or the events, in http mode.
LEMMA AppliedKeeps ==
    ASSUME IInv, mode # "mock", UNCHANGED <<mode, server>>,
           call' \in [Calls -> Call],
           record' \in [Cases -> Record],
           \A c \in Cases, d \in Documents : record'[c].documents[d] <= 1,
           listed' \in [Cases -> Nat],
           events' \subseteq 1 .. MaxEvents,
           selected' \in Cases \cup {NoCase},
           selected' = NoCase \/ listed'[selected'] > 0
    PROVE  IInv'
  <1>1. TypeOK'
    BY DEF IInv, TypeOK
  <1>2. ListsAgree'
    BY DEF ListsAgree, Shown
  <1> QED
    BY <1>1, <1>2 DEF IInv

\* The selected case stays in the list.
LEMMA SelectedStays ==
    ASSUME IInv
    PROVE  selected = NoCase \/ listed[selected] > 0
  BY DEF IInv, ListsAgree, Shown

LEMMA ApplyKeeps ==
    ASSUME IInv, NEW i \in Calls, Apply(i)
    PROVE  IInv'
  <1> DEFINE k == call[i]
             c == call[i].case
             answer == call[i].answer
  <1>1. /\ mode # "mock" /\ UNCHANGED <<mode, server>> /\ call \in [Calls -> Call]
        /\ c \in Cases /\ answer \in Server /\ k.documents \in SUBSET Documents
        /\ record \in [Cases -> Record] /\ listed \in [Cases -> Nat]
        /\ \A o \in Cases : Good(record[o])
        /\ events \subseteq 1 .. MaxEvents /\ selected \in Cases \cup {NoCase}
    <2>1. call[i].at # "idle"
      BY DEF Apply
    <2>2. call[i] \in Call
      BY Typed
    <2> QED
      BY <2>1, <2>2, Typed, RecordGood DEF Apply, Call
  <1>2. call' \in [Calls -> Call]
    <2>1. k.kind \in OfTheAnalysis =>
            [Idle EXCEPT !.at = "sent", !.kind = "refreshAnalysis", !.case = c] \in Call
      BY <1>1, IdleTyped DEF Call, AllKinds
    <2> QED
      BY <1>1, <2>1, IdleTyped DEF Apply
  <1>3. CASE ApplyWorkspace(i)
    <2>1. /\ listed' \in [Cases -> Nat]
          /\ \A o \in answer.cases : o \in Cases /\ listed'[o] > 0
      BY <1>1, <1>3 DEF ApplyWorkspace, Server
    <2>2. /\ record' \in [Cases -> Record]
          /\ \A o \in Cases, d \in Documents : record'[o].documents[d] <= 1
      BY <1>1, <1>3, MappedGood DEF ApplyWorkspace, Good
    <2>3. selected' \in answer.cases \cup {NoCase}
      BY <1>3 DEF ApplyWorkspace, Selectable
    <2>4. events' \subseteq 1 .. MaxEvents
      <3>1. answer.events \in 0 .. MaxEvents
        BY <1>1 DEF Server
      <3>2. Recent(answer) \subseteq 1 .. MaxEvents
        BY <3>1 DEF Recent
      <3>3. events' = events \cup Recent(answer)
        BY <1>3 DEF ApplyWorkspace, WithTheShown
      <3> QED
        BY <1>1, <3>2, <3>3
    <2> QED
      BY <1>1, <1>2, <2>1, <2>2, <2>3, <2>4, AppliedKeeps
  <1>4. CASE ApplyCase(i)
    <2>1. /\ listed' \in [Cases -> Nat] /\ listed'[c] > 0
          /\ selected' = c /\ events' = events
      BY <1>1, <1>4 DEF ApplyCase
    <2>2. /\ record' \in [Cases -> Record]
          /\ \A o \in Cases, d \in Documents : record'[o].documents[d] <= 1
      <3> DEFINE q == [EmptyRecord EXCEPT !.fixture = FALSE]
      <3>1. Good(q)
        BY EmptyRecordGood DEF Good, Record, EmptyRecord
      <3>2. record' = record \/ record' = [record EXCEPT ![c] = q]
        BY <1>4 DEF ApplyCase
      <3> HIDE DEF q
      <3> QED
        BY <1>1, <3>1, <3>2 DEF Good
    <2> QED
      BY <1>1, <1>2, <2>1, <2>2, AppliedKeeps
  <1>5. ASSUME NEW q, Good(q), UpdateCase(c, q),
               UNCHANGED <<listed, selected, events>>
        PROVE  IInv'
    <2>1. /\ record' \in [Cases -> Record]
          /\ \A o \in Cases, d \in Documents : record'[o].documents[d] <= 1
      BY <1>1, <1>5, UpdateKeepsRecords
    <2> QED
      BY <1>1, <1>2, <1>5, <2>1, AppliedKeeps, SelectedStays
  <1>6. CASE ApplyDocuments(i)
    <2> DEFINE r == record[c]
    <2>1. /\ UNCHANGED <<listed, selected, events>>
          /\ r \in Record /\ r.documents \in [Documents -> Nat]
          /\ \A d \in Documents : r.documents[d] <= 1
          /\ r.processed \in SUBSET Documents
      BY <1>1, <1>6 DEF ApplyDocuments, Good, Record
    <2>2. ASSUME NEW docs \in [Documents -> Nat],
                 \A d \in Documents : docs[d] <= 1,
                 NEW ready \in SUBSET Documents,
                 UpdateCase(c, [r EXCEPT !.documents = docs, !.processed = ready])
          PROVE  IInv'
      <3> DEFINE q == [r EXCEPT !.documents = docs, !.processed = ready]
      <3>1. Good(q)
        <4> HIDE DEF r
        <4> QED
          BY <2>1, <2>2, DocumentsReplaced
      <3>2. UpdateCase(c, q)
        BY <2>2
      <3> HIDE DEF q
      <3> QED
        BY <1>5, <2>1, <3>1, <3>2
    <2>3. CASE k.kind = "syncDocuments"
      <3>1. UpdateCase(c, [r EXCEPT !.documents = AsListed(answer, c),
                                    !.processed = answer.documents[c]])
        BY <1>6, <2>3 DEF ApplyDocuments
      <3> QED
        BY <1>1, <2>2, <3>1, AsListedTyped
    <2>4. CASE k.kind = "uploadPersistentDocument"
      <3>1. /\ UpdateCase(c, [r EXCEPT !.documents = Replaced(r.documents, k.documents),
                                       !.processed = r.processed \cup k.documents])
            /\ Replaced(r.documents, k.documents) \in [Documents -> Nat]
            /\ \A d \in Documents : Replaced(r.documents, k.documents)[d] <= 1
            /\ r.processed \cup k.documents \in SUBSET Documents
        BY <1>1, <1>6, <2>1, <2>4 DEF ApplyDocuments, Replaced
      <3> QED
        BY <2>2, <3>1
    <2>5. CASE k.kind = "deleteDocumentMetadata"
      <3>1. /\ UpdateCase(c, [r EXCEPT !.documents = Removed(r.documents, k.documents),
                                       !.processed = r.processed \ k.documents])
            /\ Removed(r.documents, k.documents) \in [Documents -> Nat]
            /\ \A d \in Documents : Removed(r.documents, k.documents)[d] <= 1
            /\ r.processed \ k.documents \in SUBSET Documents
        BY <1>1, <1>6, <2>1, <2>5 DEF ApplyDocuments, Removed
      <3> QED
        BY <2>2, <3>1
    <2> QED
      BY <1>6, <2>3, <2>4, <2>5 DEF ApplyDocuments
  <1>7. CASE ApplyAnalysis(i)
    <2> DEFINE q == Analysed(record[c], answer, c)
    <2>1. Good(q)
      BY <1>1, AnalysedGood
    <2>2. UpdateCase(c, q) /\ UNCHANGED <<listed, selected, events>>
      BY <1>7 DEF ApplyAnalysis
    <2> HIDE DEF q
    <2> QED
      BY <1>5, <2>1, <2>2
  <1>8. CASE ApplyEvents(i)
    <2>1. events' \subseteq 1 .. MaxEvents /\ UNCHANGED <<listed, record, selected>>
      <3>1. answer.events \in 0 .. MaxEvents
        BY <1>1 DEF Server
      <3>2. 1 .. answer.events \subseteq 1 .. MaxEvents
        BY <3>1
      <3>3. events' = events \cup (1 .. answer.events)
        BY <1>8 DEF ApplyEvents, WithTheShown
      <3> QED
        BY <1>1, <1>8, <3>2, <3>3 DEF ApplyEvents
    <2> QED
      BY <1>1, <1>2, <2>1, AppliedKeeps, SelectedStays DEF Good
  <1>9. CASE ReadAgain(i)
    <2>1. UNCHANGED <<listed, record, selected, events>>
      BY <1>9 DEF ReadAgain
    <2> QED
      BY <1>1, <1>2, <2>1, AppliedKeeps, SelectedStays DEF Good
  <1> QED
    BY <1>3, <1>4, <1>6, <1>7, <1>8, <1>9 DEF Apply

-----------------------------------------------------------------------------
(* Theorems.                                                               *)

LEMMA NextKeeps == IInv /\ [Next]_vars => IInv'
  <1> SUFFICES ASSUME IInv, [Next]_vars PROVE IInv'
    OBVIOUS
  <1>1. CASE ResetDemo
    BY <1>1, ResetDemoKeeps
  <1>2. ASSUME NEW c \in Cases, SelectCase(c) \/ CreateCase(c) PROVE IInv'
    BY <1>2, SelectCaseKeeps, CreateCaseKeeps
  <1>3. ASSUME NEW c \in Busy, OnThePage(c) \/ InMockMode(c) PROVE IInv'
    <2>1. CASE OnThePage(c)
      BY <2>1, OnThePageKeeps
    <2>2. CASE InMockMode(c)
      <3>1. \/ \/ ProcessDocuments(c)
               \/ \E d \in Documents :
                     AddDocument(c, d) \/ RegisterDocument(c, d) \/ DeleteDocument(c, d)
            \/ \/ \E from, to \in {"idle", "running", "paused"} : MoveWorkflow(c, from, to)
               \/ AdvanceWorkflow(c) \/ ResetWorkflow(c)
            \/ (\E text \in Bodies : SaveMotion(c, text)) \/ ApproveMotion(c)
        BY <2>2 DEF InMockMode
      <3> QED
        BY <3>1, MockDocumentsKeep, MockWorkflowKeeps, MockMotionKeeps
    <2> QED
      BY <1>3, <2>1, <2>2
  <1>4. ASSUME NEW i \in Calls,
               \/ \E kind \in Kinds, c \in Cases : Send(i, kind, c)
               \/ \E c \in Cases : ServeCase(i, c)
               \/ Serve(i) \/ AnalysisFails(i) \/ Apply(i) \/ CallFails(i)
        PROVE  IInv'
    BY <1>4, SendKeeps, ServeKeeps, ServeCaseKeeps, AnalysisFailsKeeps,
       ApplyKeeps, CallFailsKeeps
  <1>5. CASE UNCHANGED vars
    <2>1. TypeOK'
      BY <1>5 DEF IInv, TypeOK, vars
    <2>2. ListsAgree'
      BY <1>5 DEF IInv, ListsAgree, Shown, vars
    <2> QED
      BY <1>5, <2>1, <2>2 DEF IInv, vars
  <1> QED
    BY <1>1, <1>2, <1>3, <1>4, <1>5 DEF Next

\* The inductive invariant, for any workspace, texts and calls.
THEOREM Invariance == Spec => []IInv
  BY InitIInv, NextKeeps, PTL DEF Spec

\* What the store holds keeps its type, whatever answers it applies.
THEOREM TypeCorrect == Spec => []TypeOK
  <1>1. IInv => TypeOK
    BY DEF IInv
  <1> QED
    BY <1>1, Invariance, PTL

\* In mock mode an approval stands only while the gate would let the motion
\* be exported: no edit, decision or inclusion leaves a stale approval
\* (saveMotion, reviewEthicsArgument, setStrategyIncluded, approveMotion).
THEOREM ApprovalsHold == Spec => []ApprovedIsExportable
  <1>1. IInv => ApprovedIsExportable
    BY DEF IInv, ApprovedIsExportable, Justified, Shown
  <1> QED
    BY <1>1, Invariance, PTL

\* Whatever overlaps and fails, the selected case is listed and no document
\* is listed twice (refreshWorkspace, createPersistentCase, syncDocuments).
THEOREM ListsStayInAgreement == Spec => []ListsAgree
  <1>1. IInv => ListsAgree
    BY DEF IInv
  <1> QED
    BY <1>1, Invariance, PTL

\* In http mode a shown audit event stays, whichever answer comes last
\* (mergeAuditEvents, resetDemo).
THEOREM EventsStay == Spec => AuditEventsStay
  <1>1. [Next]_vars => (mode = "http" /\ Demo \in Shown => events \subseteq events')
    <2> SUFFICES ASSUME [Next]_vars, mode = "http", Demo \in Shown
                 PROVE  events \subseteq events'
      OBVIOUS
    <2>1. CASE ResetDemo
      BY <2>1 DEF ResetDemo
    <2>2. ASSUME NEW c \in Cases, SelectCase(c) \/ CreateCase(c)
          PROVE  UNCHANGED events
      BY <2>2 DEF SelectCase, CreateCase
    <2>3. ASSUME NEW c \in Busy, OnThePage(c) \/ InMockMode(c)
          PROVE  UNCHANGED events
      BY <2>3 DEF OnThePage, SetStrategyIncluded, ReviewEthicsArgument,
                  InMockMode, ProcessDocuments, AddDocument, RegisterDocument,
                  DeleteDocument, MoveWorkflow, AdvanceWorkflow,
                  ResetWorkflow, SaveMotion, ApproveMotion, Mocked, Locally
    <2>4. ASSUME NEW i \in Calls,
                 \/ \E kind \in Kinds, c \in Cases : Send(i, kind, c)
                 \/ \E c \in Cases : ServeCase(i, c)
                 \/ Serve(i) \/ AnalysisFails(i) \/ CallFails(i)
          PROVE  UNCHANGED events
      BY <2>4 DEF Send, Serve, ServeCase, AnalysisFails, CallFails
    <2>5. ASSUME NEW i \in Calls, Apply(i)
          PROVE  events \subseteq events'
      BY <2>5 DEF Apply, ApplyWorkspace, ApplyCase, ApplyDocuments,
                  ApplyAnalysis, ApplyEvents, ReadAgain, WithTheShown
    <2>6. CASE UNCHANGED vars
      BY <2>6 DEF vars
    <2> QED
      BY <2>1, <2>2, <2>3, <2>4, <2>5, <2>6 DEF Next
  <1>2. [Next]_vars => [mode = "http" /\ Demo \in Shown => events \subseteq events']_vars
    BY <1>1
  <1> QED
    BY <1>2, PTL DEF Spec, AuditEventsStay
=============================================================================
