# LegalBridge: formal models

TLA+ models of LegalBridge, a legal case workspace: a FastAPI server on
PostgreSQL (`src/server/app`) and a Next.js client (`src/client/src`). The
models follow the code; each definition's source lines are in `PROJECT.json`
under `map`, the things that can go wrong under `hazards`.

## 1. The system and its parts

| Part | State | Operations | What is hard about it |
| --- | --- | --- | --- |
| Motion lifecycle (`api/routes/motions.py`, `models/analysis.py`) | motion drafts, their versions, citation records, attorney reviews | create, new version, citation check, ethics check, submit, review, export | approval must cover the text that is exported, and no handler locks what it reads |
| Authentication (`api/routes/auth.py`, `users.py`, `api/dependencies.py`, `core/security.py`) | users (active, token version, password), refresh sessions | login, refresh, logout, change password, (de)activate | tokens outlive requests; revocation races with issue, rotation with reuse |
| Document store (`api/routes/documents.py`, `services/document_processing.py`, `services/storage.py`) | document rows, page rows, files (original, quarantine) | upload, metadata-only create, reprocess, delete, download | database and file system change separately; crashes, failing commits, two processors of one document |
| Text extraction (`services/extraction.py`) | none (pure) | PDF, DOCX, TXT to pages, limits, status | splitting loops and three limits at their boundaries |
| Analysis (`services/analysis.py`, `api/routes/analysis.py`) | runs, agent runs, facts, timeline, contradictions, strategies, a seeded motion | run, list, resolve a contradiction | one long transaction over pages that others may delete; rows shared by runs; a failed run commits what it has |
| Case copilot (`api/routes/copilot.py`, `services/platform.py`) | threads, messages, artefacts | ask | an external call of up to 25 s between reading and writing, asked twice, with a fallback |
| HTTP client (`client/src/lib/api/client.ts`, `lib/auth/session-storage.ts`) | stored session, one refresh in flight | request, refresh, retry after 401, sign in, sign out, restore, reload | several calls share one refresh; lost answers; signing out while one is in flight |
| Store of the browser (`client/src/stores/app-store.ts`, `lib/motion-gate.ts`, `lib/api/mappers.ts`) | cases, documents, motion, approval, audit events; mode "mock" or "http" | edit, decide, approve, export, workflow steps; refresh, create, upload, review against the server | an approval must not survive what invalidates it; answers arrive out of order |
| Bootstrap programs (`scripts/bootstrap_*.py`) | none of their own | create or repair accounts, cases, documents, analyses | killed between two commits, started again, beside users who work |
| Cases, dashboard, audit (`api/routes/cases.py`, `dashboard.py`, `services/audit.py`) | cases; audit events | create, update, archive, count | a unique number |
| Configuration, health, migrations, pages of the interface | none that changes | | |

The parts meet in the database. Uploads produce pages; an analysis run reads
pages, stores findings that refer to them and leaves a motion; a citation check
reads pages again; everything is admitted by a token that authentication issued.
The client holds the tokens, and its store shows what the server answers. The
bootstrap programs write all of these tables, without the routes.

**How a request executes.** Every request has an SQLAlchemy session of its own
(`db/session.py:64-85`). Under READ COMMITTED a SELECT sees what is committed
when it runs. No handler uses SELECT FOR UPDATE and no table has a version
column. A flush writes the columns whose new value differs from the value that
was *loaded*, and an increment in Python is written as a value. The modules of
the server therefore model a request as reading steps with a snapshot, followed
by an atomic commit; `Written(loaded, new, stored)` is the write rule. What is
flushed before the commit is seen by nobody else, but its unique indexes and
foreign keys already hold up the requests of others; where a handler flushes long
before it commits (`CaseAnalysis`), that is modelled too.

**How the browser executes.** Code between two awaits is atomic. A call is
therefore sent in one step, served in another and its answer used in a third.

## 2. Modules

| Module | Models | Used by |
| --- | --- | --- |
| `ApprovalPromise` | what the approval gate promises, without requests | `MotionLifecycle` |
| `MotionLifecycle` | one motion and its requests | `MCMotionLifecycle`, `MotionLifecycleProofs` |
| `SessionPromise` | what signing in promises, without requests | `AuthSessions` |
| `AuthSessions` | the users of one organisation and their sessions | `MCAuthSessions`, `AuthSessionsProofs` |
| `ClientSession` | one browser tab and the refresh sessions of its user | `MCClientSession`, `ClientSessionProofs` |
| `DocumentStore` | the documents of one case, their pages and files | `MCDocumentStore`, `DocumentStoreProofs` |
| `TextExtraction` | the extraction of one file | `MCTextExtraction`, `TextExtractionProofs` |
| `CaseAnalysis` | the analysis runs and copilot questions of one case | `MCCaseAnalysis`, `CaseAnalysisProofs` |
| `Bootstrap` | the bootstrap programs of one workspace, beside its users | `MCBootstrap`, `BootstrapProofs` |
| `MotionGate` | the approval gate of the browser, as functions of a case | `AppStore` |
| `AppStore` | the store of the browser in both modes, against a server | `MCAppStore`, `AppStoreProofs` |
| `MC*` | instances for TLC: symmetry sets, tables of constants | the `.cfg` files |
| `*Proofs` | theorems, checked by TLAPS | |

Each state machine but the two abstract ones has a type invariant `TypeOK`, and every
`IInv` contains it.

### MotionLifecycle

`motion` is the `motion_drafts` row, `versions` its `motion_versions` rows by
number, `reviews` its `attorney_reviews` in the order of their commits, `exports`
the versions its export events name. A request `r` passes through `GetMotion` (`_get_motion`),
`LatestVersion` (`_latest_version`), for a citation check `SelectPages`, and one
of the ending actions named after the handlers; each handler that can refuse
has a second ending. Analysis enters with what it does to a motion: it seeds
one, and its latest run's status decides whether one can be created. The motion
it seeds is approved, and the run writes the review that says so itself
(`analysis.py:882`, `944-969`): marked as if a PIN had been entered, which nobody
did, and dated two minutes ahead. What is said below of an approval is therefore
said of a row of `attorney_reviews` whose decision is "approved", a run's own
included; that a person has approved is not what the code ensures.

History variables, which no guard of a handler reads:
`cleared` (the version has had a passing verdict), `reviews[i].version` (the
version the reviewer's handler had loaded; the row itself does not name one),
`stale` and `overlapped` (a request committed although another one had committed
since it began).

Properties. In every interleaving: `CurrentVersionIsLatest`,
`UnlockedOnlyByApproval` (an unlocked motion has an approving row), `VerdictBelongsToVersion`. In the executions where no
request commits over another one's commit: `ApprovalCoversCurrent`,
`ExportedWasApproved`, `SubmittedWasCleared`. That condition is the honest one:
the code has no lock, and `MotionBinding` shows that without the condition the
first two fail.

`ApprovalPromise` is the abstract gate: a motion with its newest version, whether
it may be released, and what was approved and released; its steps begin, revise,
approve, withdraw and release. `MotionLifecycle` is mapped to it by the instance
`Promise` (unlocked is a status of "approved" or "exported"; the approved versions
are those of the approving reviews), and `KeepsPromise` says that it implements
it: a handler's reads are no steps, and its commit is one. When a commit overlaps
another one's the promise is off; its step `Overtaken` then only requires that
versions, approvals and exports are not lost and nothing is unlocked before the
first approval.

### AuthSessions

`user` has the active flag and the token version; a row of `sessions` stands for
the refresh session and for the two tokens issued with it. `Login`, `Refresh`,
`Logout`, `ChangePassword`, `AdminOnly` and `UpdateUserStatus` are the reading
steps with their guards, `CommitLogin` to `CommitActivation` the writing steps.
A password change or deactivation writes in two: `RevokeSessions` is the
autoflush and the bulk UPDATE (which takes the row lock of the user and finds
the sessions committed by then), `CommitRevocation` the commit.

`epoch` is a history variable, the true number of revocations; `lost` records
that `token_version` no longer counts them, `raced` that a request committed
although a row it had *read* had changed. `late` marks a session that was
committed while or after a revocation of its user ran.

Properties. `TokensEndWithRevocation`: as long as no increment is lost, an
accepted token was issued in the user's present epoch, so neither a late commit
nor a reactivation revives one. `OnlyLateSessionsSurvive`: even when increments
are lost, the bulk UPDATE has revoked every session stored in time.
`RefreshTokenUsedOnce`, `LogoutEndsTheSignIn`, `AnAdministratorRemains`: under
`~raced`. `root`, one more history field of a session, is the row of the login it
goes back to over any number of exchanges; a logout leaves none of its root
unrevoked, although the handler revokes one row.

`SessionPromise` is what the handlers promise together to those who hold a
session: who can sign in, the sessions with their user and root, those a
revocation has `ended` and those whose refresh token is `spent`; to sign in,
exchange, sign out, change the password, deactivate and reactivate are single
steps. `AuthSessions` is mapped to it by the instance `Promise` (ended is a token
version other than the user's, spent is revoked), and `KeepsSessions` says that it
implements it. Two history variables say how far the promise goes. Until `raced`
every commit is one that a session still open or unspent allows; afterwards
exchanges still inherit their end, and a revocation still ends every session of
its user, until `lost`: then the version the revocation writes may be the one a
session has, and sessions that had ended may come back.

### ClientSession

The other end of `AuthSessions`: one tab, its stored session (`stored`, 0 for
none), the one refresh in flight (`refresh`, the promise `refreshPromise`), its
calls, a sign-in and a sign-out, and what `useAppStore` shows. `rows` are the
refresh sessions of the server; the server's half of each request is a step of
its own (`ServerRefresh`, `ServerLogin`, `ServerLogout`, `ServerCall`), so that a
request or an answer can be lost before or after it. `StartCall` and `Begin` are
the beginning of `authenticated`, which refreshes first when the access token has
expired; `CallReturns` is what it does with an answer, `RotateAndTryAgain` the
second attempt after a 401; `Resumed` is every call that awaited the refresh
going on when it settles. `Reload` forgets all but `sessionStorage`.

`hist` and `overlapped` are history: whether a reload has cut a refresh off,
whether the user has signed out and the server has not heard of it, and whether
a sign-in or sign-out overlapped a refresh or one another. In such an overlap
the answer that comes last wins, whichever it is; `SignOutIsFinal` and
`ShownWithSession` speak of the other executions, the rest of all.

### DocumentStore

`row`, `pages` and `file` are the two stores. `StageUpload`, `Finalize`,
`CommitUpload` or `UploadCollides` are an upload; `DeletePages`,
`CommitProcessing`, `Extract`, `CommitPages` or `ProcessingFails` are
`process_document`, for upload and reprocess alike; `Quarantine`,
`CommitDelete`, `Purge` are a deletion. The constant `Faults` adds crashes (no
except clause runs), failing commits, a deadlock of the database among them (the
except clauses run), and lost acknowledgements (they run although the row is there,
or gone).

`ExtractRaises` is no fault but something the code does by itself: a parser raises
what `extract_document` does not catch, `process_document` does not either, and
the request ends after it has committed "processing". Until the document is
processed again nobody works on it. `raised`, a history variable, holds these
documents, and the properties about processing except them by name.

The constant `Provider` selects local files or Supabase, which differ in
`quarantine` (the Supabase service looks for a local file and finds none) and in
`delete_key` (its HTTP call has an argument that `httpx.delete` does not take, so
it raises a TypeError and the object stays).

Properties. Without faults: `StoresAgree`, `DeletedIsGone`,
`TruthfulWhenSerial` (a document never processed by two requests at a time is
described as its pages are, and is "processing" only while a request works on it
or after one whose parser has raised), and the liveness property `UploadsSettle`.
With all faults: `NoDuplicateContent` and the action properties `ReprocessRepairs`
and `BinariesKept`: a deletion that dies or fails leaves the file of a document
that is still listed, if only in quarantine.

An identifier of which nothing is left (no row, file or request) may be drawn
again and stands for a fresh one, so a few identifiers give runs of any length.

### TextExtraction

One file, as units with a length: pages of a PDF, paragraphs and tables of a
DOCX, paragraphs or form-feed pages of a TXT. One action is one turn of a loop:
`PdfPage` (embedded text, recognition or neither), `DocxPiece` (`_split_section`
and its `flush`), `TxtFullPage` and `TxtParagraph` (`_chunk_text`), `FeedPages`,
then `LimitPage` (`_apply_limits`) and the status. `DocumentStore` takes the whole
as one step, `Extract` or `ExtractRaises`. Normalisation and recognition are
choices of what a unit yields. A parser may break off at any turn: `Fails` with an
exception the code knows, which makes a result "failed", `Raises` with another one,
which leaves no result (python-docx, for one, lets the XML parser's error through,
and `_extract_docx` names four other types).

### CaseAnalysis

A run is `StartRun`, `LoadSources`, then the authorities (`ListAuthorities` reads
which exist, `InsertAuthorities` inserts the others and waits while another
uncommitted run has), `InsertResults` (everything up to the flush of the motion,
with its foreign keys) and `CommitRun`, which inserts the motion's citations as
well; it ends early as `CompleteWithoutSources`, as `RunFails`, or, after a
database error, with nothing: the session refuses the commit of "failed" as well
(`Vanishes`). `RunFails` commits with the status "failed" whatever the run has
added to its session by then: facts alone, facts and timeline, up to all of it.

What a run reads is `says`: for each document its number of pages, and the RECORD
lines on them in the order in which the run meets them, any number to a page. A
line has a key, a value and a place in the order of the timeline.
`Observations` are the lines of the documents that were processed when the run
loaded its sources; `FindingsOf` makes of them

- `FactPages`: the pages of the first `FactLimit` (60) lines or, if there is no line
  at all, the first `ReferenceLimit` (20) pages;
- `TimelinePages`: those of the earliest `TimelineLimit` (30) lines with a key for it;
- a contradiction for each key of which two lines disagree, between its first line
  and the first that differs from it (`ContradictionOf`), on whichever pages and in
  however many documents they are;
- procedural findings, by the rules of the code one by one: three because of a
  contradiction, custody or arrest times, keys that occur together, times in the
  wrong order, a single-photo identification, and certificates that say of
  themselves that they are incomplete or that something is missing.

`PagesGo` and `PagesCome` are the commits of `DocumentStore` as a run sees them,
with ON DELETE SET NULL. A question of the copilot is `Ask`, up to two
`ModelAnswers`, `ModelFails` or `Compose`, and one commit.

RECORD lines belong to the content of a document and do not change; a page is
known by its document, its number and the extraction it comes from, so that the
page of a reprocess is another one.

Properties. `CitedPagesExist`: what a committed run cites is there, or NULL, also
if the run failed half-way. `ContradictionsAreExact`: a reported contradiction is
between two lines the run has read that differ, on the pages it names, and no key
is reported twice; a completed run reports every key of which two lines differ.
`ShownNeverGoesBack` and, under fairness, `CallsSettle`.

### Bootstrap

The eight programs as what they share: accounts, cases, documents, analyses, each
a commit, in the order of the scripts. The loops over cases and files are the set
`todo`; `Interrupted` stops a program between any two commits, and `Start` begins
it, or another one of the same workspace, again. Whether a case has been analysed
is looked up before each analysis, except in `bootstrap_case_11_12`, which looks
once, before it stores the documents, and then analyses whatever users have done
meanwhile (`AlreadyAnalysed`). Four workspaces are four sets of
programs that share an organisation. Beside them users sign in, change the
password, deactivate, edit cases, reprocess or delete documents, analyse and
approve. `ReadAccounts` and `ProvisionAccounts` are two steps, because the
password is verified between them and takes its time: the version written is one
more than the version read. A holder who has changed the password twice meanwhile
has gone further, and the program lowers the version; `lowered` is the history
variable that records it.

### MotionGate and AppStore

`MotionGate` is pure: a `Record` is what the gate reads of a case (motion text and
versions, the saved and the approved one, strategies, ethics decisions), with the
conjuncts of `getMotionGateStatus` by name, `Approvable` and `ExportUnlocked`,
and what each operation of the store makes of a record.

`AppStore` is the store. In mock mode every operation of it is an action. In http
mode an operation is sent, served and applied, and two of them may be under way;
meanwhile the same operations change the server. A refresh of the workspace lists
the cases and then reads, case by case, the documents and after them the analysis
(`ServeCase`). The server's side of a case is its `Analysis`: the latest run, none,
completed or failed, whether it has findings, and the motion with its versions and
approvals, of which a completed run leaves two and an approval, or none without
pages, and a failed run what it had flushed. `AnalysisFails` ends such a call with
an error and changes the server all the same. `Mapped` and `Analysed` are the
mappers; only without a run does `Analysed` leave the record alone.

## 3. Runs

| Run | Bounds | Shows |
| --- | --- | --- |
| `MotionApproval` | 2 requests, 3 versions, 3 reviews; edit, submit, review, export | the approval gate under overlap, and that it implements `ApprovalPromise` |
| `MotionChecks` | 2 requests, 2 versions; edit, both checks, submit | verdicts under overlap; the inductive invariant |
| `MotionBinding` | 2 requests | violation: a version nobody approved is exported |
| `AuthRotation` | 2 requests, 1 user, 3 sessions, 2 revocations | tokens against rotation, logout and revocation, and that the handlers implement `SessionPromise` |
| `AuthAdmins` | 2 requests, 2 administrators, 3 sessions, 1 deactivation each | deactivation and reactivation, of `SessionPromise` as well |
| `ClientSession` | 1 tab, 2 calls and the restore, 2 sessions of the server, fair | the single refresh, retries, sign-out; liveness |
| `DocumentFaults` | 3 requests, 2 documents of 1 content, all faults, local files | the two stores until a fault; uniqueness, repair and what a deletion leaves after it |
| `DocumentUploads` | 2 requests, 2 documents, 2 contents, Supabase, fair, no fault | liveness |
| `Extraction` | files of at most 3 units of 0, 1, 3 or 6 characters; limits of 7 characters, 4 a page and 2 pages; sections of 5, text pages of 4 | the limits, the status, nothing lost |
| `CaseAnalysis` | 2 calls, 2 runs or questions, 2 documents of 1 and 2 pages, one of them extracted again, up to 6 lines, 2 values; at most 3 facts (2 without lines) and 2 events; a model service with or without the fallback; fair | citations, contradictions, the order of results; liveness |
| `Bootstrap` | 4 workspaces, 2 executions, 2 cases, 3 files, 2 analyses, 5 token versions | repeating the programs |
| `AppStore` | mock: 1 case, 3 versions, 2 ethics arguments, 2 strategies; http: 2 cases (1 of them with documents and runs), 1 document, 2 calls, 2 audit events, 1 change of an analysis, 1 ethics decision of the page | the gate in any order of operations; answers in any order |

**Why the bounds are enough to be interesting.** Every race on the server is
between two requests over one row; a third request is there where two are needed
to prepare what the third one meets (a reprocess beside an upload and a
deletion). Three versions let a review, an edit and an export disagree in every
order and two are a checked one and its successor; three sessions hold a login,
its replacement and a rival. Documents of equal content make the duplicate check
matter; two contents let both settle. Two calls of a tab are the one that begins
the refresh and the one that finds it under way; the second session of the server
is the replacement. The lengths of units lie below, at and above each limit, one
unit is longer than a page, two exceed a page together, and three exceed the
pages and the total. In one reading of the two documents a key has three lines of
which two agree, another one has two that differ on a single page, and a certificate
is incomplete; in the other one document has no line, and times are in the wrong
order. Since documents come and go, a run meets one of them alone as well, or
pages without a line. The limits on facts and events are smaller than the number
of lines. The second extraction is the pages that replace those a run has read;
the second run is the one that collides or overtakes. Two executions of a program
are the interrupted one and the one that repairs; five versions are what it takes
for the holder to go two beyond the version a program has read. Two calls of the
store are what it takes for answers to arrive in the other order, and one change of
an analysis is what an older answer does not know of. Symmetry is used
for requests and calls only, and not in the runs with liveness.

**Deadlock** is checked except where the system may stop: in `AuthAdmins`, when
two administrators have deactivated each other and nobody can sign in; in
`DocumentFaults` and `DocumentUploads`, where files that nobody removes keep their
identifiers for ever; in `Extraction`, which ends; and in `CaseAnalysis`,
`Bootstrap` and `AppStore`, whose counted runs, executions and versions run out.

**Fairness.** `DocumentStore!FairSpec` has weak fairness of each request's next
step: the event loop resumes a coroutine whose await has completed, and without
faults every await of the modelled handlers completes (row locks are held only
across steps that are themselves fair). `CaseAnalysis!FairSpec` has it for each
call, with the model service among its steps because the client of the service
has a timeout; a call that waits for another one's authorities is not enabled
meanwhile. `ClientSession!FairSpec` has it for the end of a fetch, with an answer
or an error, and for nothing of the server. Nowhere are people fair: nothing says
that a request is ever made, so the three liveness properties are about what has
been begun. The other modules state no liveness: every operation in them needs a
person or an operator.

## 4. Where code and words disagree

**`MotionBinding`, checked.** A review loads the motion at version 1, an edit
commits version 2, the review commits "approved"; version 2 is exported. The
client's review page says decisions are bound to the current version
(`client/src/features/review/review-page.tsx:57`).

**Met while modelling.** The models follow the code in these points, and the
properties are stated so that they are true of it:

- `review_motion` (`motions.py:385`) tests neither for a submission nor for a
  passed citation check, although submitting answers that the firewall must pass
  before attorney review (`motions.py:368`).
- Two overlapping refreshes both find the session unrevoked (`auth.py:137`) and
  one refresh token becomes two sessions; `RefreshTokenUsedOnce` excludes it.
- Two overlapping password changes write the same token version (`auth.py:211`);
  a sign-in verified between their commits stays valid.
- A reprocess that loaded "processing" and 0 pages deletes the pages another one
  has just stored and writes neither column (`document_processing.py:58`).
- `process_document` does not catch what `extract_document` raises
  (`document_processing.py:81`), and `_extract_docx` catches four types of exception
  only (`extraction.py:298`): a DOCX with a part that is no XML leaves its document
  "processing" until somebody processes it again, although the function is to
  "persist a truthful extraction result" (`document_processing.py:58`).
- `SupabaseStorageService` inherits `quarantine` from the local service; it finds
  nothing to move and the object of a deleted document stays. Its `delete_key`
  passes `json` to `httpx.delete` (`storage.py:486`), which has no such parameter:
  the object of a refused upload stays too.
- A contradiction "between records" may be between two lines of one document, or of
  one page (`analysis.py:577`), and is then described as if one file contradicted
  another of the same name.
- An analysis run approves the motion it writes: its review says that a PIN was
  verified and is dated ahead of the run (`analysis.py:956`).
- `bootstrap_case_11_12` looks for a completed run before it stores the documents;
  one that a user completes meanwhile gets a second beside it.
- A crash after the commit of an upload's row leaves "uploaded" until somebody
  reprocesses the document; the bootstrap programs skip a row that exists,
  whatever its status.
- `bootstrap_phase7_11` and `bootstrap_jury_workspace`, which ask
  `has_complete_flagship_data` (`analysis.py:1038`), are called idempotent (`README.md:65`, `server/README.md:29`,
  `bootstrap_jury_workspace.py:1`). It asks for eight contradictions and six
  procedural findings, which come from RECORD lines; the generated sources have
  none, so each execution adds a run. `SeededOnce` claims idempotence only of the
  programs that ask for a completed run, and of the pending one.
- `bootstrap_main` and `bootstrap_jury_workspace` write a token version they have
  computed from what they read (`bootstrap_main.py:393`). Two changes of the
  account meanwhile are lost, the version goes down, and a later reset may reach
  the version of a token that was issued and revoked before. `ResetEndsSessions`
  speaks of the executions in which no version was lowered.
- `bootstrap_casework_workspace` replaces a password hash without raising the token
  version, sets the status and assignment of its cases again, and puts motions of
  its review cases under review even when they have been approved.
- The newest analysis run is shown whatever its status; a failed one hides the
  results of the completed one before it (`platform.py:57`), or shows the part it
  had flushed.
- A run that meets a database error leaves no trace: the commit of "failed" raises
  in the same session (`analysis.py:1024`).
- The copilot's answers about the timeline and contradictions read all runs of the
  case, not the newest.
- In http mode the mapper shows an approval with the number of the current
  version, also when it was given for an older one (`mappers.ts:293`), although
  `docs/DECISIONS.md:21` speaks of exact version binding.
- A case that is created while a refresh of the workspace is under way appears
  twice, or disappears until the next refresh; an older answer replaces a newer
  one; resetting the demonstration without its case in the list drops what the
  server has listed. `ListsAgree` and `AuditEventsStay` say what remains true.
- Signing out or in while a refresh is under way: the answer that comes last
  decides what is stored.

## 5. Proofs

Each of the proof modules establishes an inductive invariant `IInv` for every
value of the constants, from the assumptions named in the module proved about
(TLC evaluates them in the runs), and the properties from it. The properties
alone are never inductive: they say nothing about what requests in flight have
read. Read the `IInv` of a module as the answer to the question what a request
may still rely on.

| Module | Theorems |
| --- | --- |
| `MotionLifecycleProofs` | `TypeCorrect`, `VersionsAreNumbered`, `NoUnlockWithoutApproval`, `VerdictsStay`, `ApprovalIsCurrent`, `ExportsAreApproved`, `SubmissionsAreCleared`, `ExportsUnlockNothing`, `ImplementsPromise`, `ReleasedApproved`, `RoutesReleaseApproved` |
| `AuthSessionsProofs` | `InvariantHolds`, `TypeCorrect`, `RevocationEndsTokens`, `OnlyLateOnesSurvive`, `RefreshedOnce`, `LogoutIsFinal`, `AdministratorStays`, `HoldersInvariance`, `ImplementsPromise`, `OneTokenEach`, `SignInsAreOver`, `HandlersKeepOneToken`, `HandlersEndSignIns`, `LogoutEndsSignIn` |
| `DocumentStoreProofs` | `Invariance`, `ContentsUnique`, `FilesAgree`, `DeletionIsFinal`, `SerialIsTruthful`, `ReprocessIsARepair`, `NoBinaryIsLost` |
| `TextExtractionProofs` | `Invariance`, `Limits`, `Honesty`, `CountInvariance`, `NothingIsLost` |
| `ClientSessionProofs` | `Invariance`, `NothingSpent`, `RetriesAreNew`, `SignOutsAreFinal`, `ShownOnlyWithSession` |
| `CaseAnalysisProofs` | `Invariance`, `CitationsStand`, `ReportsAreExact`, `ShownOnlyAdvances` |
| `BootstrapProofs` | `Invariance`, `ResetsEndSessions`, `RecordsInvariance`, `TypeCorrect`, `ProvisionedOnce`, `SourcesComplete` |
| `AppStoreProofs` | `Invariance`, `ApprovalsHold`, `ListsStayInAgreement`, `EventsStay` |

**Motion.** `IInv` adds `SnapshotsAreOld` (what a request has read is at most as
new as what is stored, and what made a loaded status unlocked or a loaded verdict
a pass is still there), `FreshSnapshots` (a request that nobody has overtaken has
read what is stored) and `NamedVersionsExist`. The unique index on version
numbers is what makes `CurrentVersionIsLatest` inductive: an insert that passes it
was computed from the newest version, so its number is the next. `CommitFacts` and
`CommitSnapshots` say once what any commit does to the snapshots of the others;
each handler then has one lemma. For the refinement, under `IInv` before and
after, every step is a step of `ApprovalPromise` or leaves its variables alone: a
commit that overlaps nothing has read what is stored and decides on the newest
version; one that does overlap keeps what `Overtaken` asks for by
`UnlockedOnlyByApproval`. `ReleasedApproved` says what the promise implies by
itself, and `RoutesReleaseApproved` that it therefore holds of the routes.

**Sessions on the server.** `VersionsCount` relates the token version in rows,
sessions and requests to the true count, which is what a late commit carries with
it. `LocksCover` says that the holder of a user's row lock is alone with it and
will revoke everything stored in time; it makes `OnlyLateSessionsSurvive`
inductive and bounds the token version. `SessionsNamed` says that an exchanged or
logged-out session is revoked and `RequestsFresh` that a request nobody has
overtaken still sees what admitted it: together they give the two properties of
rotation (the second, `LogoutEndsTheChain`, says that no session follows one that
was logged out) and the one of administrators.

The refinement needs to know more, and a second invariant, `HoldersInv`, is proved
under the first: whom each request works for, and that until it is stale it does
so on the word of a session that is still open (`Called`); that no session counts
more revocations than its user has had (`SessionsOld`); and that nothing is lost
without a race. A refresh copies the version it was admitted
with, therefore its session ends with the one it replaces; a revocation writes a
version that every session of its user is behind, unless its increment is lost.
`ImplementsPromise` is the step-by-step mapping. `OneTokenEach` and
`SignInsAreOver` say what the promise implies by itself: a sign-in is worth one
refresh token at a time, and once it has none it never has one again.
`HandlersKeepOneToken` and `HandlersEndSignIns` say that it therefore holds of the
handlers, and `LogoutEndsSignIn` follows: a logout spends the last token of its
sign-in.

**Session in the browser.** A token goes one way: issued by the server
(`TokensIssued`), on its way in an answer (`AnswersAreNew`: nobody holds or has
been refused it yet, and it is unspent), held, spent. `NoSpentTokenKept` and
`RetryOnNewToken` follow because only one refresh is ever in flight.
For `SignOutIsFinal` and `ShownWithSession` a second invariant, `Undisturbed`, is
proved under the first: until a sign-in, a sign-out and a refresh have overlapped,
at most one of them is under way, it carries the stored token, nothing else goes
on before the session is restored, and of the sessions the tab has known since the
sign-in only the stored one may be left.

**Documents.** `LoadedIsStored` says that a request that is not `stale` has loaded
what is stored; a step that changes a row makes every other request that has
loaded it stale. `ProcessingIsTrue` says why a row says "processing": a request works
on it, or its parser has raised, or there was a fault or an overlap; `FilesFollow` says where a file is by the step of the
request that moves it, `UploadsAlone` that nobody knows the identifier of a
document whose row is not committed. Steps that leave rows, pages and files alone
share one lemma; every other step has its own.

**Extraction.** The invariant follows the loop: what is split respects the page
limits, the kept pages are prefixes of the split ones, `total` is at most the
limit, and "truncated" is set exactly if one of them was cut. `NothingIsLost`
counts characters over sequences of any length. `Sum` is the last partial sum of
a sequence, chosen among functions; that there is one, that two of them agree and
what appending adds to it (`TotalsExist`, `TotalsAgree`, `SumOfAppend`) each follow
from the least number at which it would fail. `CountInv` then says that what is
placed and what the current page holds is what has been read, and (`StageInv`)
that splitting goes on exactly while something is left to read: it ends with the
sum of the whole text.

**Analysis.** `RunsOwned`: a call in a run has one to itself, which is open and
empty until its results are inserted. `RunsTrue`: what a run holds, committed or
not, cites existing pages and is real, and it is whole once its call has inserted
the results and when it has completed; a failed run is real only. `FindingsFact` is
the rule for contradictions as a fact about any number of lines on any pages: a key
of which any two lines differ has one that differs from its first, and of a set of
lines there is a first, which is a least number. `UpToFact` says that a part of the
findings is as real as the whole, `ClearedFact` and `ClearedReports` that a page
that goes takes its citations along and nothing else, `WithCitationsFact` that the
motion's citations need the foreign keys only. Committed runs stay committed,
therefore the greatest one never decreases, whoever commits first.

**Bootstrap programs.** A first invariant is about account, token and program only:
until a version is lowered a token's version is one the account has had
(`TokenIsOld`), a token of the current version is not older than the last reset
(`MatchesReset`), and while the program verifies the password only tokens issued
since go beyond the version it has read (`IssuedSinceRead`). The version it writes
is therefore no older token's, unless it is lower than the account's. This theorem
holds for every set of programs and any number of executions.

The second, `RecordsInv`, is about rows, files and analyses. It follows a program
through its files: a file is settled when its extraction has ended or a user or an
interruption explains why it may not have, and every file of a case still to do is
settled, in work or to do (`FilesSettle`, `Provided`); a case is therefore analysed
when all its files are settled (`AnalysedWhole`), and a run is added only where the
program has found none (`RunsOnce`); for `bootstrap_case_11_12`, which looks once,
that its one case has no seeded run while it stores the documents is a part of its
own (`Unanalysed`). It rests on `WorkspacesAssumption`, that the
programs of a workspace look up the same organisation, which the slugs in the
scripts say: `bootstrap_phase7_11`, which analyses without storing documents,
shares one with `bootstrap_main` only.

**Store of the browser.** Each operation on a record has a lemma: what it makes of
a record that is typed, lists no document twice and holds a justified approval
(`Justified`: an approval passes the gate) is such a record. `GateIgnores` says that
the gate reads neither documents nor workflow; saving and deciding withdraw the
approval; including a strategy asks for what the gate asks for. The invariant says
this of every case, since a case that is not shown may be shown again, and that in
mock mode no call is under way. In http mode only the records' types and lists are
kept: there the approval is the server's.

**Only model-checked.** The liveness properties `UploadsSettle`, `Settles` and
`CallsSettle`: liveness under fairness and ENABLED are out of the prover's reach.
Every invariant and every action property of a run is proved. The induction
theorems of the library are out of reach too, since they take an operator as a
parameter; where an argument goes over data it is by the least counterexample
(`WFMin`). The modules proved about use no recursive operator. The invariants
`IInv` of `MotionLifecycle` is also checked in a run; those of the other modules,
`HoldersInv`, `RecordsInv` and `CountInv` among them, were checked on the instances
of their runs before they were proved.

## 6. What is not modelled, and why

- *Content.* Text of motions, pages, prompts and answers; password hashing and the
  cryptography of tokens (a token is what it claims while its signature is valid);
  the layout of exports. No property here is about them, except that a motion's
  text may contain a rejected argument (`MotionGate`).
- *Other tenants.* All queries are restricted to the caller's organisation or
  case; the modules describe one organisation, one motion, one case.
- *Refusals that change nothing.* Tests of role, organisation and input whose
  outcome no handler can change are constants and have no action.
- *Audit events* are inserts in the same transaction as the event and are read by
  no handler but the dashboard. The exception, the export event, is modelled. The
  lines the browser itself adds to its list, and `recordExport`, are left out: the
  gate does not read them.
- *Creating and listing users*: a new user takes part in nothing until it signs in,
  so `Users` is the set of all that ever exist.
- *The copilot's answer*: which pages it cites and what it says is text. Its steps
  and its commit are in `CaseAnalysis`.
- *The sources of a strategy* (`supporting_source_ids_json`, `analysis.py:845`) are
  identifiers in a JSON column without a foreign key: nothing clears them when a
  page goes, and `CitedPagesExist` is not about them.
- *A motion that a failing run has flushed without its review* is not followed in
  `MotionLifecycle`; in `AppStore` it is one of `Failures`.
- *The thirteen agents of a run* are rows that follow the run's status; their
  summaries are constant texts.
- *Two bootstrap programs at one time*: they are started by hand, one after the
  other. The files they generate are left out.
- *Cases, dashboard, configuration, health, migrations, pages of the interface*:
  single-row writes, counts, start-up code and rendering.
- *A failed database.* Except for the commits of `DocumentStore` and the runs of
  `CaseAnalysis`, a failing statement is a request that ends without effect.

## 7. What is left

Each module is checked by itself; they meet in their constants and in the commits
of one that appear as steps of another (`PagesGo` in `CaseAnalysis`, `Extract` in
`DocumentStore`, the server's half in `ClientSession` and `AppStore`). The next
steps, in this order:

1. **`ClientSession` on `AuthSessions`**: the server's half of the tab as an
   instance of `AuthSessions`, so that a password change of another tab overlaps
   the refresh of this one.
2. **`AppStore` against `ApprovalPromise`**: in mock mode the gate of the browser
   should keep the promise of the server's gate, with the approval by version as
   the mapping.
3. **The copilot's citations**, once they are more than text: today an answer keeps
   copies of what it cites, also of pages that have gone.
