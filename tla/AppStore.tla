------------------------------ MODULE AppStore ------------------------------
(***************************************************************************)
(* The store of the browser (client/src/stores/app-store.ts with           *)
(* lib/api/mappers.ts) in its two modes: "mock", where everything happens  *)
(* in the browser, and "http", where its calls of the server overlap and   *)
(* their answers are applied in the order in which they arrive.            *)
(***************************************************************************)
EXTENDS MotionGate, FiniteSets

CONSTANTS
    Modes,      \* the data modes to consider
    Cases,      \* the cases there may be
    Demo,       \* the demonstration case, which the server has as well
    Seed,       \* the motion of the seed
    Served,     \* the motion text of a version on the server
    Decisions,  \* what is decided about which ethics argument in a mode
    NoCase,     \* no case is selected
    Busy,       \* bound: the cases that are worked on in the browser
    Calls,      \* operations of the store that may be under way
    Kinds,      \* which operations
    MaxEvents,  \* bound: audit events of the server
    MaxChanges  \* bound: runs of an analysis, edits and reviews of its motion

AllKinds == {"refreshWorkspace", "createPersistentCase",
             "uploadPersistentDocument", "deleteDocumentMetadata",
             "syncDocuments", "runPersistentAnalysis", "savePersistentMotion",
             "reviewPersistentMotion", "refreshAnalysis", "syncAuditEvents"}

ASSUME StoreAssumption ==
    /\ Modes \subseteq {"mock", "http"} /\ Kinds \subseteq AllKinds
    /\ Decisions \in [{"mock", "http"} ->
                      SUBSET (Arguments \X {"approved", "rejected", "revision"})]
    /\ Demo \in Busy /\ Busy \subseteq Cases /\ NoCase \notin Cases
    /\ {Seed, Served} \subseteq Substantive /\ MaxEvents \in Nat
    /\ MaxVersions >= 2 /\ MaxChanges \in Nat

VARIABLES
    mode,      \* publicEnv.dataMode
    listed,    \* how often each case is in state.cases
    record,    \* what the store holds of it
    selected,  \* selectedCaseId
    events,    \* the audit events of the server that are shown
    server,    \* the server: cases, documents, analyses, number of events and
               \* of changes to analyses
    call       \* the operations under way

vars == <<mode, listed, record, selected, events, server, call>>

\* What getAnalysisSummary says of a case: its latest run, whether that has
\* strategies and ethics findings, and its motion: the last version, whether
\* any review approves it, whether changes are requested.  A run commits
\* nothing before it ends, so that nobody is told of a running one.
Analysis   == [run: {"none", "completed", "failed"}, found: BOOLEAN,
               version: 0 .. MaxVersions, approved: BOOLEAN, revise: BOOLEAN]

Ended(run, found, version, approved) ==
    [run |-> run, found |-> found, version |-> version, approved |-> approved,
     revise |-> FALSE]

Unanalysed == Ended("none", FALSE, 0, FALSE)

\* run_case_analysis writes two versions and the review that approves them,
\* nothing when the case has no page, or fails with what it has flushed: a
\* motion without its versions, or with them and without a review.
WithResults == Ended("completed", TRUE, 2, TRUE)
Completions == {WithResults, Ended("completed", FALSE, 0, FALSE)}
Failures    == {Ended("failed", FALSE, 0, FALSE), Ended("failed", TRUE, 0, FALSE),
                Ended("failed", TRUE, 2, FALSE)}

Server == [cases: SUBSET Cases, documents: [Cases -> SUBSET Documents],
           analysis: [Cases -> Analysis], events: 0 .. MaxEvents,
           changes: 0 .. MaxChanges]

FirstServer == [cases     |-> {Demo},
                documents |-> [c \in Cases |-> {}],
                analysis  |-> [c \in Cases |-> IF c = Demo THEN WithResults
                                              ELSE Unanalysed],
                events    |-> 0, changes |-> 0]

\* documents is the document an upload or a deletion is about, answer what the
\* server has read for the call; unread counts the requests a refresh of the
\* workspace has still to make for a listed case.
Call == [at: {"idle", "sent", "answered"},
         kind: AllKinds \cup {"none"}, case: Cases, documents: SUBSET Documents,
         unread: [Cases -> 0 .. 2], answer: Server]
Idle == [at |-> "idle", kind |-> "none", case |-> Demo, documents |-> {},
         unread |-> [c \in Cases |-> 0], answer |-> FirstServer]

TypeOK ==
    /\ mode \in Modes
    /\ listed \in [Cases -> Nat]
    /\ record \in [Cases -> Record]
    /\ selected \in Cases \cup {NoCase}
    /\ events \subseteq 1 .. MaxEvents
    /\ server \in Server
    /\ call \in [Calls -> Call]

\* The seed alone.  In http mode its identifier is none of the server's: it
\* stands for no case until the first list has come.
OnlySeed == [c \in Cases |-> IF mode = "mock" /\ c = Demo THEN 1 ELSE 0]
SeedId   == IF mode = "mock" THEN Demo ELSE NoCase

Init ==
    /\ mode \in Modes
    /\ listed = OnlySeed
    /\ record = [c \in Cases |-> IF c = Demo THEN SeedRecord(Seed)
                                 ELSE EmptyRecord]
    /\ selected = SeedId
    /\ events = {}
    /\ server = FirstServer
    /\ call = [i \in Calls |-> Idle]

Shown == {c \in Cases : listed[c] > 0}

\* updateCase: a case that is not in the list is left alone.
UpdateCase(c, r) ==
    record' = IF c \in Shown THEN [record EXCEPT ![c] = r] ELSE record

-----------------------------------------------------------------------------
(* The operations on the page, in either mode.                             *)

Locally(c) == /\ c \in Shown
              /\ UNCHANGED <<mode, listed, selected, events, server, call>>

SetStrategyIncluded(c, s, include) ==
    /\ Locally(c)
    /\ UpdateCase(c, WithStrategy(record[c], s, include))

ReviewEthicsArgument(c, a, status) ==
    /\ record[c].ethics[a] \notin {"none", status}
    /\ Locally(c)
    /\ UpdateCase(c, Reviewed(record[c], a, status))

SelectCase(c) ==
    /\ c \in Shown
    /\ selected' = c
    /\ UNCHANGED <<mode, listed, record, events, server, call>>

\* resetDemo.  In http mode the case the server has as well keeps its place,
\* its documents and the server's events; without it, or in mock mode, the
\* seed is all there is.
ResetDemo ==
    LET kept == mode = "http" /\ Demo \in Shown IN
    /\ record' = [record EXCEPT ![Demo] =
                    IF kept THEN [SeedRecord(Seed) EXCEPT
                                    !.documents = record[Demo].documents,
                                    !.processed = record[Demo].processed]
                    ELSE SeedRecord(Seed)]
    /\ listed' = IF kept THEN listed ELSE OnlySeed
    /\ events' = IF kept THEN events ELSE {}
    /\ selected' = IF kept THEN Demo ELSE SeedId
    /\ UNCHANGED <<mode, server, call>>

-----------------------------------------------------------------------------
(* The operations of the mock mode.                                        *)

Mocked(c) == mode = "mock" /\ Locally(c)

CreateCase(c) ==
    /\ mode = "mock" /\ c \notin Shown
    /\ listed' = [listed EXCEPT ![c] = @ + 1]
    /\ record' = [record EXCEPT ![c] = EmptyRecord]
    /\ selected' = c
    /\ UNCHANGED <<mode, events, server, call>>

\* addDocuments takes names that are not there yet.
AddDocument(c, d) ==
    /\ record[c].documents[d] = 0
    /\ Mocked(c)
    /\ UpdateCase(c, [record[c] EXCEPT !.documents[d] = 1])

\* registerDocumentMetadata: the document counts as processed at once.
RegisterDocument(c, d) ==
    /\ record[c].documents[d] = 0
    /\ Mocked(c)
    /\ UpdateCase(c, [record[c] EXCEPT !.documents[d] = 1,
                                       !.processed = @ \cup {d}])

\* deleteDocumentMetadata
DeleteDocument(c, d) ==
    /\ record[c].documents[d] > 0
    /\ Mocked(c)
    /\ UpdateCase(c, [record[c] EXCEPT !.documents[d] = 0,
                                       !.processed = @ \ {d}])

ProcessDocuments(c) ==
    /\ Mocked(c)
    /\ UpdateCase(c, [record[c] EXCEPT
                        !.processed = {d \in Documents :
                                          record[c].documents[d] > 0}])

\* startWorkflow, pauseWorkflow, resumeWorkflow
Started(r) ==
    LET added == {d \in Documents : r.documents[d] > 0} IN
    r.workflow.status = "idle" /\ added # {} /\ added \subseteq r.processed

MoveWorkflow(c, from, to) ==
    /\ record[c].workflow.status = from
    /\ <<from, to>> \in {<<"idle", "running">>, <<"running", "paused">>,
                         <<"paused", "running">>}
    /\ from = "idle" => Started(record[c])
    /\ Mocked(c)
    /\ UpdateCase(c, [record[c] EXCEPT !.workflow.status = to])

\* advanceWorkflow: the last agent completes the workflow.
AdvanceWorkflow(c) ==
    LET w == record[c].workflow IN
    /\ w.status = "running"
    /\ Mocked(c)
    /\ UpdateCase(c, [record[c] EXCEPT
                        !.workflow = IF w.index = Agents - 1
                                     THEN [w EXCEPT !.status = "completed"]
                                     ELSE [w EXCEPT !.index = @ + 1]])

ResetWorkflow(c) ==
    /\ Mocked(c)
    /\ UpdateCase(c, [record[c] EXCEPT !.workflow = EmptyRecord.workflow])

SaveMotion(c, text) ==
    /\ text # record[c].motion
    /\ record[c].version < MaxVersions
    /\ Mocked(c)
    /\ UpdateCase(c, Saved(record[c], text))

ApproveMotion(c) ==
    /\ record[c].motion # NoText
    /\ ~ExportUnlocked(record[c]) /\ Approvable(record[c])
    /\ Mocked(c)
    /\ UpdateCase(c, Approved(record[c]))

-----------------------------------------------------------------------------
(* The operations of the http mode.                                        *)

OfOneDocument == {"uploadPersistentDocument", "deleteDocumentMetadata"}
OfTheAnalysis == {"runPersistentAnalysis", "savePersistentMotion",
                  "reviewPersistentMotion"}

Send(i, kind, c) ==
    /\ mode = "http"
    /\ call[i].at = "idle"
    /\ kind \in Kinds
    /\ \/ kind = "refreshWorkspace" /\ c = Demo
       \/ kind = "createPersistentCase" /\ c \notin server.cases
       \/ kind \notin {"refreshWorkspace", "createPersistentCase"}
          /\ c \in Busy \cap Shown \cap server.cases
    /\ \E d \in Documents :
          call' = [call EXCEPT
                     ![i] = [Idle EXCEPT
                               !.at = "sent", !.kind = kind, !.case = c,
                               !.documents = IF kind \in OfOneDocument
                                             THEN {d} ELSE {}]]
    /\ UNCHANGED <<mode, listed, record, selected, events, server>>

\* An edit makes the motion a draft again and keeps its reviews; a review is
\* added to the others and decides the motion's status.
Edited(a) == [a EXCEPT !.version = @ + 1, !.revise = FALSE]

Judged(a, decision) ==
    [a EXCEPT !.approved = @ \/ decision = "approved",
              !.revise   = decision = "changes_requested"]

\* What the server makes of a call; reading calls change nothing.
Changed(kind, c, about, outcome, decision) ==
    CASE kind = "createPersistentCase" ->
             [server EXCEPT !.cases = @ \cup {c}]
      [] kind = "uploadPersistentDocument" ->
             [server EXCEPT !.documents[c] = @ \cup about]
      [] kind = "deleteDocumentMetadata" ->
             [server EXCEPT !.documents[c] = @ \ about]
      [] kind = "runPersistentAnalysis" ->
             [server EXCEPT !.analysis[c] = outcome, !.changes = @ + 1]
      [] kind = "savePersistentMotion" ->
             [server EXCEPT !.analysis[c] = Edited(@), !.changes = @ + 1]
      [] kind = "reviewPersistentMotion" ->
             [server EXCEPT !.analysis[c] = Judged(@, decision), !.changes = @ + 1]
      [] OTHER -> server

Reads(kind) == kind \in {"refreshWorkspace", "syncDocuments", "refreshAnalysis",
                         "syncAuditEvents"}

\* What an answer to the call is used for.
Answer(kind, c, known) ==
    [cases     |-> IF kind = "refreshWorkspace" THEN known.cases ELSE {Demo},
     documents |-> [o \in Cases |->
                      IF kind = "syncDocuments" /\ o = c
                      THEN known.documents[o] ELSE {}],
     analysis  |-> [o \in Cases |->
                      IF kind = "refreshAnalysis" /\ o = c
                      THEN known.analysis[o] ELSE Unanalysed],
     events    |-> IF kind \in {"refreshWorkspace", "syncAuditEvents"}
                   THEN known.events ELSE 0,
     changes   |-> 0]

\* An upload is of a content the case does not have yet.
Possible(kind, c, about) ==
    \/ Reads(kind)
    \/ /\ server.events < MaxEvents
       /\ kind \in OfTheAnalysis => server.changes < MaxChanges
       /\ kind = "uploadPersistentDocument" =>
             about \cap server.documents[c] = {}
       /\ kind = "deleteDocumentMetadata" => about \subseteq server.documents[c]
       /\ kind = "savePersistentMotion" =>
             server.analysis[c].version \in 1 .. MaxVersions - 1
       /\ kind = "reviewPersistentMotion" => server.analysis[c].version > 0
       /\ kind = "createPersistentCase" => c \notin server.cases

\* The summary is of the run that began last: one that ends after a later one
\* leaves it as it is.
Outcomes(c, ends) == ends \cup ({server.analysis[c]} \ {Unanalysed})

\* The server serves a call.  One audit event stands for those of a change.
Serve(i) ==
    LET kind == call[i].kind
        c    == call[i].case
    IN
    /\ call[i].at = "sent"
    /\ Possible(kind, c, call[i].documents)
    /\ \E outcome \in Outcomes(c, Completions),
          decision \in {"approved", "changes_requested", "rejected"} :
          server' = IF Reads(kind) THEN server
                    ELSE [Changed(kind, c, call[i].documents, outcome, decision)
                             EXCEPT !.events = @ + 1]
    /\ call' = [call EXCEPT
                  ![i].at = "answered",
                  ![i].unread = [o \in Cases |->
                                   IF kind = "refreshWorkspace"
                                      /\ o \in server.cases \cap Busy
                                   THEN 2 ELSE 0],
                  ![i].answer = Answer(kind, c, server')]
    /\ UNCHANGED <<mode, listed, record, selected, events>>

\* Refreshing the workspace takes more requests: for each listed case its
\* documents and then its analysis, the cases beside one another.  A case
\* nobody works on has neither.
ServeCase(i, c) ==
    /\ call[i].at = "answered" /\ call[i].unread[c] > 0
    /\ call' = [call EXCEPT
                  ![i].unread[c] = @ - 1,
                  ![i].answer = IF call[i].unread[c] = 2
                                THEN [@ EXCEPT !.documents[c] = server.documents[c]]
                                ELSE [@ EXCEPT !.analysis[c] = server.analysis[c]]]
    /\ UNCHANGED <<mode, listed, record, selected, events, server>>

\* A run that fails is the latest one all the same; the call gets an error.
AnalysisFails(i) ==
    LET c == call[i].case IN
    /\ call[i].at = "sent" /\ call[i].kind = "runPersistentAnalysis"
    /\ server.changes < MaxChanges
    /\ \E outcome \in Outcomes(c, Failures) :
          server' = [server EXCEPT !.analysis[c] = outcome, !.changes = @ + 1]
    /\ call' = [call EXCEPT ![i] = Idle]
    /\ UNCHANGED <<mode, listed, record, selected, events>>

\* The call is refused, or its answer is lost: the page reports an error.
CallFails(i) ==
    /\ call[i].at # "idle"
    /\ call' = [call EXCEPT ![i] = Idle]
    /\ UNCHANGED <<mode, listed, record, selected, events, server>>

\* The documents as they are listed by the server (mergeBackendDocuments).
AsListed(answer, c) ==
    [d \in Documents |-> IF d \in answer.documents[c] THEN 1 ELSE 0]

\* applyBackendAnalysis: without a run the record is left alone; with one the
\* motion is the server's, or none, every ethics decision pending, and an
\* approval of any version counts as one of the current version.  The agents of
\* a failed run have failed, those of a completed one are all completed.
Analysed(r, answer, c) ==
    LET m         == answer.analysis[c]
        completed == m.run = "completed"
        text      == IF m.version > 0 THEN Served ELSE NoText
        judged    == IF m.found THEN "pending" ELSE "none"
    IN
    IF m.run = "none" THEN r
    ELSE [r EXCEPT
            !.ethics = [a \in Arguments |-> judged],
            !.stance = [s \in Strategies |-> judged],
            !.included = {}, !.cited = FALSE,
            !.workflow = [status |-> IF completed THEN "completed" ELSE "idle",
                          index  |-> IF completed THEN Agents - 1 ELSE 0],
            !.motion = text, !.saved = text, !.version = m.version,
            !.approval = IF m.approved THEN m.version ELSE 0,
            !.review = IF m.approved THEN "approved"
                       ELSE IF m.revise THEN "revision" ELSE "pending",
            !.fixture = FALSE]

Mapped(answer, c) ==
    Analysed([EmptyRecord EXCEPT !.documents = AsListed(answer, c),
                                 !.processed = answer.documents[c],
                                 !.fixture = FALSE], answer, c)

\* mergeAuditEvents keeps what is shown already; the dashboard has the most
\* recent event only.
Recent(answer)     == {answer.events} \ {0}
OnlyTheNew(new)    == new
WithTheShown(new)  == events \cup new

\* The selected case, or the demonstration case, or another, or none.
AsSelected(answer) == selected
Selectable(answer) == IF selected \in answer.cases THEN selected
                      ELSE IF Demo \in answer.cases THEN Demo
                      ELSE IF answer.cases = {} THEN NoCase
                      ELSE CHOOSE c \in answer.cases : TRUE

\* A document takes the place of one with its identifier.
Replaced(docs, new) == [d \in Documents |-> IF d \in new THEN 1 ELSE docs[d]]
Removed(docs, old)  == [d \in Documents |-> IF d \in old THEN 0 ELSE docs[d]]

ApplyWorkspace(i) ==
    LET answer == call[i].answer IN
    /\ call[i].kind = "refreshWorkspace"
    /\ \A c \in Cases : call[i].unread[c] = 0
    /\ listed' = [c \in Cases |-> IF c \in answer.cases THEN 1 ELSE 0]
    /\ record' = [c \in Cases |-> IF c \in answer.cases THEN Mapped(answer, c)
                                  ELSE record[c]]
    /\ selected' = Selectable(answer)
    /\ events' = WithTheShown(Recent(answer))

\* The created case is appended, whether or not it is there by now.
ApplyCase(i) ==
    LET c == call[i].case IN
    /\ call[i].kind = "createPersistentCase"
    /\ listed' = [listed EXCEPT ![c] = @ + 1]
    /\ record' = IF c \in Shown THEN record
                 ELSE [record EXCEPT ![c] = [EmptyRecord EXCEPT !.fixture = FALSE]]
    /\ selected' = c
    /\ UNCHANGED events

ApplyDocuments(i) ==
    LET c == call[i].case
        r == record[c]
    IN
    /\ \/ /\ call[i].kind = "syncDocuments"
          /\ UpdateCase(c, [r EXCEPT
                              !.documents = AsListed(call[i].answer, c),
                              !.processed = call[i].answer.documents[c]])
       \/ /\ call[i].kind = "uploadPersistentDocument"
          /\ UpdateCase(c, [r EXCEPT
                              !.documents = Replaced(@, call[i].documents),
                              !.processed = @ \cup call[i].documents])
       \/ /\ call[i].kind = "deleteDocumentMetadata"
          /\ UpdateCase(c, [r EXCEPT
                              !.documents = Removed(@, call[i].documents),
                              !.processed = @ \ call[i].documents])
    /\ UNCHANGED <<listed, selected, events>>

ApplyAnalysis(i) ==
    LET c == call[i].case IN
    /\ call[i].kind = "refreshAnalysis"
    /\ UpdateCase(c, Analysed(record[c], call[i].answer, c))
    /\ UNCHANGED <<listed, selected, events>>

ApplyEvents(i) ==
    /\ call[i].kind = "syncAuditEvents"
    /\ events' = WithTheShown(1 .. call[i].answer.events)
    /\ UNCHANGED <<listed, record, selected>>

\* After an analysis, or after a motion has been saved or reviewed, the answer
\* is not used: the analysis is read again.
ReadAgain(i) ==
    /\ call[i].kind \in OfTheAnalysis
    /\ UNCHANGED <<listed, record, selected, events>>

Apply(i) ==
    /\ call[i].at = "answered"
    /\ \/ ApplyWorkspace(i) \/ ApplyCase(i) \/ ApplyDocuments(i)
       \/ ApplyAnalysis(i) \/ ApplyEvents(i) \/ ReadAgain(i)
    /\ call' = [call EXCEPT
                  ![i] = IF call[i].kind \in OfTheAnalysis
                         THEN [Idle EXCEPT !.at = "sent",
                                           !.kind = "refreshAnalysis",
                                           !.case = call[i].case]
                         ELSE Idle]
    /\ UNCHANGED <<mode, server>>

-----------------------------------------------------------------------------

OnThePage(c) ==
    \/ \E s \in Strategies, include \in BOOLEAN :
          SetStrategyIncluded(c, s, include)
    \/ \E decision \in Decisions[mode] :
          ReviewEthicsArgument(c, decision[1], decision[2])

InMockMode(c) ==
    \/ ProcessDocuments(c)
    \/ \E d \in Documents :
          AddDocument(c, d) \/ RegisterDocument(c, d) \/ DeleteDocument(c, d)
    \/ \E from, to \in {"idle", "running", "paused"} : MoveWorkflow(c, from, to)
    \/ AdvanceWorkflow(c) \/ ResetWorkflow(c)
    \/ \E text \in Bodies : SaveMotion(c, text)
    \/ ApproveMotion(c)

Next ==
    \/ ResetDemo
    \/ \E c \in Cases : SelectCase(c) \/ CreateCase(c)
    \/ \E c \in Busy : OnThePage(c) \/ InMockMode(c)
    \/ \E i \in Calls :
          \/ \E kind \in Kinds, c \in Cases : Send(i, kind, c)
          \/ \E c \in Cases : ServeCase(i, c)
          \/ Serve(i) \/ AnalysisFails(i) \/ Apply(i) \/ CallFails(i)

Spec == Init /\ [][Next]_vars

-----------------------------------------------------------------------------
(* Properties.                                                             *)

\* In mock mode an approval stands only while everything it was given for
\* still holds: whatever is edited, decided or included afterwards, in any
\* order, either keeps the gate open or withdraws the approval (saveMotion,
\* reviewEthicsArgument and setStrategyIncluded against getMotionGateStatus).
ApprovedIsExportable ==
    mode = "mock" => \A c \in Shown :
        record[c].approval # 0 => ExportUnlocked(record[c])

\* Whatever order the answers arrive in, the selected case is one of those
\* in the list, and no document is listed twice in a case (refreshWorkspace
\* against createPersistentCase, syncDocuments against an upload).
ListsAgree ==
    /\ selected \in Shown \cup {NoCase}
    /\ \A c \in Cases : \A d \in Documents : record[c].documents[d] <= 1

\* In http mode an audit event of the server that is shown stays, also when
\* an older answer arrives later and when the demonstration is reset while
\* its case is in the list (mergeAuditEvents, resetDemo).
AuditEventsStay ==
    [][mode = "http" /\ Demo \in Shown => events \subseteq events']_vars
=============================================================================
