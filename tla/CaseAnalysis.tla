---------------------------- MODULE CaseAnalysis ----------------------------
(***************************************************************************)
(* The analysis runs and the copilot of one case                           *)
(* (server/app/services/analysis.py, services/platform.py and their        *)
(* routes), while the documents they read are reprocessed and deleted.     *)
(*                                                                         *)
(* A run and a copilot message are each one transaction: what they flush   *)
(* is seen by nobody else until their commit, but its foreign keys and     *)
(* unique indexes already block the transactions of others.  A statement   *)
(* sees what was committed when it began (READ COMMITTED).  The routes of  *)
(* documents appear as their commits (see DocumentStore for their steps).  *)
(***************************************************************************)
EXTENDS Naturals, Sequences, FiniteSets

CONSTANTS
    Documents,      \* numbers, in the order of their file names
    Values,         \* what a RECORD line says of its key, up to case
    Clock,          \* the time of day a value contains, 0 if none
    Incomplete,     \* the values that call a certificate incomplete or absent
    Missing,        \* the values that say that something is not recorded
    Readings,       \* the pages and RECORD lines the case may have
    Settings,       \* whether a model service is configured, and a fallback
    Calls,          \* server calls that may overlap
    FactLimit,      \* the most facts of a run (60)
    ReferenceLimit, \* the most of them without any RECORD line (20)
    TimelineLimit,  \* the most timeline events of a run (30)
    MaxRequests,    \* bound: runs started, and questions asked or answered
    MaxExtractions  \* bound: extractions of documents, the first as one

\* A RECORD line: its page, its key and value, and its place in the order of
\* the timeline (the date of its page, then the time in its value).
Line == [document: Documents, number: Nat \ {0}, key: STRING, value: Values,
         when: Nat]

ASSUME DocumentsAssumption == Documents \subseteq Nat
ASSUME ReadingsAssumption ==
    \A r \in Readings :
        /\ r.pages \in [Documents -> Nat \ {0}]
        /\ r.lines \in Seq(Line)
        /\ \A i \in 1 .. Len(r.lines) :
              r.lines[i].number \in 1 .. r.pages[r.lines[i].document]
ASSUME ConstantsAssumption ==
    /\ Clock \in [Values -> Nat]
    /\ Settings \subseteq [nvidia_nim: BOOLEAN, ai_fallback_enabled: BOOLEAN]
    /\ ReferenceLimit <= FactLimit
ASSUME CallsAssumption == IsFiniteSet(Calls)
ASSUME BoundsAssumption ==
    MaxRequests \in Nat /\ MaxExtractions \in Nat \ {0}

VARIABLES
    says,         \* the pages of each document and the RECORD lines on them,
                  \* in the order in which a run reads them
    document,     \* the extraction that the pages of each document are from
    extracted,    \* the number of the last extraction
    runs,         \* the runs in the order of created_at
    authorities,  \* the synthetic authorities of the organisation
    call,         \* the server calls under way
    settings,     \* the settings of the server
    answered      \* the copilot questions stored with their answers

vars == <<says, document, extracted, runs, authorities, call, settings, answered>>

\* The keys whose differing values are a contradiction, and those that make a
\* timeline event.
CONTRADICTION_TITLES ==
    {"incident_time", "location", "custody_time", "arrest_time", "seal_code",
     "clothing", "electronic_export_time", "medical_time", "checksum",
     "identification_time", "witness_event_time", "bag_description",
     "cctv_export_time"}
TIMELINE_TITLES ==
    {"incident_time", "custody_time", "arrest_time", "electronic_export_time",
     "medical_time", "transport_arrival_time", "identification_time",
     "authorisation_time", "search_start_time", "officer_arrival_time",
     "officers_departure_time", "witness_event_time", "laptop_sealed_time",
     "property_register_time", "cctv_export_time", "certificate_export_time",
     "single_photo_identification_time", "formal_photo_array_time",
     "seal_code"}

\* The pages of a document are of its last extraction; it has none, 0, while it
\* is not "processed" (it is being processed, has failed or is deleted).  A
\* page extracted again is another row.  In a citation 0 stands for NULL.
Extractions == 0 .. MaxExtractions
Page == [document: Documents, number: Nat, extraction: Extractions]

\* The extraction of each document whose pages a run has loaded, 0 if none.
Sources == [Documents -> Extractions]
Unread  == [d \in Documents |-> 0]

\* What a run stores: the pages that its facts, timeline events, procedural
\* findings and motion citations cite, and its contradictions, each between
\* two RECORD lines with their pages.
Contradiction == [first: Nat, second: Nat, pages: Page \X Page]
Findings == [facts: SUBSET Page, timeline: SUBSET Page,
             contradictions: SUBSET Contradiction,
             procedural: SUBSET Page, citations: SUBSET Page]
NoFindings == [facts |-> {}, timeline |-> {}, contradictions |-> {},
               procedural |-> {}, citations |-> {}]

\* open: flushed but not committed; gone: rolled back.  read is what the run
\* has loaded, a variable of run_case_analysis.
Run == [status: {"open", "gone", "failed", "completed"},
        agents: {"running", "failed", "completed"},
        read: Sources, found: Findings]

RunStages == {"started", "loaded", "listed", "grounded", "stored"}
Stages == RunStages \cup {"idle", "waiting", "composing"}

Call == [at: Stages, run: 0 .. MaxRequests, known: BOOLEAN, attempt: 0 .. 2]
Idle == [at |-> "idle", run |-> 0, known |-> FALSE, attempt |-> 0]

TypeOK ==
    /\ says \in Readings
    /\ document \in Sources /\ extracted \in Extractions
    /\ runs \in Seq(Run) /\ Len(runs) <= MaxRequests
    /\ authorities \in {"none", "stored"} \cup Calls
    /\ call \in [Calls -> Call]
    /\ settings \in Settings
    /\ answered \in Nat

Init ==
    /\ says \in Readings
    /\ document = [d \in Documents |-> 1] /\ extracted = 1
    /\ runs = << >>
    /\ authorities = "none"
    /\ call = [c \in Calls |-> Idle]
    /\ settings \in Settings
    /\ answered = 0

-----------------------------------------------------------------------------
(* Reading.                                                                *)

\* The pages of the processed documents (_load_sources, _load_all_pages).
Loaded == document

SourcePages(r, S) ==
    UNION {[document: {d}, number: 1 .. r.pages[d], extraction: {S[d]}] :
              d \in {d \in Documents : S[d] # 0}}

Before(p, q) == \/ p.document < q.document
                \/ p.document = q.document /\ p.number < q.number
FirstPages(P, n) == {p \in P : Cardinality({q \in P : Before(q, p)}) < n}

\* The lines that the pages contain, by their index; a page can have many.
LinesRead(r, S) == {i \in 1 .. Len(r.lines) : S[r.lines[i].document] # 0}

Observation == [at: Nat, line: Line, extraction: Extractions]
Observations(r, S) ==
    {[at |-> i, line |-> r.lines[i], extraction |-> S[r.lines[i].document]] :
        i \in LinesRead(r, S)}

PageOf(o) == [document   |-> o.line.document,
              number     |-> o.line.number,
              extraction |-> o.extraction]

First(O) == CHOOSE o \in O : \A p \in O : o.at <= p.at

\* list_for_run and the other readers see committed rows.
Committed == {i \in 1 .. Len(runs) : runs[i].status \in {"failed", "completed"}}

Oldest(R) == CHOOSE i \in R : \A j \in R : i <= j
Newest(R) == CHOOSE i \in R : \A j \in R : i >= j

\* latest_analysis_run, 0 if there is none: by created_at, whatever its status.
LatestRun == IF Committed = {} THEN 0 ELSE Newest(Committed)

-----------------------------------------------------------------------------
(* What a run makes of its sources.                                        *)

\* The facts: of the first observations, or the first pages if there are none.
FactPages(P, O) ==
    IF O = {} THEN FirstPages(P, ReferenceLimit)
    ELSE {PageOf(o) : o \in {o \in O :
             Cardinality({p \in O : p.at < o.at}) < FactLimit}}

\* The timeline: the earliest of the observations with a key for it.
Earlier(p, o) == \/ p.line.when < o.line.when
                 \/ p.line.when = o.line.when /\ p.at < o.at
TimelinePages(O) ==
    LET timed == {o \in O : o.line.key \in TIMELINE_TITLES} IN
    {PageOf(o) : o \in {o \in timed :
        Cardinality({p \in timed : Earlier(p, o)}) < TimelineLimit}}

WithKey(O, k) == {o \in O : o.line.key = k}

\* The observations of a key with another value than its first.
AnyOther(O, k)  == {o \in WithKey(O, k) : o.at # First(WithKey(O, k)).at}
Differing(O, k) == LET value == First(WithKey(O, k)).line.value IN
                   {o \in WithKey(O, k) : o.line.value # value}

\* The keys of which the observations disagree.  A contradiction holds the
\* first observations of the first two values, on whichever pages they are.
Contradicted(O) == {k \in CONTRADICTION_TITLES : Differing(O, k) # {}}

ContradictionOf(O, k) ==
    LET o == First(WithKey(O, k))
        p == First(Differing(O, k)) IN
    [first |-> o.at, second |-> p.at, pages |-> <<PageOf(o), PageOf(p)>>]

\* The keys whose first observation a procedural finding cites: some because
\* of a contradiction, some because two keys occur or their times are in the
\* wrong order.
Has(O, k)    == WithKey(O, k) # {}
TimeOf(O, k) == Clock[First(WithKey(O, k)).line.value]

Questioned(O) ==
    {k \in {o.line.key : o \in O} :
        \/ /\ k \in {"seal_code", "electronic_export_time", "checksum"}
           /\ k \in Contradicted(O)
        \/ k = "custody_time" /\ Has(O, "arrest_time")
        \/ /\ k = "arrest_time"
           /\ k \in Contradicted(O) /\ ~Has(O, "custody_time")
        \/ k = "identification_time" /\ Has(O, "authorisation_time")
        \/ k = "medical_time" /\ Has(O, "transport_arrival_time")
        \/ /\ k = "search_start_time" /\ TimeOf(O, k) # 0
           /\ \E later \in {"authorisation_time", "officer_arrival_time"} :
                 Has(O, later) /\ TimeOf(O, k) < TimeOf(O, later)
        \/ k = "single_photo_identification_time" /\ TimeOf(O, k) # 0}

\* And those of which one says that something is missing: the first such.
Deficient(O, k) ==
    {o \in WithKey(O, k) : o.line.value \in
        IF k = "electronic_certificate" THEN Incomplete ELSE Missing}
Certified == {"electronic_certificate", "software_version",
              "clock_synchronisation", "certificate_signing_time"}

Remarkable(O) ==
    {First(WithKey(O, k)) : k \in Questioned(O)}
    \cup {First(Deficient(O, k)) : k \in {k \in Certified : Deficient(O, k) # {}}}

\* What is inserted before the motion.
FindingsOf(P, O) ==
    [facts          |-> FactPages(P, O),
     timeline       |-> TimelinePages(O),
     contradictions |-> {ContradictionOf(O, k) : k \in Contradicted(O)},
     procedural     |-> {PageOf(o) : o \in Remarkable(O)},
     citations      |-> {}]

\* The citations of the motion.
CitationsOf(S) == FirstPages(SourcePages(says, S), 3)

\* The first n kinds of findings.
UpTo(n, f) ==
    [facts          |-> IF n > 0 THEN f.facts ELSE {},
     timeline       |-> IF n > 1 THEN f.timeline ELSE {},
     contradictions |-> IF n > 2 THEN f.contradictions ELSE {},
     procedural     |-> IF n > 3 THEN f.procedural ELSE {},
     citations      |-> {}]

\* All pages that findings cite.
Cited(f) == f.facts \cup f.timeline \cup f.procedural \cup f.citations
            \cup UNION {{c.pages[1], c.pages[2]} : c \in f.contradictions}

-----------------------------------------------------------------------------
(* The steps of run_case_analysis.                                         *)

Goes(c, stage) == call' = [call EXCEPT ![c].at = stage]
Returns(c)     == call' = [call EXCEPT ![c] = Idle]

\* The run of c becomes r.
Becomes(c, r) == runs' = [runs EXCEPT ![call[c].run] = r]

Asking   == {c \in Calls : call[c].at \in {"waiting", "composing"}}
Requests == Len(runs) + Cardinality(Asking) + answered

\* The run is flushed with its created_at.
NewRun == [status |-> "open", agents |-> "running",
           read |-> Unread, found |-> NoFindings]

StartRun(c) ==
    /\ call[c].at = "idle"
    /\ Requests < MaxRequests
    /\ runs' = Append(runs, NewRun)
    /\ call' = [call EXCEPT ![c] = [Idle EXCEPT !.at = "started",
                                                !.run = Len(runs) + 1]]
    /\ UNCHANGED <<says, document, extracted, authorities, settings, answered>>

RunOf(c) == runs[call[c].run]
Found(c) == FindingsOf(SourcePages(says, RunOf(c).read),
                       Observations(says, RunOf(c).read))

LoadSources(c) ==
    /\ call[c].at = "started"
    /\ Becomes(c, [RunOf(c) EXCEPT !.read = Loaded])
    /\ Goes(c, "loaded")
    /\ UNCHANGED <<says, document, extracted, authorities, settings, answered>>

\* Without sources the run completes, with nothing.
CompleteWithoutSources(c) ==
    /\ call[c].at = "loaded"
    /\ RunOf(c).read = Unread
    /\ Becomes(c, [RunOf(c) EXCEPT !.status = "completed", !.agents = "completed"])
    /\ Returns(c)
    /\ UNCHANGED <<says, document, extracted, authorities, settings, answered>>

\* ensure_synthetic_authorities: the citations that exist already are read,
ListAuthorities(c) ==
    /\ call[c].at = "loaded"
    /\ RunOf(c).read # Unread
    /\ call' = [call EXCEPT ![c].at = "listed",
                            ![c].known = authorities = "stored"]
    /\ UNCHANGED <<says, document, extracted, runs, authorities, settings, answered>>

\* and the others inserted, once nobody else has an uncommitted one.
InsertAuthorities(c) ==
    /\ call[c].at = "listed"
    /\ \/ call[c].known /\ UNCHANGED authorities
       \/ ~call[c].known /\ authorities = "none" /\ authorities' = c
    /\ Goes(c, "grounded")
    /\ UNCHANGED <<says, document, extracted, runs, settings, answered>>

\* What becomes of the authorities when c ends.
Kept(c)       == IF authorities = c THEN "stored" ELSE authorities
StillHeld(c)  == authorities
RolledBack(c) == IF authorities = c THEN "none" ELSE authorities

\* A database error leaves a session that refuses every commit, that of
\* the status "failed" as well.
Vanishes(c) ==
    /\ Becomes(c, [NewRun EXCEPT !.status = "gone"])
    /\ authorities' = RolledBack(c)
    /\ Returns(c)
    /\ UNCHANGED <<says, document, extracted, settings, answered>>

\* Another run has committed the authorities since: the unique index.
AuthoritiesCollide(c) ==
    /\ call[c].at = "listed"
    /\ ~call[c].known /\ authorities = "stored"
    /\ Vanishes(c)

\* The foreign keys: a cited page must still be there when it is inserted.
NoForeignKey(p) == TRUE
Referable(p)    == document[p.document] = p.extraction

Insertable(f) == \A p \in Cited(f) : Referable(p)

\* The flush of the motion writes everything found until then.
InsertResults(c) ==
    /\ call[c].at = "grounded"
    /\ Insertable(Found(c))
    /\ Becomes(c, [RunOf(c) EXCEPT !.found = Found(c)])
    /\ Goes(c, "stored")
    /\ UNCHANGED <<says, document, extracted, authorities, settings, answered>>

ResultsCollide(c) ==
    /\ call[c].at = "grounded"
    /\ ~Insertable(Found(c))
    /\ Vanishes(c)

\* The only commit of a run that has found something.  The citations of its
\* motion are inserted with it.
WithCitations(c) ==
    [RunOf(c).found EXCEPT !.citations = CitationsOf(RunOf(c).read)]

CommitRun(c) ==
    /\ call[c].at = "stored"
    /\ Insertable(WithCitations(c))
    /\ Becomes(c, [RunOf(c) EXCEPT !.status = "completed",
                                   !.agents = "completed",
                                   !.found  = WithCitations(c)])
    /\ authorities' = Kept(c)
    /\ Returns(c)
    /\ UNCHANGED <<says, document, extracted, settings, answered>>

CommitCollides(c) ==
    /\ call[c].at = "stored"
    /\ ~Insertable(WithCitations(c))
    /\ Vanishes(c)

\* Another error: whatever has been added to the session until then is
\* committed, with the status "failed".
CommitFailed(c, f) ==
    /\ Insertable(f)
    /\ Becomes(c, [RunOf(c) EXCEPT !.status = "failed", !.agents = "failed",
                                   !.found = f])

RunFails(c) ==
    /\ \/ /\ call[c].at = "grounded"
          /\ \E n \in 0 .. 4 : CommitFailed(c, UpTo(n, Found(c)))
       \/ /\ call[c].at = "stored"
          /\ CommitFailed(c, RunOf(c).found) \/ CommitFailed(c, WithCitations(c))
    /\ authorities' = Kept(c)
    /\ Returns(c)
    /\ UNCHANGED <<says, document, extracted, settings, answered>>

\* The server process dies, or its connection: the transaction is rolled back.
RunIsLost(c) ==
    /\ call[c].at \in RunStages
    /\ Vanishes(c)

-----------------------------------------------------------------------------
(* The documents, as commits.                                              *)

\* ON DELETE SET NULL of source_page_id.
Cleared(p, d) ==
    IF p.document = d THEN [p EXCEPT !.number = 0, !.extraction = 0] ELSE p
ClearedAll(P, d) == {Cleared(p, d) : p \in P}
ClearedFrom(f, d) ==
    [facts          |-> ClearedAll(f.facts, d),
     timeline       |-> ClearedAll(f.timeline, d),
     contradictions |-> {[c EXCEPT !.pages = <<Cleared(c.pages[1], d),
                                               Cleared(c.pages[2], d)>>] :
                            c \in f.contradictions},
     procedural     |-> ClearedAll(f.procedural, d),
     citations      |-> ClearedAll(f.citations, d)]
WithoutPagesOf(d) ==
    [i \in 1 .. Len(runs) |->
       [runs[i] EXCEPT !.found = ClearedFrom(runs[i].found, d)]]

\* An inserted result that refers to a page holds a lock on it.
Referenced(d) ==
    \E c \in Calls : /\ call[c].at = "stored"
                     /\ \E p \in Cited(RunOf(c).found) :
                           p.document = d /\ p.extraction # 0

\* The pages are deleted with the first commit of a processing, or with the
\* document.
PagesGo(d) ==
    /\ document[d] # 0 /\ ~Referenced(d)
    /\ document' = [document EXCEPT ![d] = 0]
    /\ runs' = WithoutPagesOf(d)
    /\ UNCHANGED <<says, extracted, authorities, call, settings, answered>>

\* Processing ends with new pages, of this upload of the content or another.
PagesCome(d) ==
    /\ document[d] = 0 /\ extracted < MaxExtractions
    /\ extracted' = extracted + 1
    /\ document' = [document EXCEPT ![d] = extracted']
    /\ UNCHANGED <<says, runs, authorities, call, settings, answered>>

-----------------------------------------------------------------------------
(* The steps of create_message and copilot_answer.                         *)

\* The question is flushed and the pages are read.  The model service is
\* asked only with evidence, and not about similar cases.
Ask(c) ==
    /\ call[c].at = "idle"
    /\ Requests < MaxRequests
    /\ \E similar \in BOOLEAN :
       LET asks == ~similar /\ Loaded # Unread /\ settings.nvidia_nim IN
       call' = [call EXCEPT ![c] =
                  [Idle EXCEPT !.at = IF asks THEN "waiting" ELSE "composing",
                               !.attempt = IF asks THEN 1 ELSE 0]]
    /\ UNCHANGED <<says, document, extracted, runs, authorities, settings, answered>>

\* Question and answer are committed together.
Reply(c) ==
    /\ answered' = answered + 1
    /\ Returns(c)
    /\ UNCHANGED <<says, document, extracted, runs, authorities, settings>>

\* An answer that is too short or thinks aloud is asked for once more.
ModelAnswers(c) ==
    /\ call[c].at = "waiting"
    /\ \/ Reply(c)
       \/ /\ IF call[c].attempt < 2
             THEN call' = [call EXCEPT ![c].attempt = @ + 1]
             ELSE Goes(c, "composing")
          /\ UNCHANGED <<says, document, extracted, runs, authorities, settings, answered>>

\* A timeout or an error of the service: the fallback, or nothing is stored.
ModelFails(c) ==
    /\ call[c].at = "waiting"
    /\ IF settings.ai_fallback_enabled THEN Goes(c, "composing") ELSE Returns(c)
    /\ UNCHANGED <<says, document, extracted, runs, authorities, settings, answered>>

Compose(c) ==
    /\ call[c].at = "composing"
    /\ Reply(c)

-----------------------------------------------------------------------------

\* The steps a call takes by itself.
Progress(c) ==
    \/ LoadSources(c) \/ CompleteWithoutSources(c) \/ ListAuthorities(c)
    \/ InsertAuthorities(c) \/ AuthoritiesCollide(c)
    \/ RunFails(c) \/ InsertResults(c) \/ ResultsCollide(c)
    \/ CommitRun(c) \/ CommitCollides(c)
    \/ ModelAnswers(c) \/ ModelFails(c) \/ Compose(c)

Next ==
    \/ \E c \in Calls : StartRun(c) \/ Ask(c) \/ Progress(c) \/ RunIsLost(c)
    \/ \E d \in Documents : PagesGo(d) \/ PagesCome(d)

Spec == Init /\ [][Next]_vars

\* The event loop runs every call that can go on, and the model service
\* answers or times out.  Nobody has to call anything, or to upload.
Fairness == \A c \in Calls : WF_vars(Progress(c))

FairSpec == Spec /\ Fairness

-----------------------------------------------------------------------------
(* Properties.                                                             *)

\* Every page that a stored fact, timeline event, contradiction, finding or
\* motion citation cites exists, however the run has overlapped reprocessing
\* and deletion and wherever it has failed: pages that go take their
\* citations with them.
CitesPages(r, S, f) ==
    \A p \in Cited(f) : p.extraction # 0 =>
        p.extraction = S[p.document] /\ p.number \in 1 .. r.pages[p.document]

CitedPagesExist ==
    \A i \in Committed : CitesPages(says, document, runs[i].found)

\* A stored contradiction is between two lines that the run has read, that
\* record different values of one key and that are where it says they are;
\* they may be in one document, even on one page.  No key is reported twice.
SameKey(r, i, j) == r.lines[i].key = r.lines[j].key

Disagree(r, i, j) == /\ SameKey(r, i, j)
                     /\ r.lines[i].value # r.lines[j].value
                     /\ r.lines[i].key \in CONTRADICTION_TITLES

IsOn(r, i, p) == p.extraction # 0 => /\ p.document = r.lines[i].document
                                     /\ p.number = r.lines[i].number

IsReal(r, run) ==
    \A c \in run.found.contradictions :
        /\ c.first \in LinesRead(r, run.read) /\ c.second \in LinesRead(r, run.read)
        /\ Disagree(r, c.first, c.second)
        /\ IsOn(r, c.first, c.pages[1]) /\ IsOn(r, c.second, c.pages[2])
        /\ \A b \in run.found.contradictions :
              SameKey(r, b.first, c.first) => b = c

\* And whenever two lines that were read disagree, their key is reported,
\* however many lines agree with either (the grouping by value).
IsWhole(r, run) ==
    \A i, j \in LinesRead(r, run.read) : Disagree(r, i, j) =>
        \E c \in run.found.contradictions : SameKey(r, c.first, i)

\* What a run that has completed reports is exact; what a failed run leaves
\* behind is real.
ContradictionsAreExact ==
    \A i \in Committed :
        /\ IsReal(says, runs[i])
        /\ runs[i].status = "completed" => IsWhole(says, runs[i])

\* The results shown for a case are never exchanged for those of a run that
\* was started earlier, in whichever order overlapping runs commit
\* (latest_analysis_run).
ShownNeverGoesBack == [][LatestRun' >= LatestRun]_vars

\* Every run and every question ends, also when runs wait for each other's
\* authorities and when the model service does not answer.
CallsSettle ==
    \A c \in Calls : call[c].at # "idle" ~> call[c].at = "idle"

-----------------------------------------------------------------------------
(* The inductive invariant (see CaseAnalysisProofs).                       *)

\* A call in a run has one to itself, which is open, and empty until the
\* flush of its results.
RunsOwned ==
    \A c \in Calls : call[c].at \in RunStages =>
        /\ call[c].run \in 1 .. Len(runs)
        /\ RunOf(c).status = "open"
        /\ call[c].at # "stored" => RunOf(c).found = NoFindings
        /\ \A b \in Calls \ {c} :
              call[b].at \in RunStages => call[b].run # call[c].run

\* What the runs hold, committed or not: a flushed run already cites existing
\* pages and real contradictions, and all of them.
RunsTrue ==
    /\ \A i \in 1 .. Len(runs) :
          /\ CitesPages(says, document, runs[i].found)
          /\ IsReal(says, runs[i])
          /\ runs[i].status = "completed" => IsWhole(says, runs[i])
    /\ \A c \in Calls : call[c].at = "stored" => IsWhole(says, RunOf(c))

\* The invariant that every step keeps: the two properties of committed runs,
\* extended to the runs that are not committed yet.
IInv == TypeOK /\ RunsOwned /\ RunsTrue
=============================================================================
