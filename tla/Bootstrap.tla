------------------------------ MODULE Bootstrap ------------------------------
(***************************************************************************)
(* The bootstrap programs (server/app/scripts/bootstrap_*.py): they set up *)
(* the accounts, cases, documents and analyses of one workspace, and are   *)
(* run again to repair it, while its users work.                           *)
(*                                                                         *)
(* A program is a sequence of transactions.  It may be interrupted between *)
(* any two of them, by an error or from outside, and is then started again *)
(* from its beginning.  Two programs never run at the same time.           *)
(***************************************************************************)
EXTENDS Naturals, Sequences, FiniteSets

CONSTANTS
    Workspaces,    \* the programs that share an organisation, and its users
    Cases,         \* numbers, in the order of the scripts
    Files,         \* numbers, in the order of the scripts
    CasesOf,       \* the cases each program provisions
    Seeds,         \* the files it stores for each case
    Recorded,      \* the files with the RECORD lines of a complete analysis
    PendingCases,  \* the cases that bootstrap_jury_workspace leaves running
    ReviewCases,   \* the cases whose motions casework puts under review
    MaxExecutions, \* bound: programs started
    MaxVersion,    \* bound: password changes and deactivations
    MaxAnalyses    \* bound: analysis runs

Programs == {"main", "phase7_11", "jury", "demo", "demo_documents",
             "casework", "case_11_12", "production_access"}

\* A behaviour has one kind of user activity or both.
Activities == {"accounts", "records"}

\* The programs by the organisation whose slug they look up.
Organisations == {{"main", "phase7_11"}, {"jury"}, {"demo", "demo_documents"},
                  {"casework", "case_11_12", "production_access"}}

ASSUME WorkspacesAssumption ==
    Workspaces \subseteq [programs: UNION {SUBSET o : o \in Organisations},
                          activities: SUBSET Activities]
ASSUME CasesAssumption ==
    /\ Cases \subseteq Nat /\ Files \subseteq Nat
    /\ CasesOf \in [Programs -> SUBSET Cases]
    /\ Seeds \in [Cases -> SUBSET Files]
    /\ Recorded \subseteq Files
    /\ PendingCases \subseteq Cases /\ ReviewCases \subseteq Cases
    /\ \A c, d \in CasesOf["case_11_12"] : c = d
ASSUME BoundsAssumption ==
    {MaxExecutions, MaxVersion, MaxAnalyses} \subseteq Nat

VARIABLES
    workspace,  \* its programs, and what its users do
    execution,  \* the program that runs, if any
    executions, \* how many have been started
    account,    \* the account whose password the programs know
    token,      \* a token issued to its holder, any one of them
    cases,      \* the cases: absent, as the programs set them, or edited
    documents,  \* the rows of each file, and what extraction has made of them
    analyses,   \* the analysis runs, in their order
    disturbed,  \* files that an interruption or a user has come upon
    lowered     \* history: a program has lowered the account's version

vars == <<workspace, execution, executions, account, token, cases, documents,
          analyses, disturbed, lowered>>

Account == [password: {"none", "seeded", "own"}, version: 0 .. MaxVersion,
            active: BOOLEAN, reset: 0 .. MaxExecutions]
NoAccount == [password |-> "none", version |-> 0, active |-> FALSE, reset |-> 0]

\* execution tells how many programs had been started when it was issued.
Token   == [version: 0 .. MaxVersion, execution: 0 .. MaxExecutions]
NoToken == [version |-> MaxVersion, execution |-> MaxExecutions]

Document == [rows: Nat, status: {"none", "uploaded", "processing", "extracted",
                                 "failed"}]
NoDocument == [rows |-> 0, status |-> "none"]

Analysis == [case: Cases, seeded: BOOLEAN, status: {"running", "completed"},
             sources: SUBSET Files,
             motion: {"none", "draft", "submitted_for_review", "approved"}]

\* todo holds the files or cases of the loop that is under way; seen the
\* account as the program has read it.
Execution == [program: Programs \cup {"none"},
              at: {"idle", "accounts", "provisioning", "cases", "documents",
                   "stored", "processing", "analyses", "motions"},
              todo: SUBSET (Files \cup Cases), seen: Account]
NoExecution == [program |-> "none", at |-> "idle", todo |-> {},
                seen |-> NoAccount]

TypeOK ==
    /\ workspace \in Workspaces
    /\ execution \in Execution
    /\ executions \in 0 .. MaxExecutions
    /\ account \in Account
    /\ token \in Token
    /\ cases \in [Cases -> {"absent", "seeded", "edited"}]
    /\ documents \in [Files -> Document]
    /\ analyses \in Seq(Analysis) /\ Len(analyses) <= MaxAnalyses
    /\ disturbed \subseteq Files
    /\ lowered \in BOOLEAN

Init ==
    /\ workspace \in Workspaces
    /\ execution = NoExecution
    /\ executions = 0
    /\ account = NoAccount
    /\ token = NoToken
    /\ cases = [c \in Cases |-> "absent"]
    /\ documents = [f \in Files |-> NoDocument]
    /\ analyses = << >>
    /\ disturbed = {}
    /\ lowered = FALSE

-----------------------------------------------------------------------------
(* The course of a program.                                                *)

program  == execution.program
programs == workspace.programs

First(S) == CHOOSE x \in S : \A y \in S : x <= y

Goes(stage) == execution' = [execution EXCEPT !.at = stage]
Ends        == execution' = NoExecution

\* The stage after the accounts, the cases and the documents.
Continues(stage, todo) ==
    execution' = [execution EXCEPT !.at = stage, !.todo = todo]

SeedsOf(p) == UNION {Seeds[c] : c \in CasesOf[p]}

\* bootstrap_phase7_11 and bootstrap_demo_documents refuse to run on a
\* workspace without its account or its case.
Provisioned(p) == account.password # "none"
                  /\ \A c \in CasesOf[p] : cases[c] # "absent"

FirstStage(p) == CASE p = "phase7_11"      -> "analyses"
                   [] p = "demo_documents" -> "documents"
                   [] OTHER                -> "accounts"

Start(p) ==
    /\ execution.at = "idle"
    /\ p \in programs
    /\ executions < MaxExecutions
    /\ p \in {"phase7_11", "demo_documents"} => Provisioned(p)
    /\ executions' = executions + 1
    /\ execution' = [NoExecution EXCEPT
                       !.program = p, !.at = FirstStage(p),
                       !.todo = IF p = "phase7_11" THEN CasesOf[p]
                                ELSE IF p = "demo_documents" THEN SeedsOf(p)
                                ELSE {}]
    /\ UNCHANGED <<workspace, account, token, cases, documents, analyses,
                   disturbed, lowered>>

-----------------------------------------------------------------------------
(* Accounts and cases.                                                     *)

\* The account is read; then its password is verified, which takes time.
ReadAccounts ==
    /\ execution.at = "accounts"
    /\ execution' = [execution EXCEPT !.at = "provisioning", !.seen = account]
    /\ UNCHANGED <<workspace, executions, account, token, cases, documents,
                   analyses, disturbed, lowered>>

\* A password that is not the program's own is replaced.  Of the columns only
\* those are written that differ from what was read.
Replaced ==
    IF execution.seen.password = "own"
    THEN [account EXCEPT !.password = "seeded"]
    ELSE account

\* bootstrap_main and bootstrap_jury_workspace revoke the sessions as well.
SameVersion == account.version
NextVersion == execution.seen.version + 1

Revoked ==
    IF execution.seen.password = "own" /\ program \in {"main", "jury"}
    THEN [Replaced EXCEPT !.version = NextVersion,
                          !.reset = executions]
    ELSE Replaced

Reactivated(a) == IF execution.seen.active THEN a ELSE [a EXCEPT !.active = TRUE]

\* An account that does not exist is created with the program's password.
Created == [NoAccount EXCEPT !.password = "seeded", !.active = TRUE]

ProvisionAccounts ==
    /\ execution.at = "provisioning"
    /\ execution.seen.version < MaxVersion
    /\ account' = IF account.password = "none" THEN Created
                  ELSE IF program = "demo" THEN account
                  ELSE Reactivated(Revoked)
    /\ lowered' = (lowered \/ account'.version < account.version)
    /\ IF program = "production_access" THEN Ends ELSE Goes("cases")
    /\ UNCHANGED <<workspace, executions, token, cases, documents, analyses,
                   disturbed>>

\* bootstrap_demo and bootstrap_case_11_12 leave a case that exists alone.
ProvisionCase(c) ==
    IF cases[c] # "absent" /\ program \in {"demo", "case_11_12"}
    THEN cases[c] ELSE "seeded"

CompletedRuns(c) == {i \in 1 .. Len(analyses) :
                        analyses[i].case = c /\ analyses[i].status = "completed"}

\* bootstrap_case_11_12 does nothing more if its case has a completed run now;
\* it does not look again before it analyses the case.
AlreadyAnalysed ==
    program = "case_11_12" /\ \A c \in CasesOf[program] : CompletedRuns(c) # {}

\* bootstrap_demo stores no documents.
AfterCases ==
    IF program = "demo" \/ AlreadyAnalysed THEN Ends
    ELSE Continues("documents", SeedsOf(program))

ProvisionCases ==
    /\ execution.at = "cases"
    /\ cases' = [c \in Cases |-> IF c \in CasesOf[program] THEN ProvisionCase(c)
                                 ELSE cases[c]]
    /\ AfterCases
    /\ UNCHANGED <<workspace, executions, account, token, documents, analyses,
                   disturbed, lowered>>

-----------------------------------------------------------------------------
(* Documents.                                                              *)

file == First(execution.todo)

AtFile == execution.at = "documents" /\ execution.todo # {}

NextFile == [execution EXCEPT !.at = "documents", !.todo = @ \ {file}]

\* A file with a row is left as it is, whatever has become of the row.
Stored    == documents[file].rows > 0
Extracted == documents[file].status = "extracted"
Known     == Stored

SkipFile ==
    /\ AtFile /\ Known
    /\ execution' = NextFile
    /\ UNCHANGED <<workspace, executions, account, token, cases, documents,
                   analyses, disturbed, lowered>>

\* _ingest_source commits the row before it processes it.
Unprocessed == "documents"
ThenProcess == "stored"

StoreFile ==
    /\ AtFile /\ ~Known
    /\ documents' = [documents EXCEPT ![file] = [rows   |-> @.rows + 1,
                                                 status |-> "uploaded"]]
    /\ Goes(ThenProcess)
    /\ UNCHANGED <<workspace, executions, account, token, cases, analyses,
                   disturbed, lowered>>

BeginProcessing ==
    /\ execution.at = "stored" /\ Stored
    /\ documents' = [documents EXCEPT ![file].status = "processing"]
    /\ Goes("processing")
    /\ UNCHANGED <<workspace, executions, account, token, cases, analyses,
                   disturbed, lowered>>

EndProcessing ==
    /\ execution.at = "processing" /\ Stored
    /\ \E result \in {"extracted", "failed"} :
           documents' = [documents EXCEPT ![file].status = result]
    /\ execution' = NextFile
    /\ UNCHANGED <<workspace, executions, account, token, cases, analyses,
                   disturbed, lowered>>

\* The minimums of bootstrap_main and the event of bootstrap_demo_documents
\* change nothing that is modelled here.
DocumentsDone ==
    /\ execution.at = "documents" /\ execution.todo = {}
    /\ IF program \in {"main", "demo_documents"} THEN Ends
       ELSE Continues("analyses", CasesOf[program])
    /\ UNCHANGED <<workspace, executions, account, token, cases, documents,
                   analyses, disturbed, lowered>>

-----------------------------------------------------------------------------
(* Analyses.                                                               *)

case == First(execution.todo)

AtCase == execution.at = "analyses" /\ execution.todo # {}

NextCase == [execution EXCEPT !.at = "analyses", !.todo = @ \ {case}]

Last(S) == CHOOSE i \in S : \A j \in S : i >= j

\* has_complete_flagship_data looks at the latest completed run only, and
\* asks for contradictions: without RECORD lines no run is ever complete.
HasCompleteData ==
    /\ CompletedRuns(case) # {}
    /\ analyses[Last(CompletedRuns(case))].sources \cap Recorded # {}

Pending == program = "jury" /\ case \in PendingCases

HasRunning == \E i \in 1 .. Len(analyses) :
                 analyses[i].case = case /\ analyses[i].status = "running"

\* What spares a case its analysis.
Satisfied ==
    CASE Pending                -> HasRunning
      [] program = "casework"   -> CompletedRuns(case) # {}
      [] program = "case_11_12" -> FALSE
      [] OTHER                  -> HasCompleteData

\* run_case_analysis, as its one commit, on the pages there are.
ExtractedOf(c) == {f \in Seeds[c] : documents[f].status = "extracted"}

RunOf(c, seeded) ==
    [case |-> c, seeded |-> seeded, status |-> "completed",
     sources |-> ExtractedOf(c),
     motion |-> IF ExtractedOf(c) = {} THEN "none" ELSE "draft"]

PendingRun == [case |-> case, seeded |-> TRUE, status |-> "running",
               sources |-> {}, motion |-> "none"]

AfterAnalysis ==
    IF program = "casework" /\ case \in ReviewCases THEN Goes("motions")
    ELSE execution' = NextCase

SkipCase ==
    /\ AtCase /\ Satisfied
    /\ AfterAnalysis
    /\ UNCHANGED <<workspace, executions, account, token, cases, documents,
                   analyses, disturbed, lowered>>

AnalyseCase ==
    /\ AtCase /\ ~Satisfied
    /\ Len(analyses) < MaxAnalyses
    /\ analyses' = Append(analyses, IF Pending THEN PendingRun
                                    ELSE RunOf(case, TRUE))
    /\ AfterAnalysis
    /\ UNCHANGED <<workspace, executions, account, token, cases, documents,
                   disturbed, lowered>>

\* Every motion of the case, whatever its status.
UnderReview(a) ==
    IF a.case = case /\ a.motion # "none"
    THEN [a EXCEPT !.motion = "submitted_for_review"] ELSE a

SubmitMotions ==
    /\ execution.at = "motions"
    /\ analyses' = [i \in 1 .. Len(analyses) |-> UnderReview(analyses[i])]
    /\ execution' = NextCase
    /\ UNCHANGED <<workspace, executions, account, token, cases, documents,
                   disturbed, lowered>>

AnalysesDone ==
    /\ execution.at = "analyses" /\ execution.todo = {}
    /\ Ends
    /\ UNCHANGED <<workspace, executions, account, token, cases, documents,
                   analyses, disturbed, lowered>>

\* The program dies, or raises: no commit fails halfway.  A program that
\* raises deletes the binary whose row it could not commit; one that is killed
\* leaves it in the storage, where no row names it (binaries are not followed
\* here).
Interrupted ==
    /\ execution.at # "idle"
    /\ Ends
    /\ disturbed' = IF execution.at \in {"stored", "processing"}
                    THEN disturbed \cup {file} ELSE disturbed
    /\ UNCHANGED <<workspace, executions, account, token, cases, documents,
                   analyses, lowered>>

-----------------------------------------------------------------------------
(* The users of the workspace, meanwhile.                                  *)

\* Of all the tokens issued, one is remembered.
SignIn ==
    /\ "accounts" \in workspace.activities
    /\ account.password # "none" /\ account.active
    /\ token = NoToken
    /\ token' = [version |-> account.version, execution |-> executions]
    /\ UNCHANGED <<workspace, execution, executions, account, cases, documents,
                   analyses, disturbed, lowered>>

ChangePassword ==
    /\ "accounts" \in workspace.activities
    /\ account.password # "none" /\ account.active
    /\ account.version + 1 < MaxVersion
    /\ account' = [account EXCEPT !.password = "own", !.version = @ + 1]
    /\ UNCHANGED <<workspace, execution, executions, token, cases, documents,
                   analyses, disturbed, lowered>>

Deactivate ==
    /\ "accounts" \in workspace.activities
    /\ account.active
    /\ account.version + 1 < MaxVersion
    /\ account' = [account EXCEPT !.active = FALSE, !.version = @ + 1]
    /\ UNCHANGED <<workspace, execution, executions, token, cases, documents,
                   analyses, disturbed, lowered>>

EditCase(c) ==
    /\ "records" \in workspace.activities
    /\ cases[c] = "seeded"
    /\ cases' = [cases EXCEPT ![c] = "edited"]
    /\ UNCHANGED <<workspace, execution, executions, account, token, documents,
                   analyses, disturbed, lowered>>

\* A document is reprocessed, or deleted.
TouchDocument(f) ==
    /\ "records" \in workspace.activities
    /\ documents[f].rows = 1
    /\ \/ documents' = [documents EXCEPT ![f].status = "extracted"]
       \/ documents' = [documents EXCEPT ![f] = NoDocument]
    /\ disturbed' = disturbed \cup {f}
    /\ UNCHANGED <<workspace, execution, executions, account, token, cases,
                   analyses, lowered>>

RunAnalysis(c) ==
    /\ "records" \in workspace.activities
    /\ cases[c] # "absent"
    /\ Len(analyses) < MaxAnalyses
    /\ analyses' = Append(analyses, RunOf(c, FALSE))
    /\ UNCHANGED <<workspace, execution, executions, account, token, cases,
                   documents, disturbed, lowered>>

ApproveMotion(i) ==
    /\ "records" \in workspace.activities
    /\ analyses[i].motion \in {"draft", "submitted_for_review"}
    /\ analyses' = [analyses EXCEPT ![i].motion = "approved"]
    /\ UNCHANGED <<workspace, execution, executions, account, token, cases,
                   documents, disturbed, lowered>>

-----------------------------------------------------------------------------

Next ==
    \/ \E p \in Programs : Start(p)
    \/ ReadAccounts \/ ProvisionAccounts \/ ProvisionCases
    \/ SkipFile \/ StoreFile \/ BeginProcessing \/ EndProcessing
    \/ DocumentsDone
    \/ SkipCase \/ AnalyseCase \/ SubmitMotions \/ AnalysesDone
    \/ Interrupted
    \/ SignIn \/ ChangePassword \/ Deactivate
    \/ \E c \in Cases : EditCase(c) \/ RunAnalysis(c)
    \/ \E f \in Files : TouchDocument(f)
    \/ \E i \in 1 .. Len(analyses) : ApproveMotion(i)

Spec == Init /\ [][Next]_vars

-----------------------------------------------------------------------------
(* Properties.                                                             *)

SeededRuns(c, status) == {i \in 1 .. Len(analyses) :
                            /\ analyses[i].case = c /\ analyses[i].seeded
                            /\ analyses[i].status = status}

\* However often the programs are interrupted and started again, and
\* whatever users delete or analyse meanwhile, no file is stored twice, no
\* case has two pending runs, and the programs that ask for a completed run
\* add no second one (the get-or-create tests of _ingest_source,
\* _provision_pending_analysis and bootstrap_casework_workspace).  The ones
\* that ask for complete data do: see HasCompleteData.
SeededOnce ==
    /\ \A f \in Files : documents[f].rows <= 1
    /\ \A c \in Cases :
        /\ Cardinality(SeededRuns(c, "running")) <= 1
        /\ programs \cap {"casework", "case_11_12"} # {}
             => Cardinality(SeededRuns(c, "completed")) <= 1

\* A program that analyses a case has all its sources: none is missing but
\* those whose extraction failed, or that an interruption or a user has come
\* upon (the order of _provision_documents and _provision_analysis, and
\* process_document within _ingest_source).
AnalysedWhole ==
    \A c \in Cases : \A i \in SeededRuns(c, "completed") :
        programs \cap {"jury", "casework", "case_11_12"} # {} =>
            Seeds[c] \ analyses[i].sources \subseteq
                disturbed \cup {f \in Files : documents[f].status = "failed"}

\* A token issued before a program that replaced a foreign password had read
\* the account is refused from then on, also when the holder changes the
\* password or is deactivated and reactivated meanwhile (_provision_workspace
\* of bootstrap_main and bootstrap_jury_workspace).  Until the version is
\* lowered: a program adds one to what it has read, and the account may have
\* gone further meanwhile.
ResetEndsSessions ==
    ~lowered /\ account.active /\ token.version = account.version
        => token.execution >= account.reset
=============================================================================
