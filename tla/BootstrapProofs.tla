--------------------------- MODULE BootstrapProofs ---------------------------
(***************************************************************************)
(* Replacing a password ends the sessions issued before, and however often *)
(* the programs are repeated nothing is provisioned twice or analysed in   *)
(* part: for any workspaces, cases and files and any bounds.               *)
(*                                                                         *)
(* Accounts first.  The program writes a version that it has computed from *)
(* what it read before verifying the password.  The invariant says what    *)
(* may happen in between: only tokens issued since then go beyond the      *)
(* version read.                                                           *)
(***************************************************************************)
EXTENDS Bootstrap, TLAPS, FiniteSetTheorems, WellFoundedInduction

AccountsTyped ==
    /\ executions \in 0 .. MaxExecutions
    /\ execution \in Execution
    /\ account \in Account
    /\ token \in Token
    /\ lowered \in BOOLEAN

\* A program remembers the number of an execution that has begun.
ResetsHappened == account.reset <= executions

\* A token carries a version that the account has had.
TokenIsOld == token = NoToken \/ token.version <= account.version

\* A token of the account's version is not older than the last reset.
MatchesReset == token.version = account.version
                    => token.execution >= account.reset

\* What goes beyond the version the program has read was issued since.
IssuedSinceRead ==
    execution.at = "provisioning" =>
        \/ token = NoToken
        \/ token.version <= execution.seen.version
        \/ token.execution = executions

\* What is under way is one of the programs.
ProgramRuns == execution.at = "idle" \/ execution.program \in Programs

IInv == /\ AccountsTyped /\ ResetsHappened /\ ProgramRuns
        /\ ~lowered => TokenIsOld /\ MatchesReset /\ IssuedSinceRead

-----------------------------------------------------------------------------

LEMMA BoundsFact ==
    /\ MaxExecutions \in Nat /\ MaxVersion \in Nat
    /\ NoAccount \in Account /\ NoToken \in Token
    /\ NoToken.version = MaxVersion /\ NoToken.execution = MaxExecutions
    /\ NoExecution \in Execution /\ NoExecution.at = "idle"
  BY BoundsAssumption
  DEF NoAccount, Account, NoToken, Token, NoExecution, Execution

LEMMA InitKeeps == Init => IInv
  <1> SUFFICES ASSUME Init PROVE IInv
    OBVIOUS
  <1>1. /\ executions = 0 /\ account = NoAccount /\ token = NoToken
        /\ execution = NoExecution /\ lowered = FALSE
    BY DEF Init
  <1>2. account.reset = 0
    BY <1>1 DEF NoAccount
  <1>3. AccountsTyped
    <2>1. 0 \in 0 .. MaxExecutions
      BY BoundsFact
    <2>2. /\ execution \in Execution /\ account \in Account
          /\ token \in Token
      BY <1>1, BoundsFact
    <2>3. lowered \in BOOLEAN
      BY <1>1
    <2> QED
      BY <1>1, <2>1, <2>2, <2>3 DEF AccountsTyped
  <1>4. ResetsHappened
    BY <1>1, <1>2 DEF ResetsHappened
  <1>5. TokenIsOld /\ IssuedSinceRead /\ ProgramRuns
    BY <1>1, BoundsFact DEF TokenIsOld, IssuedSinceRead, ProgramRuns
  <1>6. MatchesReset
    BY <1>1, <1>2, BoundsFact DEF MatchesReset
  <1> QED
    BY <1>3, <1>4, <1>5, <1>6 DEF IInv

\* The stages of a program.
Stages == {"idle", "accounts", "provisioning", "cases", "documents", "stored",
           "processing", "analyses", "motions"}

\* A step of a program that leaves the account and the token alone.
LEMMA StageKeeps ==
    ASSUME IInv, UNCHANGED <<account, token, lowered>>,
           executions' \in executions .. MaxExecutions,
           execution' \in Execution, execution'.at # "provisioning",
           ProgramRuns'
    PROVE  IInv'
  <1>1. /\ AccountsTyped /\ ResetsHappened
        /\ account.reset \in Nat /\ executions \in Nat /\ executions' \in Nat
        /\ executions' >= executions /\ executions' <= MaxExecutions
    BY BoundsFact DEF IInv, AccountsTyped, ResetsHappened, Account
  <1>2. AccountsTyped'
    BY <1>1 DEF AccountsTyped
  <1>3. ResetsHappened'
    BY <1>1 DEF ResetsHappened
  <1> QED
    BY <1>2, <1>3
    DEF IInv, TokenIsOld, MatchesReset, IssuedSinceRead

\* The program goes on to another stage.
LEMMA StageFact ==
    ASSUME execution \in Execution, NEW stage \in Stages
    PROVE  /\ [execution EXCEPT !.at = stage] \in Execution
           /\ [execution EXCEPT !.at = stage].at = stage
           /\ [execution EXCEPT !.at = stage].program = execution.program
  BY DEF Execution, Stages

\* The same with other files or cases to do.
LEMMA TodoFact ==
    ASSUME execution \in Execution, NEW stage \in Stages,
           NEW todo \in SUBSET (Files \cup Cases),
           NEW e, e = [execution EXCEPT !.at = stage, !.todo = todo]
    PROVE  /\ e \in Execution
           /\ e.at = stage
           /\ e.program = execution.program
  BY DEF Execution, Stages

\* What programs choose to work on are files and cases.
LEMMA WorkFact ==
    ASSUME NEW p \in Programs, NEW S \in SUBSET CasesOf[p]
    PROVE  /\ S \in SUBSET (Files \cup Cases)
           /\ UNION {Seeds[c] : c \in S} \in SUBSET (Files \cup Cases)
  BY CasesAssumption

-----------------------------------------------------------------------------
(* The programs.                                                           *)

LEMMA StartKeeps == ASSUME IInv, NEW p \in Programs, Start(p) PROVE IInv'
  <1> DEFINE todo == IF p = "phase7_11" THEN CasesOf[p]
                     ELSE IF p = "demo_documents" THEN SeedsOf(p) ELSE {}
  <1>1. todo \in SUBSET (Files \cup Cases)
    BY WorkFact DEF SeedsOf
  <1>2. /\ UNCHANGED <<account, token, lowered>>
        /\ executions' = executions + 1 /\ executions < MaxExecutions
        /\ execution' = [NoExecution EXCEPT !.program = p,
                           !.at = FirstStage(p), !.todo = todo]
    BY DEF Start
  <1>3. FirstStage(p) \in {"analyses", "documents", "accounts"}
    BY DEF FirstStage
  <1> HIDE DEF todo
  <1>4. /\ execution' \in Execution /\ execution'.at = FirstStage(p)
        /\ execution'.program = p
    BY <1>1, <1>2, <1>3, BoundsFact DEF Execution, NoExecution
  <1>5. executions' \in executions .. MaxExecutions
    BY <1>2, BoundsFact DEF IInv, AccountsTyped
  <1> QED
    BY <1>2, <1>3, <1>4, <1>5, StageKeeps DEF ProgramRuns

\* The program has read the account: every token is one of its versions.
LEMMA ReadKeeps == ASSUME IInv, ReadAccounts PROVE IInv'
  <1>1. /\ execution' = [execution EXCEPT !.at = "provisioning",
                                          !.seen = account]
        /\ UNCHANGED <<executions, account, token, lowered>>
        /\ AccountsTyped
    BY DEF ReadAccounts, IInv
  <1>2. /\ execution' \in Execution /\ execution'.seen = account
        /\ execution'.program = execution.program
    BY <1>1 DEF AccountsTyped, Execution
  <1>3. execution.at # "idle"
    BY DEF ReadAccounts
  <1> QED
    BY <1>1, <1>2, <1>3
    DEF IInv, AccountsTyped, ResetsHappened, TokenIsOld, MatchesReset,
        IssuedSinceRead, ProgramRuns

\* What the program makes of the account.
LEMMA ProvisionFact ==
    ASSUME IInv, ProvisionAccounts
    PROVE  /\ account' \in Account
           /\ \/ account'.version = account.version
                 /\ account'.reset = account.reset
              \/ account'.version = 0 /\ account'.reset = 0
              \/ account'.version = execution.seen.version + 1
                 /\ account'.reset = executions
  <1>1. /\ account \in Account /\ execution.seen \in Account
        /\ executions \in 0 .. MaxExecutions /\ MaxVersion \in Nat
        /\ execution.seen.version < MaxVersion
        /\ execution.seen.version \in Nat
        /\ MaxExecutions \in Nat
    BY BoundsFact
    DEF IInv, AccountsTyped, Execution, Account, ProvisionAccounts
  <1>2. /\ Replaced \in Account /\ Replaced.version = account.version
        /\ Replaced.reset = account.reset
    BY <1>1 DEF Replaced, Account
  <1>3. /\ Revoked \in Account
        /\ \/ Revoked = Replaced
           \/ Revoked.version = execution.seen.version + 1
              /\ Revoked.reset = executions
    <2>1. NextVersion \in 0 .. MaxVersion
      BY <1>1 DEF NextVersion
    <2> QED
      BY <1>1, <1>2, <2>1 DEF Revoked, NextVersion, Account
  <1>4. /\ Reactivated(Revoked) \in Account
        /\ Reactivated(Revoked).version = Revoked.version
        /\ Reactivated(Revoked).reset = Revoked.reset
    BY <1>3 DEF Reactivated, Account
  <1>5. Created \in Account /\ Created.version = 0 /\ Created.reset = 0
    BY BoundsFact DEF Created, NoAccount, Account
  <1>6. account' \in {Created, account, Reactivated(Revoked)}
    BY DEF ProvisionAccounts
  <1> QED
    BY <1>1, <1>2, <1>3, <1>4, <1>5, <1>6

\* The program writes the account.  A version that is not lowered is at least
\* the token's; if it is the token's, the token was issued since the read.
LEMMA ProvisionKeeps == ASSUME IInv, ProvisionAccounts PROVE IInv'
  <1>1. /\ execution.at = "provisioning"
        /\ UNCHANGED <<executions, token>>
        /\ lowered' = (lowered \/ account'.version < account.version)
        /\ AccountsTyped /\ account' \in Account
    BY ProvisionFact DEF ProvisionAccounts, IInv
  <1>2. /\ execution' \in Execution /\ execution'.at # "provisioning"
        /\ ProgramRuns'
    <2>1. execution' \in {NoExecution, [execution EXCEPT !.at = "cases"]}
      BY DEF ProvisionAccounts, Ends, Goes
    <2>2. CASE execution' = NoExecution
      BY <2>2, BoundsFact DEF ProgramRuns
    <2>3. CASE execution' = [execution EXCEPT !.at = "cases"]
      <3>1. /\ execution' \in Execution /\ execution'.at = "cases"
            /\ execution'.program = execution.program
        BY <1>1, <2>3, StageFact DEF AccountsTyped, Stages
      <3> QED
        BY <1>1, <3>1 DEF IInv, ProgramRuns
    <2> QED
      BY <2>1, <2>2, <2>3
  <1>3. /\ account.version \in Nat /\ account'.version \in Nat
        /\ account'.version <= MaxVersion /\ MaxVersion \in Nat
        /\ account.reset \in Nat /\ executions \in Nat
        /\ executions <= MaxExecutions /\ MaxExecutions \in Nat
        /\ token.version \in Nat /\ token.execution \in Nat
        /\ execution.seen.version \in Nat
        /\ account.reset <= executions
    BY <1>1, BoundsFact
    DEF AccountsTyped, Account, Token, Execution, IInv, ResetsHappened
  <1>4. AccountsTyped'
    BY <1>1, <1>2 DEF AccountsTyped
  <1>5. ResetsHappened'
    BY <1>1, <1>3, ProvisionFact DEF ResetsHappened
  <1>6. ASSUME ~lowered'
        PROVE  TokenIsOld' /\ MatchesReset' /\ IssuedSinceRead'
    <2>0. ~lowered /\ ~(account'.version < account.version)
      BY <1>1, <1>6, Zenon
    <2>1. /\ account'.version >= account.version
          /\ TokenIsOld /\ MatchesReset /\ IssuedSinceRead
      BY <1>3, <2>0 DEF IInv
    <2>2. TokenIsOld'
      BY <1>1, <1>3, <2>1 DEF TokenIsOld
    <2>3. MatchesReset'
      <3>1. CASE token = NoToken
        <4>1. token'.execution = MaxExecutions
          BY <3>1, <1>1, BoundsFact
        <4>2. account'.reset <= executions /\ account'.reset \in Nat
          BY <1>1, <1>5, BoundsFact DEF ResetsHappened, Account
        <4> QED
          BY <4>1, <4>2, <1>3 DEF MatchesReset
      <3>2. CASE token # NoToken
        <4>1. token.version <= account.version
          BY <3>2, <2>1 DEF TokenIsOld
        <4>2. \/ token.version <= execution.seen.version
              \/ token.execution = executions
          BY <3>2, <1>1, <2>1 DEF IssuedSinceRead
        <4> QED
          BY <4>1, <4>2, <1>1, <1>3, <2>1, ProvisionFact DEF MatchesReset
      <3> QED
        BY <3>1, <3>2
    <2> QED
      BY <2>2, <2>3, <1>2 DEF IssuedSinceRead
  <1> QED
    BY <1>2, <1>4, <1>5, <1>6 DEF IInv

\* The steps on cases, documents and analyses.
LEMMA LaterKeeps ==
    ASSUME IInv,
           \/ ProvisionCases \/ SkipFile \/ StoreFile \/ BeginProcessing
           \/ EndProcessing \/ DocumentsDone \/ SkipCase \/ AnalyseCase
           \/ SubmitMotions \/ AnalysesDone \/ Interrupted
    PROVE  IInv'
  <1>0. UNCHANGED <<account, token, lowered, executions>>
    BY DEF ProvisionCases, SkipFile, StoreFile, BeginProcessing, EndProcessing,
           DocumentsDone, SkipCase, AnalyseCase, SubmitMotions, AnalysesDone,
           Interrupted
  <1>1. /\ execution \in Execution
        /\ executions' \in executions .. MaxExecutions
    BY <1>0, BoundsFact DEF IInv, AccountsTyped
  <1> DEFINE stages == {"documents", "stored", "processing", "analyses",
                        "motions"}
  <1>2. \/ execution' = NoExecution
        \/ \E stage \in stages :
              execution' = [execution EXCEPT !.at = stage]
        \/ \E stage \in stages : \E todo \in SUBSET (Files \cup Cases) :
              execution' = [execution EXCEPT !.at = stage, !.todo = todo]
    <2>1. CASE ProvisionCases \/ DocumentsDone
      <3>2. program \in Programs =>
              /\ CasesOf[program] \in SUBSET (Files \cup Cases)
              /\ SeedsOf(program) \in SUBSET (Files \cup Cases)
        BY WorkFact DEF SeedsOf
      <3>3. program \in Programs
        BY <2>1 DEF ProvisionCases, DocumentsDone, program, IInv, ProgramRuns
      <3> QED
        BY <2>1, <3>2, <3>3
        DEF ProvisionCases, AfterCases, DocumentsDone, Continues, Ends
    <2>2. CASE StoreFile \/ BeginProcessing
      BY <2>2 DEF StoreFile, BeginProcessing, Goes, ThenProcess
    <2>3. CASE SkipFile \/ EndProcessing
      <3>1. execution' = NextFile
        BY <2>3 DEF SkipFile, EndProcessing
      <3>2. execution.todo \ {file} \in SUBSET (Files \cup Cases)
        BY <1>1 DEF Execution
      <3> QED
        BY <3>1, <3>2 DEF NextFile
    <2>4. CASE SkipCase \/ AnalyseCase \/ SubmitMotions
      <3>1. \/ execution' = NextCase
            \/ execution' = [execution EXCEPT !.at = "motions"]
        BY <2>4 DEF SkipCase, AnalyseCase, SubmitMotions, AfterAnalysis, Goes
      <3>2. execution.todo \ {case} \in SUBSET (Files \cup Cases)
        BY <1>1 DEF Execution
      <3> QED
        BY <3>1, <3>2 DEF NextCase
    <2>5. CASE AnalysesDone \/ Interrupted
      BY <2>5 DEF AnalysesDone, Interrupted, Ends
    <2> QED
      BY <2>1, <2>2, <2>3, <2>4, <2>5
  <1>3. execution.at # "idle"
    BY DEF ProvisionCases, SkipFile, StoreFile, BeginProcessing, EndProcessing,
           DocumentsDone, SkipCase, AnalyseCase, SubmitMotions, AnalysesDone,
           Interrupted, AtFile, AtCase
  <1>4. /\ execution' \in Execution /\ execution'.at # "provisioning"
        /\ ProgramRuns'
    <2>1. CASE execution' = NoExecution
      BY <2>1, BoundsFact DEF ProgramRuns
    <2>2. CASE \E stage \in stages :
                  execution' = [execution EXCEPT !.at = stage]
      BY <2>2, <1>1, <1>3, StageFact DEF Stages, IInv, ProgramRuns
    <2>3. CASE \E stage \in stages : \E todo \in SUBSET (Files \cup Cases) :
                  execution' = [execution EXCEPT !.at = stage, !.todo = todo]
      <3>1. PICK stage \in stages, todo \in SUBSET (Files \cup Cases) :
                execution' = [execution EXCEPT !.at = stage, !.todo = todo]
        BY <2>3
      <3>2. stage \in Stages /\ stage # "provisioning"
        BY DEF Stages
      <3>3. /\ execution' \in Execution /\ execution'.at = stage
            /\ execution'.program = execution.program
        BY <3>1, <3>2, <1>1, TodoFact
      <3> QED
        BY <3>2, <3>3, <1>3 DEF IInv, ProgramRuns
    <2> QED
      BY <1>2, <2>1, <2>2, <2>3
  <1> QED
    BY <1>0, <1>1, <1>4, StageKeeps

-----------------------------------------------------------------------------
(* The users.                                                              *)

LEMMA SignInKeeps == ASSUME IInv, SignIn PROVE IInv'
  <1>1. /\ token' = [version |-> account.version, execution |-> executions]
        /\ UNCHANGED <<execution, executions, account, lowered>>
        /\ AccountsTyped /\ ResetsHappened
    BY DEF SignIn, IInv
  <1>2. /\ token' \in Token /\ token'.version = account.version
        /\ token'.execution = executions
        /\ account.version \in Nat /\ account.reset \in Nat
        /\ executions \in Nat
    BY <1>1, BoundsFact DEF AccountsTyped, Token, Account
  <1> QED
    BY <1>1, <1>2
    DEF IInv, AccountsTyped, ResetsHappened, TokenIsOld, MatchesReset,
        IssuedSinceRead, ProgramRuns

\* The version goes up, beyond every token.
LEMMA AccountKeeps == ASSUME IInv, ChangePassword \/ Deactivate PROVE IInv'
  <1>1. /\ UNCHANGED <<execution, executions, token, lowered>>
        /\ AccountsTyped /\ account.version + 1 < MaxVersion
        /\ account' \in {[account EXCEPT !.password = "own", !.version = @ + 1],
                         [account EXCEPT !.active = FALSE, !.version = @ + 1]}
    BY DEF ChangePassword, Deactivate, IInv
  <1>2. /\ account.version \in Nat /\ account.reset \in 0 .. MaxExecutions
        /\ token.version \in Nat /\ MaxVersion \in Nat
    BY <1>1, BoundsFact DEF AccountsTyped, Account, Token
  <1>3. /\ account' \in Account /\ account'.version = account.version + 1
        /\ account'.reset = account.reset
    <2>1. account \in Account /\ account.version + 1 \in 0 .. MaxVersion
      BY <1>1, <1>2 DEF AccountsTyped
    <2> QED
      BY <1>1, <2>1 DEF Account
  <1>4. AccountsTyped' /\ ResetsHappened'
    BY <1>1, <1>3 DEF IInv, AccountsTyped, ResetsHappened
  <1>5. ASSUME ~lowered'
        PROVE  TokenIsOld' /\ MatchesReset' /\ IssuedSinceRead'
    <2>1. TokenIsOld /\ IssuedSinceRead
      BY <1>1, <1>5 DEF IInv
    <2>2. TokenIsOld'
      BY <1>1, <1>2, <1>3, <2>1 DEF TokenIsOld
    <2>3. MatchesReset'
      BY <1>1, <1>2, <1>3, <2>1, BoundsFact DEF TokenIsOld, MatchesReset
    <2> QED
      BY <1>1, <2>1, <2>2, <2>3 DEF IssuedSinceRead
  <1> QED
    BY <1>1, <1>4, <1>5 DEF IInv, ProgramRuns

\* A step that leaves accounts, token and program alone.
LEMMA OthersKeep ==
    ASSUME IInv, UNCHANGED <<execution, executions, account, token, lowered>>
    PROVE  IInv'
  BY DEF IInv, AccountsTyped, ResetsHappened, TokenIsOld, MatchesReset,
         IssuedSinceRead, ProgramRuns
-----------------------------------------------------------------------------

LEMMA NextKeeps == IInv /\ [Next]_vars => IInv'
  <1> SUFFICES ASSUME IInv, [Next]_vars PROVE IInv'
    OBVIOUS
  <1>1. CASE \E p \in Programs : Start(p)
    BY <1>1, StartKeeps
  <1>2. CASE ReadAccounts
    BY <1>2, ReadKeeps
  <1>3. CASE ProvisionAccounts
    BY <1>3, ProvisionKeeps
  <1>4. CASE \/ ProvisionCases \/ SkipFile \/ StoreFile \/ BeginProcessing
             \/ EndProcessing \/ DocumentsDone \/ SkipCase \/ AnalyseCase
             \/ SubmitMotions \/ AnalysesDone \/ Interrupted
    BY <1>4, LaterKeeps
  <1>5. CASE SignIn
    BY <1>5, SignInKeeps
  <1>6. CASE ChangePassword \/ Deactivate
    BY <1>6, AccountKeeps
  <1>7. CASE \/ \E c \in Cases : EditCase(c) \/ RunAnalysis(c)
             \/ \E f \in Files : TouchDocument(f)
             \/ \E i \in 1 .. Len(analyses) : ApproveMotion(i)
    BY <1>7, OthersKeep DEF EditCase, RunAnalysis, TouchDocument, ApproveMotion
  <1>8. CASE UNCHANGED vars
    BY <1>8, OthersKeep DEF vars
  <1> QED
    BY <1>1, <1>2, <1>3, <1>4, <1>5, <1>6, <1>7, <1>8 DEF Next

\* The invariant of account, token and program holds in every reachable state
\* (_provision_workspace beside the routes of auth.py and users.py).
THEOREM Invariance == Spec => []IInv
  BY InitKeeps, NextKeeps, PTL DEF Spec

\* While no program has lowered the account's version, replacing a foreign
\* password ends every session issued before the program read the account,
\* whatever its holder does meanwhile (_provision_workspace of bootstrap_main
\* and bootstrap_jury_workspace).
THEOREM ResetsEndSessions == Spec => []ResetEndsSessions
  <1>1. IInv => ResetEndsSessions
    BY DEF IInv, MatchesReset, ResetEndsSessions
  <1> QED
    BY Invariance, <1>1, PTL

-----------------------------------------------------------------------------
(* Rows and runs.                                                          *)
(*                                                                         *)
(* A file is settled once its extraction has ended, or once a user or an   *)
(* interruption explains why it may not have.  The invariant follows the   *)
(* program through its files: all are settled but the one in work and      *)
(* those still to do, so that a case is analysed when all of its own are.  *)

\* What the loops work on: files while documents are stored, later cases.
TodoFits ==
    /\ execution.at \in {"documents", "stored", "processing"}
         => execution.todo \subseteq Files
    /\ execution.at \in {"analyses", "motions"}
         => execution.todo \subseteq CasesOf[program]
    /\ execution.at \in {"stored", "processing", "motions"}
         => execution.todo # {}

\* The program is one of the workspace; bootstrap_production_access has only
\* accounts.
ProgramFits ==
    execution.at # "idle" =>
        /\ program \in programs
        /\ program = "production_access"
             => execution.at \in {"accounts", "provisioning"}

\* A file has a row or none, and its status says so.
RowsFit ==
    \A f \in Files : /\ documents[f].rows <= 1
                     /\ documents[f].rows = 0 <=> documents[f].status = "none"

\* The file of which the program has stored the row but not the result.
InWork(f) == execution.at \in {"stored", "processing"} /\ f = file

\* Extraction has come to an end, or it is known why it may not have.
Settled(f) == f \in disturbed \/ documents[f].status \in {"extracted", "failed"}

FilesSettle ==
    \A f \in Files :
        /\ Settled(f) \/ documents[f].status = "none" \/ InWork(f)
        /\ InWork(f) /\ f \notin disturbed
             => documents[f].status \in {"uploaded", "processing"}

\* The program comes to a case with all its files settled.  Only
\* bootstrap_phase7_11 analyses without storing documents first.
Provided ==
    program # "phase7_11" =>
        /\ execution.at \in {"documents", "stored", "processing"} =>
              \A c \in CasesOf[program] : \A f \in Seeds[c] :
                  f \in execution.todo \/ Settled(f)
        /\ execution.at \in {"analyses", "motions"} =>
              \A c \in execution.todo : \A f \in Seeds[c] : Settled(f)

AtMostOne(S) == \A i \in S : \A j \in S : i = j

\* The workspace of the programs that ask for a completed run.
Casework == programs \cap {"casework", "case_11_12"} # {}

RunsOnce ==
    \A c \in Cases :
        /\ AtMostOne(SeededRuns(c, "running"))
        /\ Casework => AtMostOne(SeededRuns(c, "completed"))

\* bootstrap_case_11_12 has no seeded run of a case that it will analyse: it
\* has looked once, and only users add runs meanwhile.
Unanalysed ==
    program = "case_11_12" =>
        /\ execution.at \in {"documents", "stored", "processing"} =>
              \A c \in CasesOf[program] : SeededRuns(c, "completed") = {}
        /\ execution.at \in {"analyses", "motions"} =>
              \A c \in execution.todo : SeededRuns(c, "completed") = {}

RecordsInv == /\ TypeOK /\ TodoFits /\ ProgramFits /\ RowsFit /\ FilesSettle
              /\ Provided /\ Unanalysed /\ RunsOnce /\ AnalysedWhole

-----------------------------------------------------------------------------
(* Helpers.                                                                *)

\* Of two numbers, the first the smaller.
Less == {p \in Nat \X Nat : p[1] < p[2]}

\* First chooses one of the files or cases: there is a least one.
LEMMA FirstFact ==
    ASSUME NEW S \in SUBSET Nat, S # {}
    PROVE  First(S) \in S
  <1>1. IsWellFoundedOn(Less, Nat)
    BY NatLessThanWellFounded, Zenon DEF OpToRel, Less
  <1>2. PICK x \in S : \A y \in S : ~(<<y, x>> \in Less)
    BY <1>1, WFMin, Zenon
  <1>3. \A y \in S : ~(y < x)
    BY <1>2 DEF Less
  <1>4. \A y \in S : x <= y
    BY <1>3
  <1> QED
    BY <1>4 DEF First

\* A set without two elements has at most one.
LEMMA AtMostOneFact ==
    ASSUME NEW S, AtMostOne(S) PROVE Cardinality(S) <= 1
  <1>1. CASE S = {}
    BY <1>1, FS_EmptySet
  <1>2. CASE S # {}
    <2>1. PICK x : S = {x}
      BY <1>2 DEF AtMostOne
    <2>2. Cardinality(S) = 1
      BY <2>1, FS_Singleton, Zenon
    <2> QED
      BY <2>2
  <1> QED
    BY <1>1, <1>2

\* A workspace has programs of one organisation.
LEMMA ProgramsFact ==
    ASSUME TypeOK
    PROVE  /\ programs \subseteq Programs
           /\ \A p \in programs : CasesOf[p] \in SUBSET Cases
           /\ programs \cap {"jury", "casework", "case_11_12"} # {}
                => "phase7_11" \notin programs
           /\ Casework => programs \subseteq {"casework", "case_11_12",
                                              "production_access"}
  <1>1. /\ workspace \in [programs: UNION {SUBSET o : o \in Organisations},
                          activities: SUBSET Activities]
    BY WorkspacesAssumption DEF TypeOK
  <1>2. PICK o \in Organisations : programs \subseteq o
    BY <1>1 DEF programs
  <1>3. programs \subseteq Programs
    BY <1>2 DEF Organisations, Programs
  <1>4. \A p \in programs : CasesOf[p] \in SUBSET Cases
    BY <1>3, CasesAssumption
  <1> QED
    BY <1>2, <1>3, <1>4 DEF Organisations, Casework

\* The file and the case a program has come to.
LEMMA FileFact ==
    ASSUME RecordsInv, execution.at \in {"documents", "stored", "processing"},
           execution.todo # {}
    PROVE  file \in execution.todo /\ file \in Files
  BY FirstFact, CasesAssumption DEF RecordsInv, TodoFits, file

LEMMA CaseFact ==
    ASSUME RecordsInv, execution.at \in {"analyses", "motions"},
           execution.todo # {}
    PROVE  /\ case \in execution.todo /\ case \in CasesOf[program]
           /\ case \in Cases
  <1>1. execution.todo \subseteq CasesOf[program] /\ program \in programs
    BY DEF RecordsInv, TodoFits, ProgramFits
  <1>2. CasesOf[program] \in SUBSET Cases
    BY <1>1, ProgramsFact DEF RecordsInv, TypeOK
  <1>3. execution.todo \in SUBSET Nat
    BY <1>1, <1>2, CasesAssumption
  <1> QED
    BY <1>1, <1>2, <1>3, FirstFact DEF case

-----------------------------------------------------------------------------
(* The analysis runs.                                                      *)

\* No run changes but for its motions.
SameRuns ==
    /\ Len(analyses') = Len(analyses)
    /\ \A i \in 1 .. Len(analyses) :
          /\ analyses'[i].case = analyses[i].case
          /\ analyses'[i].seeded = analyses[i].seeded
          /\ analyses'[i].status = analyses[i].status
          /\ analyses'[i].sources = analyses[i].sources

\* What explains a file without text stays an explanation.
StaysExplained ==
    /\ disturbed \subseteq disturbed'
    /\ \A f \in Files : documents[f].status = "failed" =>
          f \in disturbed' \/ documents'[f].status = "failed"

\* What the invariant says of the sources of a seeded run.
LEMMA WholeFact ==
    ASSUME RecordsInv, NEW c \in Cases, NEW i \in SeededRuns(c, "completed"),
           programs \cap {"jury", "casework", "case_11_12"} # {},
           NEW f \in Seeds[c] \ analyses[i].sources
    PROVE  f \in Files /\ (f \in disturbed \/ documents[f].status = "failed")
  <1>1. AnalysedWhole
    BY DEF RecordsInv
  <1>2. Seeds[c] \ analyses[i].sources \subseteq
            disturbed \cup {g \in Files : documents[g].status = "failed"}
    BY <1>1, Zenon DEF AnalysedWhole
  <1>3. disturbed \subseteq Files
    BY DEF RecordsInv, TypeOK
  <1> QED
    BY <1>2, <1>3, Zenon

LEMMA RunsStay ==
    ASSUME RecordsInv, SameRuns, StaysExplained, workspace' = workspace
    PROVE  /\ RunsOnce' /\ AnalysedWhole'
           /\ \A c : CompletedRuns(c)' = CompletedRuns(c)
  <1>1. \A c, status : SeededRuns(c, status)' = SeededRuns(c, status)
    BY DEF SeededRuns, SameRuns
  <1>2. \A c : CompletedRuns(c)' = CompletedRuns(c)
    BY DEF CompletedRuns, SameRuns
  <1>3. programs' = programs
    BY DEF programs
  <1>4. RunsOnce'
    BY <1>1, <1>3 DEF RecordsInv, RunsOnce, Casework
  <1>5. AnalysedWhole'
    <2> SUFFICES ASSUME NEW c \in Cases, NEW i \in SeededRuns(c, "completed"),
                        programs \cap {"jury", "casework", "case_11_12"} # {},
                        NEW f \in Seeds[c] \ analyses'[i].sources
                 PROVE  \/ f \in disturbed'
                        \/ f \in Files /\ documents'[f].status = "failed"
      BY <1>1, <1>3, Zenon DEF AnalysedWhole
    <2>1. analyses'[i].sources = analyses[i].sources
      BY DEF SeededRuns, SameRuns
    <2>2. f \in Files /\ (f \in disturbed \/ documents[f].status = "failed")
      BY <2>1, WholeFact
    <2> QED
      BY <2>2, Zenon DEF StaysExplained
  <1> QED
    BY <1>2, <1>4, <1>5

\* The runs with one more.
LEMMA OneMoreRun ==
    ASSUME RecordsInv, NEW a \in Analysis, analyses' = Append(analyses, a)
    PROVE  /\ analyses' \in Seq(Analysis)
           /\ Len(analyses') = Len(analyses) + 1 /\ Len(analyses) \in Nat
           /\ analyses'[Len(analyses) + 1] = a
           /\ \A i \in 1 .. Len(analyses) : analyses'[i] = analyses[i]
           /\ \A c : CompletedRuns(c) \subseteq CompletedRuns(c)'
           /\ \A c, status :
                 SeededRuns(c, status) \subseteq SeededRuns(c, status)'
           /\ \A c, status : \A i \in SeededRuns(c, status)' :
                  \/ i \in SeededRuns(c, status)
                  \/ /\ i = Len(analyses) + 1
                     /\ a.case = c /\ a.seeded /\ a.status = status
  <1>1. analyses \in Seq(Analysis)
    BY DEF RecordsInv, TypeOK
  <1>2. /\ analyses' \in Seq(Analysis)
        /\ Len(analyses') = Len(analyses) + 1 /\ Len(analyses) \in Nat
        /\ analyses'[Len(analyses) + 1] = a
        /\ \A i \in 1 .. Len(analyses) : analyses'[i] = analyses[i]
    BY <1>1
  <1>3. \A c : CompletedRuns(c) \subseteq CompletedRuns(c)'
    BY <1>2 DEF CompletedRuns
  <1>4. \A c, status : SeededRuns(c, status) \subseteq SeededRuns(c, status)'
    BY <1>2 DEF SeededRuns
  <1>5. \A c, status : \A i \in SeededRuns(c, status)' :
            \/ i \in SeededRuns(c, status)
            \/ /\ i = Len(analyses) + 1
               /\ a.case = c /\ a.seeded /\ a.status = status
    BY <1>2 DEF SeededRuns
  <1> QED
    BY <1>2, <1>3, <1>4, <1>5

\* One more run keeps the promises about runs, if it keeps them itself.
LEMMA RunsGrow ==
    ASSUME RecordsInv, NEW a \in Analysis, analyses' = Append(analyses, a),
           UNCHANGED <<workspace, documents, disturbed>>,
           (a.seeded /\ a.status = "running")
              => SeededRuns(a.case, "running") = {},
           (a.seeded /\ a.status = "completed" /\ Casework)
              => SeededRuns(a.case, "completed") = {},
           (a.seeded /\ a.status = "completed" /\ "phase7_11" \notin programs)
              => \A f \in Seeds[a.case] \ a.sources :
                    \/ f \in disturbed
                    \/ f \in Files /\ documents[f].status = "failed"
    PROVE  RunsOnce' /\ AnalysedWhole'
  <1>1. programs' = programs /\ (Casework' <=> Casework)
    BY DEF programs, Casework
  <1>2. ASSUME NEW c \in Cases PROVE AtMostOne(SeededRuns(c, "running")')
    <2>1. AtMostOne(SeededRuns(c, "running"))
      BY DEF RecordsInv, RunsOnce
    <2> QED
      BY <2>1, OneMoreRun DEF AtMostOne
  <1>3. ASSUME NEW c \in Cases, Casework
        PROVE  AtMostOne(SeededRuns(c, "completed")')
    <2>1. AtMostOne(SeededRuns(c, "completed"))
      BY <1>3 DEF RecordsInv, RunsOnce
    <2> QED
      BY <1>3, <2>1, OneMoreRun DEF AtMostOne
  <1>4. AnalysedWhole'
    <2> SUFFICES ASSUME NEW c \in Cases, NEW i \in SeededRuns(c, "completed")',
                        programs \cap {"jury", "casework", "case_11_12"} # {},
                        NEW f \in Seeds[c] \ analyses'[i].sources
                 PROVE  \/ f \in disturbed
                        \/ f \in Files /\ documents[f].status = "failed"
      BY <1>1, Zenon DEF AnalysedWhole
    <2>1. CASE i \in SeededRuns(c, "completed")
      <3>1. analyses'[i] = analyses[i]
        BY <2>1, OneMoreRun DEF SeededRuns
      <3> QED
        BY <2>1, <3>1, WholeFact
    <2>2. CASE i \notin SeededRuns(c, "completed")
      <3>1. /\ i = Len(analyses) + 1
            /\ a.case = c /\ a.seeded /\ a.status = "completed"
        BY <2>2, OneMoreRun
      <3>2. analyses'[i] = a
        BY <3>1, OneMoreRun
      <3>3. "phase7_11" \notin programs
        BY ProgramsFact DEF RecordsInv
      <3> QED
        BY <3>1, <3>2, <3>3
    <2> QED
      BY <2>1, <2>2
  <1> QED
    BY <1>1, <1>2, <1>3, <1>4 DEF RunsOnce

-----------------------------------------------------------------------------
(* The programs, where they leave rows and runs alone.                     *)

\* A program goes on to another stage, with other work, or ends.
LEMMA GoesFact ==
    ASSUME RecordsInv, NEW stage \in Stages, Goes(stage)
    PROVE  /\ execution'.at = stage /\ execution'.program = program
           /\ execution'.todo = execution.todo
  <1>1. execution \in Execution
    BY DEF RecordsInv, TypeOK
  <1> QED
    BY <1>1 DEF Goes, Execution, program

LEMMA ContinuesFact ==
    ASSUME RecordsInv, NEW stage \in Stages, NEW todo, Continues(stage, todo)
    PROVE  /\ execution'.at = stage /\ execution'.program = program
           /\ execution'.todo = todo
  <1>1. execution \in Execution
    BY DEF RecordsInv, TypeOK
  <1> QED
    BY <1>1 DEF Continues, Execution, program

LEMMA EndsFact == ASSUME Ends PROVE execution'.at = "idle"
  BY DEF Ends, NoExecution

\* Going on with the next file or case.
LEMMA NextFact ==
    ASSUME RecordsInv
    PROVE  /\ execution' = NextFile =>
                  Continues("documents", execution.todo \ {file})
           /\ execution' = NextCase =>
                  Continues("analyses", execution.todo \ {case})
  BY DEF NextFile, NextCase, Continues

\* The cases of the program, and their files.
LEMMA CasesFact ==
    ASSUME RecordsInv, execution.at # "idle"
    PROVE  /\ program \in programs /\ program \in Programs
           /\ CasesOf[program] \subseteq Cases
           /\ \A c \in Cases : Seeds[c] \subseteq Files
  BY ProgramsFact, CasesAssumption DEF RecordsInv, ProgramFits

\* No seeded run is added, and the program goes on or ends.
LEMMA UnanalysedStays ==
    ASSUME RecordsInv, \A c, status : SeededRuns(c, status)' = SeededRuns(c, status),
           \/ execution'.at \notin {"documents", "stored", "processing",
                                   "analyses", "motions"}
           \/ /\ execution'.program = program
              /\ execution.at \in {"documents", "stored", "processing"}
              /\ \/ execution'.at \in {"documents", "stored", "processing"}
                 \/ /\ execution'.at \in {"analyses", "motions"}
                    /\ execution'.todo \subseteq CasesOf[program]
           \/ /\ execution'.program = program
              /\ execution.at \in {"analyses", "motions"}
              /\ execution'.at \in {"analyses", "motions"}
              /\ execution'.todo \subseteq execution.todo
    PROVE  Unanalysed'
  <1>1. Unanalysed
    BY DEF RecordsInv
  <1>2. CASE execution'.at \notin {"documents", "stored", "processing",
                                  "analyses", "motions"}
    BY <1>2 DEF Unanalysed
  <1>3. CASE /\ execution'.program = program
             /\ execution.at \in {"documents", "stored", "processing"}
             /\ \/ execution'.at \in {"documents", "stored", "processing"}
                \/ /\ execution'.at \in {"analyses", "motions"}
                   /\ execution'.todo \subseteq CasesOf[program]
    BY <1>1, <1>3 DEF Unanalysed, program
  <1>4. CASE /\ execution'.program = program
             /\ execution.at \in {"analyses", "motions"}
             /\ execution'.at \in {"analyses", "motions"}
             /\ execution'.todo \subseteq execution.todo
    BY <1>1, <1>4 DEF Unanalysed, program
  <1> QED
    BY <1>2, <1>3, <1>4

\* The seeded runs stay, while no run is added.
LEMMA SeededStays ==
    ASSUME UNCHANGED analyses
    PROVE  \A c, status : SeededRuns(c, status)' = SeededRuns(c, status)
  BY DEF SeededRuns

\* No row and no run changes, and no file is in work before or after.
LEMMA StageMoves ==
    ASSUME RecordsInv, AccountsTyped',
           cases' \in [Cases -> {"absent", "seeded", "edited"}],
           UNCHANGED <<workspace, documents, analyses, disturbed>>,
           execution.at \notin {"stored", "processing"},
           execution'.at \notin {"stored", "processing"},
           TodoFits', ProgramFits', Provided', Unanalysed'
    PROVE  RecordsInv'
  <1>1. TypeOK'
    BY DEF RecordsInv, TypeOK, AccountsTyped
  <1>2. RunsOnce' /\ AnalysedWhole'
    <2>1. SameRuns /\ StaysExplained
      BY DEF SameRuns, StaysExplained
    <2> QED
      BY <2>1, RunsStay
  <1>3. RowsFit'
    BY DEF RecordsInv, RowsFit
  <1>4. FilesSettle'
    BY DEF RecordsInv, FilesSettle, InWork, Settled
  <1> QED
    BY <1>1, <1>2, <1>3, <1>4 DEF RecordsInv

LEMMA StartRecords ==
    ASSUME RecordsInv, AccountsTyped', NEW p \in Programs, Start(p)
    PROVE  RecordsInv'
  <1>1. /\ execution.at = "idle" /\ p \in programs
        /\ UNCHANGED <<workspace, cases, documents, analyses, disturbed>>
        /\ execution' = [NoExecution EXCEPT
                           !.program = p, !.at = FirstStage(p),
                           !.todo = IF p = "phase7_11" THEN CasesOf[p]
                                    ELSE IF p = "demo_documents" THEN SeedsOf(p)
                                    ELSE {}]
    BY DEF Start
  <1>2. /\ execution'.program = p /\ execution'.at = FirstStage(p)
        /\ execution'.todo = IF p = "phase7_11" THEN CasesOf[p]
                             ELSE IF p = "demo_documents" THEN SeedsOf(p)
                             ELSE {}
    BY <1>1 DEF NoExecution
  <1>3. /\ FirstStage(p) \in {"accounts", "documents", "analyses"}
        /\ FirstStage(p) = "analyses" => p = "phase7_11"
        /\ FirstStage(p) = "documents" => p = "demo_documents"
        /\ p = "production_access" => FirstStage(p) = "accounts"
    BY DEF FirstStage
  <1>4. /\ SeedsOf(p) \subseteq Files
        /\ \A c \in CasesOf[p] : Seeds[c] \subseteq SeedsOf(p)
    BY <1>1, CasesAssumption DEF SeedsOf
  <1>5. TodoFits'
    BY <1>2, <1>3, <1>4 DEF TodoFits, program
  <1>6. ProgramFits'
    BY <1>1, <1>2, <1>3 DEF ProgramFits, program, programs
  <1>7. Provided'
    BY <1>2, <1>3, <1>4 DEF Provided, program
  <1>9. Unanalysed'
    BY <1>2, <1>3 DEF Unanalysed, program
  <1>8. cases' \in [Cases -> {"absent", "seeded", "edited"}]
    BY <1>1 DEF RecordsInv, TypeOK
  <1> QED
    BY <1>1, <1>2, <1>3, <1>5, <1>6, <1>7, <1>8, <1>9, StageMoves

LEMMA AccountsRecords ==
    ASSUME RecordsInv, AccountsTyped', ReadAccounts \/ ProvisionAccounts
    PROVE  RecordsInv'
  <1>1. /\ execution.at \in {"accounts", "provisioning"}
        /\ UNCHANGED <<workspace, cases, documents, analyses, disturbed>>
    BY DEF ReadAccounts, ProvisionAccounts
  <1>2. \/ execution'.at = "idle"
        \/ /\ execution'.program = program
           /\ \/ execution'.at = "provisioning"
              \/ execution'.at = "cases" /\ program # "production_access"
    <2>1. CASE ReadAccounts
      <3>1. execution \in Execution
        BY DEF RecordsInv, TypeOK
      <3> QED
        BY <2>1, <3>1 DEF ReadAccounts, Execution, program
    <2>2. CASE ProvisionAccounts
      <3>1. \/ program = "production_access" /\ Ends
            \/ program # "production_access" /\ Goes("cases")
        BY <2>2 DEF ProvisionAccounts
      <3>2. "cases" \in Stages
        BY DEF Stages
      <3> QED
        BY <3>1, <3>2, EndsFact, GoesFact
    <2> QED
      BY <2>1, <2>2
  <1>3. program \in programs
    BY <1>1 DEF RecordsInv, ProgramFits
  <1>4. TodoFits' /\ Provided' /\ Unanalysed'
    BY <1>2 DEF TodoFits, Provided, Unanalysed
  <1>5. ProgramFits'
    BY <1>1, <1>2, <1>3 DEF ProgramFits, program, programs
  <1>6. cases' \in [Cases -> {"absent", "seeded", "edited"}]
    BY <1>1 DEF RecordsInv, TypeOK
  <1> QED
    BY <1>1, <1>2, <1>4, <1>5, <1>6, StageMoves

\* The files of all the cases are to be stored.
LEMMA CasesRecords ==
    ASSUME RecordsInv, AccountsTyped', ProvisionCases PROVE RecordsInv'
  <1>1. /\ execution.at = "cases" /\ program \in programs
        /\ program # "production_access"
        /\ UNCHANGED <<workspace, documents, analyses, disturbed>>
    BY DEF ProvisionCases, RecordsInv, ProgramFits
  <1>2. \/ execution'.at = "idle"
        \/ /\ execution'.at = "documents" /\ execution'.program = program
           /\ execution'.todo = SeedsOf(program) /\ ~AlreadyAnalysed
    <2>1. \/ Ends
          \/ ~AlreadyAnalysed /\ Continues("documents", SeedsOf(program))
      BY DEF ProvisionCases, AfterCases
    <2>2. "documents" \in Stages
      BY DEF Stages
    <2> QED
      BY <2>1, <2>2, EndsFact, ContinuesFact
  <1>3. TodoFits'
    BY <1>1, <1>2, CasesFact DEF TodoFits, SeedsOf
  <1>4. ProgramFits'
    BY <1>1, <1>2 DEF ProgramFits, program, programs
  <1>5. Provided'
    <2>1. CASE execution'.at = "idle"
      BY <2>1 DEF Provided
    <2>2. CASE execution'.at = "documents"
      <3>1. \A c \in CasesOf[program] : Seeds[c] \subseteq SeedsOf(program)
        BY DEF SeedsOf
      <3>2. execution'.todo = SeedsOf(program) /\ execution'.program = program
        BY <1>2, <2>2
      <3> QED
        BY <2>2, <3>1, <3>2 DEF Provided, program
    <2> QED
      BY <1>2, <2>1, <2>2
  <1>7. Unanalysed'
    <2>1. CASE execution'.at = "idle"
      BY <2>1 DEF Unanalysed
    <2>2. CASE /\ execution'.at = "documents" /\ execution'.program = program
               /\ ~AlreadyAnalysed
      <3>1. ASSUME program = "case_11_12", NEW c \in CasesOf[program]
            PROVE  SeededRuns(c, "completed") = {}
        <4>1. PICK d \in CasesOf["case_11_12"] : CompletedRuns(d) = {}
          BY <2>2, <3>1 DEF AlreadyAnalysed
        <4>2. c = d
          BY <3>1, CasesAssumption
        <4> QED
          BY <4>1, <4>2 DEF CompletedRuns, SeededRuns
      <3>2. \A c : SeededRuns(c, "completed")' = SeededRuns(c, "completed")
        BY <1>1, SeededStays
      <3> QED
        BY <2>2, <3>1, <3>2 DEF Unanalysed, program
    <2> QED
      BY <1>2, <2>1, <2>2
  <1>6. cases' \in [Cases -> {"absent", "seeded", "edited"}]
    <2>1. cases \in [Cases -> {"absent", "seeded", "edited"}]
      BY DEF RecordsInv, TypeOK
    <2>2. \A c \in Cases : ProvisionCase(c) \in {"absent", "seeded", "edited"}
      BY <2>1 DEF ProvisionCase
    <2> QED
      BY <2>1, <2>2 DEF ProvisionCases
  <1> QED
    BY <1>1, <1>2, <1>3, <1>4, <1>5, <1>6, <1>7, StageMoves

\* A file that has a row while none is in work is settled.
LEMMA SkipFileRecords ==
    ASSUME RecordsInv, AccountsTyped', SkipFile PROVE RecordsInv'
  <1>1. /\ execution.at = "documents" /\ execution.todo # {}
        /\ documents[file].rows > 0
        /\ UNCHANGED <<workspace, cases, documents, analyses, disturbed>>
        /\ execution' = NextFile
    BY DEF SkipFile, AtFile, Known, Stored
  <1>2. /\ execution'.at = "documents" /\ execution'.program = program
        /\ execution'.todo = execution.todo \ {file}
    <2>1. "documents" \in Stages
      BY DEF Stages
    <2> QED
      BY <1>1, <2>1, NextFact, ContinuesFact
  <1>3. file \in Files
    BY <1>1, FileFact
  <1>4. Settled(file)
    <2>1. documents[file].rows # 0
      BY <1>1
    <2> QED
      BY <1>1, <1>3, <2>1 DEF RecordsInv, RowsFit, FilesSettle, InWork
  <1>5. TodoFits' /\ ProgramFits'
    BY <1>1, <1>2 DEF RecordsInv, TodoFits, ProgramFits, program, programs
  <1>6. Provided'
    <2>1. \A f : Settled(f)' = Settled(f)
      BY <1>1 DEF Settled
    <2>2. program # "phase7_11" =>
            \A c \in CasesOf[program] : \A f \in Seeds[c] :
                f \in execution.todo \ {file} \/ Settled(f)
      BY <1>1, <1>4 DEF RecordsInv, Provided
    <2> QED
      BY <1>2, <2>1, <2>2 DEF Provided, program
  <1>8. Unanalysed'
    BY <1>1, <1>2, SeededStays, UnanalysedStays
  <1>7. cases' \in [Cases -> {"absent", "seeded", "edited"}]
    BY <1>1 DEF RecordsInv, TypeOK
  <1> QED
    BY <1>1, <1>2, <1>5, <1>6, <1>7, <1>8, StageMoves

\* When no file is left, those of the cases to analyse are settled.
LEMMA DocumentsDoneRecords ==
    ASSUME RecordsInv, AccountsTyped', DocumentsDone PROVE RecordsInv'
  <1>1. /\ execution.at = "documents" /\ execution.todo = {}
        /\ UNCHANGED <<workspace, cases, documents, analyses, disturbed>>
    BY DEF DocumentsDone
  <1>2. \/ execution'.at = "idle"
        \/ /\ execution'.at = "analyses" /\ execution'.program = program
           /\ execution'.todo = CasesOf[program]
    <2>1. Ends \/ Continues("analyses", CasesOf[program])
      BY DEF DocumentsDone
    <2>2. "analyses" \in Stages
      BY DEF Stages
    <2> QED
      BY <2>1, <2>2, EndsFact, ContinuesFact
  <1>3. TodoFits' /\ ProgramFits'
    BY <1>1, <1>2, CasesFact
    DEF RecordsInv, TodoFits, ProgramFits, program, programs
  <1>4. Provided'
    <2>1. \A f : Settled(f)' = Settled(f)
      BY <1>1 DEF Settled
    <2>2. program # "phase7_11" =>
              \A c \in CasesOf[program] : \A f \in Seeds[c] : Settled(f)
      BY <1>1 DEF RecordsInv, Provided
    <2> QED
      BY <1>2, <2>1, <2>2 DEF Provided, program
  <1>5. cases' \in [Cases -> {"absent", "seeded", "edited"}]
    BY <1>1 DEF RecordsInv, TypeOK
  <1>6. Unanalysed'
    BY <1>1, <1>2, SeededStays, UnanalysedStays
  <1> QED
    BY <1>1, <1>2, <1>3, <1>4, <1>5, <1>6, StageMoves

\* The program goes on with the case it is at, or with the next one.
LEMMA AfterAnalysisFact ==
    ASSUME RecordsInv, AccountsTyped', workspace' = workspace,
           \A f : Settled(f)' = Settled(f),
           \/ execution.at = "analyses" /\ execution.todo # {} /\ AfterAnalysis
           \/ execution.at = "motions" /\ execution' = NextCase
           \/ execution.at = "analyses" /\ Ends
    PROVE  /\ TodoFits' /\ ProgramFits' /\ Provided'
           /\ execution'.at \notin {"stored", "processing"}
           /\ \/ execution'.at = "idle"
              \/ /\ execution'.at \in {"analyses", "motions"}
                 /\ execution'.program = program
                 /\ execution'.todo \subseteq execution.todo
                 /\ execution'.at = "motions" \/ case \notin execution'.todo
  <1>1. \/ execution'.at = "idle"
        \/ /\ execution'.at = "motions" /\ execution'.program = program
           /\ execution'.todo = execution.todo /\ execution.todo # {}
        \/ /\ execution'.at = "analyses" /\ execution'.program = program
           /\ execution'.todo = execution.todo \ {case}
    <2>1. \/ Ends
          \/ execution.todo # {} /\ Goes("motions")
          \/ Continues("analyses", execution.todo \ {case})
      BY NextFact DEF AfterAnalysis
    <2>2. "motions" \in Stages /\ "analyses" \in Stages
      BY DEF Stages
    <2> QED
      BY <2>1, <2>2, EndsFact, GoesFact, ContinuesFact
  <1>2. execution.at \in {"analyses", "motions"}
    OBVIOUS
  <1>3. TodoFits' /\ ProgramFits'
    BY <1>1, <1>2 DEF RecordsInv, TodoFits, ProgramFits, program, programs
  <1>4. Provided'
    <2>1. program # "phase7_11" =>
              \A c \in execution.todo : \A f \in Seeds[c] : Settled(f)
      BY <1>2 DEF RecordsInv, Provided
    <2> QED
      BY <1>1, <2>1 DEF Provided, program
  <1> QED
    BY <1>1, <1>3, <1>4

LEMMA SkipCaseRecords ==
    ASSUME RecordsInv, AccountsTyped', SkipCase \/ AnalysesDone
    PROVE  RecordsInv'
  <1>1. /\ execution.at = "analyses"
        /\ \/ execution.todo # {} /\ AfterAnalysis
           \/ Ends
        /\ UNCHANGED <<workspace, cases, documents, analyses, disturbed>>
    BY DEF SkipCase, AnalysesDone, AtCase
  <1>2. \A f : Settled(f)' = Settled(f)
    BY <1>1 DEF Settled
  <1>3. cases' \in [Cases -> {"absent", "seeded", "edited"}]
    BY <1>1 DEF RecordsInv, TypeOK
  <1>4. /\ TodoFits' /\ ProgramFits' /\ Provided'
        /\ execution'.at \notin {"stored", "processing"}
        /\ \/ execution'.at = "idle"
           \/ /\ execution'.at \in {"analyses", "motions"}
              /\ execution'.program = program
              /\ execution'.todo \subseteq execution.todo
    BY <1>1, <1>2, AfterAnalysisFact
  <1>5. Unanalysed'
    BY <1>1, <1>4, SeededStays, UnanalysedStays
  <1> QED
    BY <1>1, <1>3, <1>4, <1>5, StageMoves

-----------------------------------------------------------------------------
(* The steps on rows.                                                      *)

\* No case and no run changes.
LEMMA RowsMove ==
    ASSUME RecordsInv, AccountsTyped',
           UNCHANGED <<workspace, cases, analyses>>,
           documents' \in [Files -> Document], disturbed' \subseteq Files,
           StaysExplained,
           TodoFits', ProgramFits', RowsFit', FilesSettle', Provided',
           Unanalysed'
    PROVE  RecordsInv'
  <1>1. TypeOK'
    BY DEF RecordsInv, TypeOK, AccountsTyped
  <1>2. RunsOnce' /\ AnalysedWhole'
    <2>1. SameRuns
      BY DEF SameRuns
    <2> QED
      BY <2>1, RunsStay
  <1> QED
    BY <1>1, <1>2 DEF RecordsInv

\* One row gets another content.
LEMMA RowFact ==
    ASSUME RecordsInv, NEW f \in Files, NEW row \in Document,
           row.rows <= 1, row.rows = 0 <=> row.status = "none",
           documents' = [documents EXCEPT ![f] = row]
    PROVE  /\ documents' \in [Files -> Document] /\ RowsFit'
           /\ documents'[f] = row
           /\ \A g \in Files : g # f => documents'[g] = documents[g]
  <1>1. documents \in [Files -> Document]
    BY DEF RecordsInv, TypeOK
  <1> QED
    BY <1>1 DEF RecordsInv, RowsFit

\* A program works on a file whose row nobody else has come upon.
LEMMA StoreRecords ==
    ASSUME RecordsInv, AccountsTyped', StoreFile PROVE RecordsInv'
  <1> DEFINE row == [rows |-> documents[file].rows + 1, status |-> "uploaded"]
  <1>1. /\ execution.at = "documents" /\ execution.todo # {}
        /\ UNCHANGED <<workspace, cases, analyses, disturbed>>
        /\ documents' = [documents EXCEPT ![file] = row]
        /\ ~(documents[file].rows > 0) /\ Goes("stored")
    BY DEF StoreFile, AtFile, Known, Stored, ThenProcess
  <1>2. /\ execution'.at = "stored" /\ execution'.program = program
        /\ execution'.todo = execution.todo
    BY <1>1, GoesFact DEF Stages
  <1>3. file \in execution.todo /\ file \in Files
    BY <1>1, FileFact
  <1>4. documents[file] \in Document /\ documents[file].rows = 0
    <2>1. documents[file] \in Document
      BY <1>3 DEF RecordsInv, TypeOK
    <2> QED
      BY <1>1, <2>1 DEF Document
  <1>5. documents[file].status = "none"
    BY <1>3, <1>4 DEF RecordsInv, RowsFit
  <1>6. row \in Document /\ row.rows = 1 /\ row.status = "uploaded"
    BY <1>4 DEF Document
  <1> HIDE DEF row
  <1>7. /\ documents' \in [Files -> Document] /\ RowsFit'
        /\ documents'[file] = row
        /\ \A g \in Files : g # file => documents'[g] = documents[g]
    <2>1. row.rows <= 1 /\ (row.rows = 0 <=> row.status = "none")
      BY <1>6
    <2> QED
      BY <1>1, <1>3, <1>6, <2>1, RowFact
  <1>8. StaysExplained
    BY <1>1, <1>5, <1>7 DEF StaysExplained
  <1>9. file' = file
    BY <1>2 DEF file
  <1>10. FilesSettle'
    BY <1>1, <1>2, <1>6, <1>7, <1>9
    DEF RecordsInv, FilesSettle, InWork, Settled
  <1>11. TodoFits' /\ ProgramFits'
    BY <1>1, <1>2 DEF RecordsInv, TodoFits, ProgramFits, program, programs
  <1>12. Provided'
    <2>2. \A c \in CasesOf[program] : \A f \in Seeds[c] : f \in Files
      BY <1>1, CasesFact
    <2>3. \A f \in Files : f # file => Settled(f)' = Settled(f)
      BY <1>1, <1>7 DEF Settled
    <2>4. program # "phase7_11" =>
            \A c \in CasesOf[program] : \A f \in Seeds[c] :
                f \in execution.todo \/ Settled(f)
      BY <1>1 DEF RecordsInv, Provided
    <2> QED
      BY <1>2, <1>3, <2>2, <2>3, <2>4 DEF Provided, program
  <1>13. disturbed' \subseteq Files
    BY <1>1 DEF RecordsInv, TypeOK
  <1>14. Unanalysed'
    BY <1>1, <1>2, SeededStays, UnanalysedStays
  <1> QED
    BY <1>1, <1>7, <1>8, <1>10, <1>11, <1>12, <1>13, <1>14, RowsMove

\* Neither while it is processed, nor with the result.
LEMMA ProcessingRecords ==
    ASSUME RecordsInv, AccountsTyped', BeginProcessing \/ EndProcessing
    PROVE  RecordsInv'
  <1>1. /\ execution.at \in {"stored", "processing"}
        /\ documents[file].rows > 0
        /\ UNCHANGED <<workspace, cases, analyses, disturbed>>
    BY DEF BeginProcessing, EndProcessing, Stored
  <1>2. PICK result \in {"processing", "extracted", "failed"} :
            /\ documents' = [documents EXCEPT ![file].status = result]
            /\ IF result = "processing" THEN Goes("processing")
               ELSE execution' = NextFile
    BY DEF BeginProcessing, EndProcessing
  <1>3. \/ /\ result = "processing" /\ execution'.at = "processing"
           /\ execution'.program = program
           /\ execution'.todo = execution.todo
        \/ /\ result \in {"extracted", "failed"}
           /\ execution'.at = "documents" /\ execution'.program = program
           /\ execution'.todo = execution.todo \ {file}
    <2>1. "processing" \in Stages /\ "documents" \in Stages
      BY DEF Stages
    <2> QED
      BY <1>2, <2>1, GoesFact, NextFact, ContinuesFact
  <1>4. file \in execution.todo /\ file \in Files
    <2>1. execution.todo # {}
      BY <1>1 DEF RecordsInv, TodoFits
    <2> QED
      BY <1>1, <2>1, FileFact
  <1> DEFINE row == [documents[file] EXCEPT !.status = result]
  <1>5. documents \in [Files -> Document] /\ documents[file] \in Document
    BY <1>4 DEF RecordsInv, TypeOK
  <1>6. row \in Document /\ row.rows = 1 /\ row.status = result
    <2>1. documents[file].rows <= 1 /\ documents[file].rows \in Nat
      BY <1>4, <1>5 DEF RecordsInv, RowsFit, Document
    <2> QED
      BY <1>1, <1>5, <2>1 DEF Document
  <1>7. documents' = [documents EXCEPT ![file] = row]
    BY <1>2
  <1> HIDE DEF row
  <1>8. /\ documents' \in [Files -> Document] /\ RowsFit'
        /\ documents'[file] = row
        /\ \A g \in Files : g # file => documents'[g] = documents[g]
    <2>1. row.rows <= 1 /\ (row.rows = 0 <=> row.status = "none")
      BY <1>6
    <2> QED
      BY <1>4, <1>6, <1>7, <2>1, RowFact
  <1>9. \/ file \in disturbed
        \/ documents[file].status \in {"uploaded", "processing"}
    BY <1>1, <1>4 DEF RecordsInv, FilesSettle, InWork
  <1>10. StaysExplained
    BY <1>1, <1>8, <1>9 DEF StaysExplained
  <1>11. \A f \in Files : f # file =>
            /\ Settled(f)' = Settled(f)
            /\ Settled(f) \/ documents'[f].status = "none"
    BY <1>1, <1>8 DEF RecordsInv, FilesSettle, InWork, Settled
  <1>13. ASSUME result \in {"extracted", "failed"}
         PROVE  \/ file \in disturbed'
                \/ documents'[file].status \in {"extracted", "failed"}
    BY <1>6, <1>8, <1>13
  <1>14. FilesSettle'
    <2>1. CASE result = "processing"
      <3>1. file' = file
        BY <1>3, <2>1 DEF file
      <3> QED
        BY <1>3, <1>6, <1>8, <1>11, <2>1, <3>1
        DEF FilesSettle, InWork, Settled
    <2>2. CASE result \in {"extracted", "failed"}
      BY <1>3, <1>8, <1>11, <1>13, <2>2 DEF FilesSettle, InWork, Settled
    <2> QED
      BY <2>1, <2>2
  <1>15. TodoFits' /\ ProgramFits'
    BY <1>1, <1>3, <1>4
    DEF RecordsInv, TodoFits, ProgramFits, program, programs
  <1>16. Provided'
    <2>2. \A c \in CasesOf[program] : \A f \in Seeds[c] : f \in Files
      BY <1>1, CasesFact
    <2>3. program # "phase7_11" =>
            \A c \in CasesOf[program] : \A f \in Seeds[c] :
                f \in execution.todo \/ Settled(f)
      BY <1>1 DEF RecordsInv, Provided
    <2>4. CASE result = "processing"
      BY <1>3, <1>4, <1>11, <2>2, <2>3, <2>4 DEF Provided, program
    <2>5. CASE result \in {"extracted", "failed"}
      <3>1. program # "phase7_11" =>
              \A c \in CasesOf[program] : \A f \in Seeds[c] :
                  f \in execution.todo \ {file} \/ Settled(f)'
        BY <1>11, <1>13, <2>2, <2>3, <2>5 DEF Settled
      <3> QED
        BY <1>3, <2>5, <3>1 DEF Provided, program
    <2> QED
      BY <2>4, <2>5
  <1>17. disturbed' \subseteq Files
    BY <1>1 DEF RecordsInv, TypeOK
  <1>18. Unanalysed'
    BY <1>1, <1>3, SeededStays, UnanalysedStays
  <1> QED
    BY <1>1, <1>8, <1>10, <1>14, <1>15, <1>16, <1>17, <1>18, RowsMove

\* An interruption leaves at most the file in work unsettled.
LEMMA InterruptedRecords ==
    ASSUME RecordsInv, AccountsTyped', Interrupted PROVE RecordsInv'
  <1>1. /\ UNCHANGED <<workspace, cases, analyses, documents>> /\ Ends
        /\ disturbed' = IF execution.at \in {"stored", "processing"}
                        THEN disturbed \cup {file} ELSE disturbed
    BY DEF Interrupted
  <1>2. execution'.at = "idle"
    BY <1>1, EndsFact
  <1>3. disturbed \subseteq Files /\ documents \in [Files -> Document]
    BY DEF RecordsInv, TypeOK
  <1>4. execution.at \in {"stored", "processing"} => file \in Files
    BY FileFact DEF RecordsInv, TodoFits
  <1>5. disturbed' \subseteq Files /\ StaysExplained
    BY <1>1, <1>3, <1>4 DEF StaysExplained
  <1>6. RowsFit'
    BY <1>1 DEF RecordsInv, RowsFit
  <1>7. FilesSettle'
    BY <1>1, <1>2 DEF RecordsInv, FilesSettle, InWork, Settled
  <1>8. TodoFits' /\ ProgramFits' /\ Provided' /\ Unanalysed'
    BY <1>2 DEF TodoFits, ProgramFits, Provided, Unanalysed
  <1> QED
    BY <1>1, <1>3, <1>5, <1>6, <1>7, <1>8, RowsMove

\* What a user does to a row explains it.
LEMMA TouchRecords ==
    ASSUME RecordsInv, AccountsTyped', NEW f \in Files, TouchDocument(f)
    PROVE  RecordsInv'
  <1>1. /\ documents[f].rows = 1 /\ disturbed' = disturbed \cup {f}
        /\ UNCHANGED <<workspace, execution, cases, analyses>>
    BY DEF TouchDocument
  <1>2. documents \in [Files -> Document] /\ documents[f] \in Document
    BY DEF RecordsInv, TypeOK
  <1>3. PICK row \in {[documents[f] EXCEPT !.status = "extracted"],
                      NoDocument} :
            documents' = [documents EXCEPT ![f] = row]
    BY DEF TouchDocument
  <1>4. /\ row \in Document /\ row.rows <= 1
        /\ row.rows = 0 <=> row.status = "none"
    BY <1>1, <1>2, <1>3 DEF Document, NoDocument
  <1>5. /\ documents' \in [Files -> Document] /\ RowsFit'
        /\ \A g \in Files : g # f => documents'[g] = documents[g]
    BY <1>3, <1>4, RowFact
  <1>6. disturbed' \subseteq Files
    BY <1>1 DEF RecordsInv, TypeOK
  <1>7. StaysExplained
    BY <1>1, <1>5 DEF StaysExplained
  <1>8. /\ \A g \in Files : Settled(g) => Settled(g)'
        /\ f \in disturbed'
    BY <1>1, <1>5 DEF Settled
  <1>9. FilesSettle'
    <2>1. \A g : InWork(g)' = InWork(g)
      BY <1>1 DEF InWork, file
    <2>2. ASSUME NEW g \in Files, g # f
          PROVE  /\ (Settled(g) \/ documents[g].status = "none" \/ InWork(g))'
                 /\ (InWork(g) /\ g \notin disturbed =>
                        documents[g].status \in {"uploaded", "processing"})'
      BY <1>1, <1>5, <1>8, <2>1, <2>2 DEF RecordsInv, FilesSettle
    <2>3. Settled(f)'
      BY <1>8 DEF Settled
    <2> QED
      BY <1>8, <2>2, <2>3 DEF FilesSettle
  <1>10. TodoFits' /\ ProgramFits'
    BY <1>1 DEF RecordsInv, TodoFits, ProgramFits, program, programs
  <1>11. Provided'
    <2>1. CASE execution.at \in {"documents", "stored", "processing"}
      <3>1. \A c \in CasesOf[program] : \A g \in Seeds[c] : g \in Files
        BY <2>1, CasesFact
      <3> QED
        BY <1>1, <1>8, <2>1, <3>1 DEF RecordsInv, Provided, program
    <2>2. CASE execution.at \in {"analyses", "motions"}
      <3>1. \A c \in execution.todo : \A g \in Seeds[c] : g \in Files
        BY <2>2, CasesFact DEF RecordsInv, TodoFits
      <3> QED
        BY <1>1, <1>8, <2>2, <3>1 DEF RecordsInv, Provided, program
    <2> QED
      BY <1>1, <2>1, <2>2 DEF Provided
  <1>12. Unanalysed'
    BY <1>1, SeededStays DEF RecordsInv, Unanalysed, program
  <1> QED
    BY <1>1, <1>5, <1>6, <1>7, <1>9, <1>10, <1>11, <1>12, RowsMove

-----------------------------------------------------------------------------
(* The steps on runs.                                                      *)

LEMMA RunsMove ==
    ASSUME RecordsInv, AccountsTyped',
           UNCHANGED <<workspace, cases, documents, disturbed>>,
           analyses' \in Seq(Analysis), Len(analyses') <= MaxAnalyses,
           execution.at \notin {"stored", "processing"} \/ UNCHANGED execution,
           execution'.at \notin {"stored", "processing"} \/ UNCHANGED execution,
           TodoFits', ProgramFits', Provided', Unanalysed', RunsOnce',
           AnalysedWhole'
    PROVE  RecordsInv'
  <1>1. TypeOK'
    BY DEF RecordsInv, TypeOK, AccountsTyped
  <1>2. RowsFit'
    BY DEF RecordsInv, RowsFit
  <1>3. FilesSettle'
    BY DEF RecordsInv, FilesSettle, InWork, Settled, file
  <1> QED
    BY <1>1, <1>2, <1>3 DEF RecordsInv

LEMMA RunFact ==
    ASSUME RecordsInv, NEW c \in Cases, NEW seeded \in BOOLEAN
    PROVE  RunOf(c, seeded) \in Analysis /\ ExtractedOf(c) \subseteq Files
  <1>1. ExtractedOf(c) \subseteq Files
    BY CasesAssumption DEF ExtractedOf
  <1> QED
    BY <1>1 DEF RunOf, Analysis

\* A program analyses a case that has no such run yet, on all its files.
LEMMA AnalyseRecords ==
    ASSUME RecordsInv, AccountsTyped', AnalyseCase PROVE RecordsInv'
  <1> DEFINE a == IF Pending THEN PendingRun ELSE RunOf(case, TRUE)
  <1>1. /\ execution.at = "analyses" /\ execution.todo # {} /\ AfterAnalysis
        /\ ~Satisfied /\ Len(analyses) < MaxAnalyses
        /\ analyses' = Append(analyses, a)
        /\ UNCHANGED <<workspace, cases, documents, disturbed>>
    BY DEF AnalyseCase, AtCase
  <1>2. case \in execution.todo /\ case \in Cases
    BY <1>1, CaseFact
  <1>3. /\ a \in Analysis /\ a.case = case
        /\ a.status = "running" => Pending
        /\ a.status = "completed" =>
              ~Pending /\ a.sources = ExtractedOf(case)
    BY <1>2, RunFact DEF PendingRun, Analysis, RunOf
  <1> HIDE DEF a
  <1>4. a.status = "running" => SeededRuns(a.case, "running") = {}
    <2> SUFFICES ASSUME Pending PROVE SeededRuns(case, "running") = {}
      BY <1>3
    <2>1. ~HasRunning
      BY <1>1 DEF Satisfied, Pending
    <2> QED
      BY <2>1 DEF HasRunning, SeededRuns
  <1>5. (a.status = "completed" /\ Casework)
            => SeededRuns(a.case, "completed") = {}
    <2> SUFFICES ASSUME ~Pending, Casework
                 PROVE  SeededRuns(case, "completed") = {}
      BY <1>3
    <2>1. program \in {"casework", "case_11_12"}
      BY <1>1, ProgramsFact DEF RecordsInv, ProgramFits
    <2>2. CASE program = "casework"
      <3>1. CompletedRuns(case) = {}
        BY <1>1, <2>2 DEF Satisfied
      <3> QED
        BY <3>1 DEF CompletedRuns, SeededRuns
    <2>3. CASE program = "case_11_12"
      BY <1>1, <1>2, <2>3 DEF RecordsInv, Unanalysed
    <2> QED
      BY <2>1, <2>2, <2>3
  <1>6. (a.status = "completed" /\ "phase7_11" \notin programs) =>
            \A f \in Seeds[a.case] \ a.sources :
                \/ f \in disturbed
                \/ f \in Files /\ documents[f].status = "failed"
    <2> SUFFICES ASSUME a.status = "completed", "phase7_11" \notin programs,
                        NEW f \in Seeds[case] \ ExtractedOf(case)
                 PROVE  \/ f \in disturbed
                        \/ f \in Files /\ documents[f].status = "failed"
      BY <1>3
    <2>1. program # "phase7_11"
      BY <1>1 DEF RecordsInv, ProgramFits
    <2>2. Settled(f)
      BY <1>1, <1>2, <2>1 DEF RecordsInv, Provided
    <2>3. documents[f].status # "extracted"
      BY DEF ExtractedOf
    <2>4. f \in Files
      BY <1>2, CasesAssumption
    <2> QED
      BY <2>2, <2>3, <2>4 DEF Settled
  <1>7. RunsOnce' /\ AnalysedWhole'
    BY <1>1, <1>3, <1>4, <1>5, <1>6, RunsGrow
  <1>8. analyses' \in Seq(Analysis) /\ Len(analyses') <= MaxAnalyses
    <2>1. analyses \in Seq(Analysis) /\ Len(analyses) \in Nat
          /\ MaxAnalyses \in Nat
      BY BoundsAssumption DEF RecordsInv, TypeOK
    <2> QED
      BY <1>1, <1>3, <2>1
  <1>9. \A f : Settled(f)' = Settled(f)
    BY <1>1 DEF Settled
  <1>10. /\ TodoFits' /\ ProgramFits' /\ Provided'
         /\ execution'.at \notin {"stored", "processing"}
         /\ \/ execution'.at = "idle"
            \/ /\ execution'.at \in {"analyses", "motions"}
               /\ execution'.program = program
               /\ execution'.todo \subseteq execution.todo
               /\ execution'.at = "motions" \/ case \notin execution'.todo
    BY <1>1, <1>9, AfterAnalysisFact
  \* Only casework goes on to motions, and the case analysed is not left.
  <1>11. Unanalysed'
    <2>1. CASE execution'.at = "idle" \/ execution'.program # "case_11_12"
      BY <2>1 DEF Unanalysed, program
    <2>2. CASE /\ execution'.at = "analyses" /\ execution'.program = program
               /\ program = "case_11_12" /\ case \notin execution'.todo
               /\ execution'.todo \subseteq execution.todo
      <3>1. \A c \in execution'.todo : SeededRuns(c, "completed")' = {}
        <4>1. \A c \in execution'.todo :
                 c # case /\ SeededRuns(c, "completed") = {}
          BY <1>1, <2>2 DEF RecordsInv, Unanalysed
        <4> QED
          BY <1>1, <1>3, <4>1, OneMoreRun
      <3> QED
        BY <2>2, <3>1 DEF Unanalysed
    <2>3. execution'.at = "motions" => program = "casework"
      <3>1. CASE program = "casework"
        BY <3>1
      <3>2. CASE program # "casework"
        <4>1. execution' = NextCase
          BY <1>1, <3>2 DEF AfterAnalysis
        <4>2. execution'.at = "analyses"
          BY <4>1, NextFact, ContinuesFact DEF Stages
        <4> QED
          BY <4>2
      <3> QED
        BY <3>1, <3>2
    <2> QED
      BY <1>10, <2>1, <2>2, <2>3
  <1> QED
    BY <1>1, <1>7, <1>8, <1>10, <1>11, RunsMove

\* The motions of the case are put under review; nothing else of a run changes.
LEMMA SubmitRecords ==
    ASSUME RecordsInv, AccountsTyped', SubmitMotions PROVE RecordsInv'
  <1>1. /\ execution.at = "motions" /\ execution' = NextCase
        /\ analyses' = [i \in 1 .. Len(analyses) |-> UnderReview(analyses[i])]
        /\ UNCHANGED <<workspace, cases, documents, disturbed>>
    BY DEF SubmitMotions
  <1>2. analyses \in Seq(Analysis) /\ Len(analyses) <= MaxAnalyses
    BY DEF RecordsInv, TypeOK
  <1>3. \A r \in Analysis : /\ UnderReview(r) \in Analysis
                            /\ UnderReview(r).case = r.case
                            /\ UnderReview(r).seeded = r.seeded
                            /\ UnderReview(r).status = r.status
                            /\ UnderReview(r).sources = r.sources
    BY DEF UnderReview, Analysis
  <1>4. /\ analyses' \in Seq(Analysis) /\ Len(analyses') = Len(analyses)
        /\ \A i \in 1 .. Len(analyses) :
              /\ analyses[i] \in Analysis
              /\ analyses'[i] = UnderReview(analyses[i])
    BY <1>1, <1>2, <1>3
  <1>5. SameRuns
    BY <1>3, <1>4 DEF SameRuns
  <1>6. RunsOnce' /\ AnalysedWhole'
    <2>1. StaysExplained
      BY <1>1 DEF StaysExplained
    <2> QED
      BY <1>1, <1>5, <2>1, RunsStay
  <1>7. \A f : Settled(f)' = Settled(f)
    BY <1>1 DEF Settled
  <1>8. /\ TodoFits' /\ ProgramFits' /\ Provided'
        /\ execution'.at \notin {"stored", "processing"}
        /\ \/ execution'.at = "idle"
           \/ /\ execution'.at \in {"analyses", "motions"}
              /\ execution'.program = program
              /\ execution'.todo \subseteq execution.todo
    BY <1>1, <1>7, AfterAnalysisFact
  <1>9. \A c, status : SeededRuns(c, status)' = SeededRuns(c, status)
    BY <1>5 DEF SeededRuns, SameRuns
  <1>10. Unanalysed'
    BY <1>1, <1>8, <1>9, UnanalysedStays
  <1> QED
    BY <1>1, <1>2, <1>4, <1>6, <1>8, <1>10, RunsMove

\* A user's run is no seeded run, and an approval only changes a motion.
LEMMA UserRunsRecords ==
    ASSUME RecordsInv, AccountsTyped',
           \/ \E c \in Cases : RunAnalysis(c)
           \/ \E i \in 1 .. Len(analyses) : ApproveMotion(i)
    PROVE  RecordsInv'
  <1>1. UNCHANGED <<workspace, execution, cases, documents, disturbed>>
    BY DEF RunAnalysis, ApproveMotion
  <1>2. /\ analyses \in Seq(Analysis) /\ Len(analyses) \in Nat
        /\ Len(analyses) <= MaxAnalyses /\ MaxAnalyses \in Nat
    BY BoundsAssumption DEF RecordsInv, TypeOK
  <1>3. /\ RunsOnce' /\ AnalysedWhole'
        /\ \A c, status : SeededRuns(c, status)' = SeededRuns(c, status)
        /\ analyses' \in Seq(Analysis) /\ Len(analyses') <= MaxAnalyses
    <2>1. ASSUME NEW c \in Cases, RunAnalysis(c)
          PROVE  /\ RunsOnce' /\ AnalysedWhole'
                 /\ \A d, status : SeededRuns(d, status)' = SeededRuns(d, status)
                 /\ analyses' \in Seq(Analysis) /\ Len(analyses') <= MaxAnalyses
      <3>1. /\ analyses' = Append(analyses, RunOf(c, FALSE))
            /\ Len(analyses) < MaxAnalyses
        BY <2>1 DEF RunAnalysis
      <3>2. RunOf(c, FALSE) \in Analysis /\ ~RunOf(c, FALSE).seeded
        BY RunFact DEF RunOf
      <3>3. RunsOnce' /\ AnalysedWhole'
        BY <1>1, <3>1, <3>2, RunsGrow
      <3>4. \A d, status : SeededRuns(d, status)' = SeededRuns(d, status)
        <4> SUFFICES ASSUME NEW d, NEW status
                     PROVE  SeededRuns(d, status)' = SeededRuns(d, status)
          OBVIOUS
        <4>1. PICK a \in Analysis : a = RunOf(c, FALSE) /\ ~a.seeded
          BY <3>2
        <4>2. analyses' = Append(analyses, a)
          BY <3>1, <4>1
        <4>3. SeededRuns(d, status) \subseteq SeededRuns(d, status)'
          BY <4>2, OneMoreRun
        <4>4. SeededRuns(d, status)' \subseteq SeededRuns(d, status)
          BY <4>1, <4>2, OneMoreRun
        <4> QED
          BY <4>3, <4>4
      <3>5. analyses' \in Seq(Analysis)
        BY <3>1, <3>2, OneMoreRun
      <3>6. Len(analyses') <= MaxAnalyses
        <4>1. Len(analyses') = Len(analyses) + 1
          BY <3>1, <3>2, OneMoreRun
        <4> QED
          BY <1>2, <3>1, <4>1
      <3> QED
        BY <3>3, <3>4, <3>5, <3>6
    <2>2. ASSUME NEW i \in 1 .. Len(analyses), ApproveMotion(i)
          PROVE  /\ RunsOnce' /\ AnalysedWhole'
                 /\ \A d, status : SeededRuns(d, status)' = SeededRuns(d, status)
                 /\ analyses' \in Seq(Analysis) /\ Len(analyses') <= MaxAnalyses
      <3>1. analyses' = [analyses EXCEPT ![i].motion = "approved"]
        BY <2>2 DEF ApproveMotion
      <3>2. \A j \in 1 .. Len(analyses) :
               /\ analyses[j] \in Analysis
               /\ analyses'[j] = IF j = i
                                 THEN [analyses[i] EXCEPT !.motion = "approved"]
                                 ELSE analyses[j]
        BY <1>2, <3>1
      <3>3. LET r == [analyses[i] EXCEPT !.motion = "approved"]
            IN  /\ r \in Analysis /\ r.case = analyses[i].case
                /\ r.seeded = analyses[i].seeded
                /\ r.status = analyses[i].status
                /\ r.sources = analyses[i].sources
        BY <3>2 DEF Analysis
      <3>4. /\ Len(analyses') = Len(analyses)
            /\ analyses' \in Seq(Analysis)
        BY <1>2, <3>1, <3>2, <3>3
      <3>5. SameRuns
        BY <3>2, <3>3, <3>4 DEF SameRuns
      <3>6. StaysExplained
        BY <1>1 DEF StaysExplained
      <3>7. \A d, status : SeededRuns(d, status)' = SeededRuns(d, status)
        BY <3>5 DEF SeededRuns, SameRuns
      <3> QED
        BY <1>1, <1>2, <3>4, <3>5, <3>6, <3>7, RunsStay
    <2> QED
      BY <2>1, <2>2
  <1>4. TodoFits' /\ ProgramFits'
    BY <1>1 DEF RecordsInv, TodoFits, ProgramFits, program, programs
  <1>5. Provided'
    <2>1. \A f : Settled(f)' = Settled(f)
      BY <1>1 DEF Settled
    <2> QED
      BY <1>1, <2>1 DEF RecordsInv, Provided, program
  <1>6. Unanalysed'
    BY <1>1, <1>3 DEF RecordsInv, Unanalysed, program
  <1> QED
    BY <1>1, <1>3, <1>4, <1>5, <1>6, RunsMove

\* The other steps of users.
LEMMA UsersRecords ==
    ASSUME RecordsInv, AccountsTyped',
           \/ SignIn \/ ChangePassword \/ Deactivate
           \/ \E c \in Cases : EditCase(c)
           \/ UNCHANGED vars
    PROVE  RecordsInv'
  <1>1. UNCHANGED <<workspace, execution, documents, analyses, disturbed>>
    BY DEF SignIn, ChangePassword, Deactivate, EditCase, vars
  <1>2. cases' \in [Cases -> {"absent", "seeded", "edited"}]
    <2>1. cases \in [Cases -> {"absent", "seeded", "edited"}]
      BY DEF RecordsInv, TypeOK
    <2>2. \/ cases' = cases
          \/ \E c \in Cases : cases' = [cases EXCEPT ![c] = "edited"]
      BY DEF SignIn, ChangePassword, Deactivate, EditCase, vars
    <2> QED
      BY <2>1, <2>2
  <1>3. TypeOK'
    BY <1>1, <1>2 DEF RecordsInv, TypeOK, AccountsTyped
  <1>4. RunsOnce' /\ AnalysedWhole'
    <2>1. SameRuns /\ StaysExplained
      BY <1>1 DEF SameRuns, StaysExplained
    <2> QED
      BY <1>1, <2>1, RunsStay
  <1>5. TodoFits' /\ ProgramFits' /\ RowsFit'
    BY <1>1
    DEF RecordsInv, TodoFits, ProgramFits, RowsFit, program, programs
  <1>6. FilesSettle'
    BY <1>1 DEF RecordsInv, FilesSettle, InWork, Settled, file
  <1>7. Provided'
    <2>1. \A f : Settled(f)' = Settled(f)
      BY <1>1 DEF Settled
    <2> QED
      BY <1>1, <2>1 DEF RecordsInv, Provided, program
  <1>8. Unanalysed'
    BY <1>1, SeededStays DEF RecordsInv, Unanalysed, program
  <1> QED
    BY <1>3, <1>4, <1>5, <1>6, <1>7, <1>8 DEF RecordsInv

-----------------------------------------------------------------------------

LEMMA InitRecords == Init => RecordsInv
  <1> SUFFICES ASSUME Init PROVE RecordsInv
    OBVIOUS
  <1>1. /\ workspace \in Workspaces /\ execution = NoExecution
        /\ cases = [c \in Cases |-> "absent"]
        /\ documents = [f \in Files |-> NoDocument]
        /\ analyses = << >> /\ disturbed = {}
    BY DEF Init
  <1>2. execution.at = "idle"
    BY <1>1, BoundsFact
  <1>3. TypeOK
    <2>1. AccountsTyped
      BY InitKeeps DEF IInv
    <2>2. NoDocument \in Document /\ Len(analyses) <= MaxAnalyses
      BY <1>1, BoundsAssumption DEF NoDocument, Document
    <2> QED
      BY <1>1, <2>1, <2>2 DEF TypeOK, AccountsTyped
  <1>4. TodoFits /\ ProgramFits /\ Provided /\ Unanalysed
    BY <1>2 DEF TodoFits, ProgramFits, Provided, Unanalysed
  <1>5. RowsFit /\ FilesSettle
    BY <1>1, <1>2 DEF RowsFit, FilesSettle, InWork, NoDocument
  <1>6. \A c, status : SeededRuns(c, status) = {}
    BY <1>1 DEF SeededRuns
  <1>7. RunsOnce /\ AnalysedWhole
    BY <1>6 DEF RunsOnce, AnalysedWhole, AtMostOne
  <1> QED
    BY <1>3, <1>4, <1>5, <1>7 DEF RecordsInv

LEMMA NextRecords == RecordsInv /\ IInv' /\ [Next]_vars => RecordsInv'
  <1> SUFFICES ASSUME RecordsInv, IInv', [Next]_vars PROVE RecordsInv'
    OBVIOUS
  <1>0. AccountsTyped'
    BY DEF IInv
  <1>1. CASE \E p \in Programs : Start(p)
    BY <1>0, <1>1, StartRecords
  <1>2. CASE ReadAccounts \/ ProvisionAccounts
    BY <1>0, <1>2, AccountsRecords
  <1>3. CASE ProvisionCases
    BY <1>0, <1>3, CasesRecords
  <1>4. CASE SkipFile
    BY <1>0, <1>4, SkipFileRecords
  <1>5. CASE StoreFile
    BY <1>0, <1>5, StoreRecords
  <1>6. CASE BeginProcessing \/ EndProcessing
    BY <1>0, <1>6, ProcessingRecords
  <1>7. CASE DocumentsDone
    BY <1>0, <1>7, DocumentsDoneRecords
  <1>8. CASE SkipCase \/ AnalysesDone
    BY <1>0, <1>8, SkipCaseRecords
  <1>9. CASE AnalyseCase
    BY <1>0, <1>9, AnalyseRecords
  <1>10. CASE SubmitMotions
    BY <1>0, <1>10, SubmitRecords
  <1>11. CASE Interrupted
    BY <1>0, <1>11, InterruptedRecords
  <1>12. CASE \E f \in Files : TouchDocument(f)
    BY <1>0, <1>12, TouchRecords
  <1>13. CASE \/ \E c \in Cases : RunAnalysis(c)
              \/ \E i \in 1 .. Len(analyses) : ApproveMotion(i)
    BY <1>0, <1>13, UserRunsRecords
  <1>14. CASE \/ SignIn \/ ChangePassword \/ Deactivate
              \/ \E c \in Cases : EditCase(c)
              \/ UNCHANGED vars
    BY <1>0, <1>14, UsersRecords
  <1> QED
    BY <1>1, <1>2, <1>3, <1>4, <1>5, <1>6, <1>7, <1>8, <1>9, <1>10, <1>11,
       <1>12, <1>13, <1>14 DEF Next

\* The invariant of rows and runs holds in every reachable state: what a
\* program has behind it is settled, and what it has before it is known.
THEOREM RecordsInvariance == Spec => []RecordsInv
  BY InitRecords, NextRecords, Invariance, PTL DEF Spec

\* Every variable keeps its type, for any programs, cases and files.
THEOREM TypeCorrect == Spec => []TypeOK
  <1>1. RecordsInv => TypeOK
    BY DEF RecordsInv
  <1> QED
    BY RecordsInvariance, <1>1, PTL

\* However often the programs of an organisation are interrupted and started
\* again beside its users, no file is stored twice and no case has two
\* seeded runs of the kind the programs ask for (_ingest_source,
\* _provision_pending_analysis, bootstrap_casework_workspace).
THEOREM ProvisionedOnce == Spec => []SeededOnce
  <1>1. RecordsInv => SeededOnce
    BY AtMostOneFact DEF RecordsInv, RowsFit, RunsOnce, SeededOnce, Casework
  <1> QED
    BY RecordsInvariance, <1>1, PTL

\* A seeded run has all the sources of its case but those whose extraction
\* failed or that an interruption or a user has come upon
\* (_provision_documents before _provision_analysis).
THEOREM SourcesComplete == Spec => []AnalysedWhole
  <1>1. RecordsInv => AnalysedWhole
    BY DEF RecordsInv
  <1> QED
    BY RecordsInvariance, <1>1, PTL
=============================================================================
