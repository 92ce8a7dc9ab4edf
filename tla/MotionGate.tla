----------------------------- MODULE MotionGate -----------------------------
(***************************************************************************)
(* A case record of the browser's store and the gate before its motion     *)
(* (client/src/lib/motion-gate.ts), with what the operations of the store  *)
(* make of one record (client/src/stores/app-store.ts).                    *)
(***************************************************************************)
EXTENDS Naturals

CONSTANTS
    Arguments,         \* ethics arguments
    RequiredArgument,  \* the one that must be rejected
    Strategies,        \* strategies
    StrategyOf,        \* strategyIdByEthicsArgument
    Verified,          \* the strategies with verified citations
    Bodies,            \* motion texts
    Substantive,       \* the texts of at least 80 characters
    Mentions,          \* the arguments whose phrases a text contains
    NoText,            \* the empty text
    Agents,            \* number of the workflow's agents
    Documents,         \* documents
    MaxVersions        \* bound: motion versions

ASSUME GateAssumption ==
    /\ RequiredArgument \in Arguments
    /\ StrategyOf \in [Arguments -> Strategies] /\ Verified \subseteq Strategies
    /\ Substantive \subseteq Bodies \ {NoText} /\ NoText \in Bodies
    /\ Mentions \in [Bodies -> SUBSET Arguments]
    /\ Agents \in Nat \ {0} /\ MaxVersions \in Nat \ {0}

Statuses == {"none", "pending", "approved", "rejected", "revision"}

\* version is the number of the last saved version and saved its text;
\* approval is the approved version, 0 without an approval.  fixture is FALSE
\* for a record mapped from the server, whose hashes are identifiers.
Record ==
    [documents: [Documents -> Nat], processed: SUBSET Documents,
     workflow: [status: {"idle", "running", "paused", "completed"},
                index: 0 .. Agents - 1],
     ethics: [Arguments -> Statuses], stance: [Strategies -> Statuses],
     included: SUBSET Strategies, cited: BOOLEAN,
     motion: Bodies, saved: Bodies, version: 0 .. MaxVersions,
     approval: 0 .. MaxVersions, review: Statuses, fixture: BOOLEAN]

\* emptyAnalysisCase, and the record of createCase.
EmptyRecord ==
    [documents |-> [d \in Documents |-> 0], processed |-> {},
     workflow  |-> [status |-> "idle", index |-> 0],
     ethics    |-> [a \in Arguments |-> "none"],
     stance    |-> [s \in Strategies |-> "none"],
     included  |-> {}, cited |-> FALSE,
     motion    |-> NoText, saved |-> NoText, version |-> 0,
     approval  |-> 0, review |-> "pending", fixture |-> TRUE]

\* seedCase: one strategy is blocked, one argument must still be rejected.
SeedRecord(text) ==
    [EmptyRecord EXCEPT
       !.ethics   = [a \in Arguments |->
                       IF a = RequiredArgument THEN "pending" ELSE "approved"],
       !.stance   = [s \in Strategies |->
                       IF s = StrategyOf[RequiredArgument] THEN "pending"
                       ELSE "approved"],
       !.included = Verified, !.cited = TRUE,
       !.motion = text, !.saved = text, !.version = 1]

-----------------------------------------------------------------------------
(* getMotionGateStatus.                                                    *)

Argued(r)       == {a \in Arguments : r.ethics[a] # "none"}
RejectedOnes(r) == {a \in Arguments : r.ethics[a] = "rejected"}

MotionExists(r)           == r.motion \in Substantive
SavedMotionMatches(r)     == r.version > 0 /\ r.saved = r.motion /\ r.fixture
AllCitationChecksPass(r)  == r.cited
EthicsRejectionApplied(r) == r.ethics[RequiredArgument] = "rejected"
EthicsReviewResolved(r)   ==
    /\ Argued(r) # {}
    /\ \A a \in Argued(r) : r.ethics[a] \in {"approved", "rejected"}
UnsafeStrategyExcluded(r) ==
    \A s \in r.included : s \in Verified /\ r.stance[s] = "approved"
RejectedArgumentAbsent(r) == Mentions[r.motion] \cap RejectedOnes(r) = {}

\* approvalBlockers is empty.
Approvable(r) ==
    /\ MotionExists(r) /\ SavedMotionMatches(r) /\ AllCitationChecksPass(r)
    /\ EthicsRejectionApplied(r) /\ EthicsReviewResolved(r)
    /\ UnsafeStrategyExcluded(r) /\ RejectedArgumentAbsent(r)

ApprovalMatchesCurrent(r) == r.approval # 0 /\ r.approval = r.version

ExportUnlocked(r) == Approvable(r) /\ ApprovalMatchesCurrent(r)

-----------------------------------------------------------------------------
(* The operations on one record.                                           *)

\* setStrategyIncluded
WithStrategy(r, s, include) ==
    IF s \in Verified /\ r.stance[s] = "approved"
    THEN [r EXCEPT !.included = IF include THEN @ \cup {s} ELSE @ \ {s}]
    ELSE r

\* An approval is withdrawn, and its review to be done again.
StillApproved(r) == r
Withdrawn(r) == IF r.approval = 0 THEN r
                ELSE [r EXCEPT !.approval = 0, !.review = "revision"]

\* reviewEthicsArgument: the strategy of the argument follows.  Arguments
\* from the server have no strategy.
Followed(r, a, status) ==
    LET s == StrategyOf[a] IN
    [r EXCEPT !.stance[s] = status,
              !.included  = IF status = "approved" THEN @ ELSE @ \ {s}]

Reviewed(r, a, status) ==
    LET judged == [Withdrawn(r) EXCEPT !.ethics[a] = status] IN
    IF r.fixture THEN Followed(judged, a, status) ELSE judged

\* saveMotion
Saved(r, text) ==
    [Withdrawn(r) EXCEPT !.motion = text, !.saved = text, !.version = @ + 1]

\* approveMotion, once the name, the PIN and the confirmation are given.
Approved(r) == [r EXCEPT !.approval = r.version, !.review = "approved"]
=============================================================================
