--------------------------- MODULE ApprovalPromise ---------------------------
(***************************************************************************)
(* What the approval gate of a motion promises to those who read what it   *)
(* exports: an approval is of the newest version and of no other, a new    *)
(* version or a decision against it takes it away, and only a version that *)
(* has it is released.                                                     *)
(*                                                                         *)
(* There are no requests here.  "raced" says that the promise is off, for  *)
(* good; what then remains is that nothing recorded is lost and that a     *)
(* motion is not unlocked before an approval of it is recorded.            *)
(***************************************************************************)
EXTENDS Naturals

VARIABLES
    newest,    \* the number of the newest version; 0, there is no motion
    unlocked,  \* the newest version may be released
    approved,  \* the versions that have been approved
    released,  \* the versions that have been released
    raced

vars == <<newest, unlocked, approved, released, raced>>

Init ==
    /\ newest = 0
    /\ unlocked = FALSE
    /\ approved = {}
    /\ released = {}
    /\ raced = FALSE

\* A motion begins as a draft nobody has approved, or, from the analysis of
\* a case, with a second version that is approved.
Begin ==
    /\ newest = 0
    /\ \/ newest' = 1 /\ unlocked' = FALSE /\ approved' = approved
       \/ newest' = 2 /\ unlocked' = TRUE /\ approved' = {2}
    /\ UNCHANGED <<released, raced>>

Revise ==
    /\ newest > 0
    /\ newest' = newest + 1
    /\ unlocked' = FALSE
    /\ UNCHANGED <<approved, released, raced>>

Approve ==
    /\ newest > 0
    /\ unlocked' = TRUE
    /\ approved' = approved \cup {newest}
    /\ UNCHANGED <<newest, released, raced>>

Withdraw ==
    /\ unlocked' = FALSE
    /\ UNCHANGED <<newest, approved, released, raced>>

Release ==
    /\ unlocked
    /\ released' = released \cup {newest}
    /\ UNCHANGED <<newest, unlocked, approved, raced>>

Overtaken ==
    /\ raced'
    /\ newest' \in {newest, newest + 1}
    /\ approved \subseteq approved'
    /\ released \subseteq released'
    /\ unlocked' => approved' # {}

Next == Begin \/ Revise \/ Approve \/ Withdraw \/ Release \/ Overtaken

Spec == Init /\ [][Next]_vars

\* What follows from the promise: what may be released is approved, and so
\* is all that has been.
ReleasedAreApproved ==
    ~raced => /\ unlocked => newest \in approved
              /\ released \subseteq approved
=============================================================================
