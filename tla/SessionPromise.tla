--------------------------- MODULE SessionPromise ---------------------------
(***************************************************************************)
(* What signing in promises to the holder of an account: a sign-in begins  *)
(* a chain of sessions, each exchanged for the next one; an exchange does  *)
(* not outlive a change of the password; and a password is changed, or an  *)
(* account closed, only from a session that is still open.                 *)
(*                                                                         *)
(* There are no requests here: every operation is one step.  "raced" says  *)
(* that the promise is off, for good; "lost", that even what a revocation  *)
(* has ended may come back.                                                *)
(***************************************************************************)
EXTENDS Naturals, Sequences

CONSTANTS Users, Admins

VARIABLES
    active,  \* the users who can sign in
    issued,  \* the sessions: whose each is, and the one of its sign-in
    ended,   \* those a revocation of their user has ended
    spent,   \* those whose refresh token has been exchanged or withdrawn
    raced,
    lost

vars == <<active, issued, ended, spent, raced, lost>>

Init ==
    /\ active = Users
    /\ issued = << >>
    /\ ended = {} /\ spent = {}
    /\ raced = FALSE /\ lost = FALSE

Of(u)   == {i \in DOMAIN issued : issued[i].user = u}
Open(i) == i \notin ended /\ issued[i].user \in active

\* A session that was issued while a revocation was under way may have ended
\* before it begins.
SignIn(u) ==
    LET n == Len(issued) + 1 IN
    /\ issued' = Append(issued, [user |-> u, root |-> n])
    /\ ended' \in {ended, ended \cup {n}}
    /\ ~raced' => u \in active /\ n \notin ended'
    /\ UNCHANGED <<active, spent, lost>>

\* The new session is as good as the old one.
Exchange(i) ==
    LET n == Len(issued) + 1 IN
    /\ ~raced' => Open(i) /\ i \notin spent
    /\ issued' = Append(issued, issued[i])
    /\ ended' = IF i \in ended THEN ended \cup {n} ELSE ended
    /\ spent' = spent \cup {i}
    /\ UNCHANGED <<active, lost>>

SignOut(i) ==
    /\ ~raced' => i \notin spent
    /\ spent' = spent \cup {i}
    /\ UNCHANGED <<active, issued, ended, lost>>

Revoke(u) ==
    /\ ended' \ Of(u) = ended \ Of(u)
    /\ ~lost' => ended' = ended \cup Of(u)
    /\ spent \subseteq spent' /\ spent' \subseteq spent \cup Of(u)
    /\ lost => lost'
    /\ lost' => raced'
    /\ UNCHANGED issued

\* From an open session of one's own, or of an administrator.
ChangePassword(u) ==
    /\ ~raced' => \E i \in Of(u) : Open(i)
    /\ Revoke(u)
    /\ UNCHANGED active

ByAnother(u) == \E a \in Admins \ {u} : \E i \in Of(a) : Open(i)

Deactivate(u) ==
    /\ ~raced' => ByAnother(u)
    /\ Revoke(u)
    /\ active' = active \ {u}

Reactivate(u) ==
    /\ ~raced' => ByAnother(u)
    /\ active' = active \cup {u}
    /\ UNCHANGED <<issued, ended, spent, lost>>

Next ==
    /\ raced => raced'
    /\ \/ \E u \in Users : \/ SignIn(u) \/ ChangePassword(u)
                           \/ Deactivate(u) \/ Reactivate(u)
       \/ \E i \in DOMAIN issued : Exchange(i) \/ SignOut(i)

Spec == Init /\ [][Next]_vars

-----------------------------------------------------------------------------
(* What follows from the promise.                                          *)

\* A sign-in is worth one refresh token at a time.
OneTokenPerSignIn ==
    ~raced => \A i, j \in DOMAIN issued \ spent :
                 issued[i].root = issued[j].root => i = j

\* A sign-in whose last token is spent is over: nothing refreshes it again.
Over(root) == \A i \in DOMAIN issued : issued[i].root = root => i \in spent
StaysOver ==
    ~raced' => \A i \in DOMAIN issued :
                  Over(issued[i].root) => Over(issued[i].root)'
SignInsEnd == [][StaysOver]_vars
=============================================================================
