---------------------------- MODULE AuthSessions ----------------------------
(***************************************************************************)
(* Signing in, refresh-token rotation, logout, password change and the     *)
(* activation of users: the handlers of server/app/api/routes/auth.py and  *)
(* users.py with the admission of api/dependencies.py.                     *)
(*                                                                         *)
(* A request is a process with an SQLAlchemy session of its own, under     *)
(* READ COMMITTED.  Nothing it reads is locked; what it flushes is locked  *)
(* until it commits.  token_version is incremented in Python, so the       *)
(* UPDATE stores the value that was LOADED plus one.                       *)
(*                                                                         *)
(* A session row stands for the two tokens issued with it as well: the     *)
(* refresh token names the row, the access token carries the same user and *)
(* token version.  No handler changes an organisation or a role, so the    *)
(* tests of both are constant.  Requests that are refused change nothing   *)
(* and have no action.                                                     *)
(***************************************************************************)
EXTENDS Naturals, Sequences

CONSTANTS
    Requests,     \* the requests in flight at one time
    Users,        \* the users of the organisation
    Admins,       \* those whose role is admin
    Calls,        \* the handlers the requests call
    MaxSessions,  \* bound: rows of auth_sessions
    MaxEpoch      \* bound: 1 + password changes and deactivations of a user

AllCalls == {"login", "refresh", "logout", "change_password",
             "update_user_status"}

ASSUME UsersAssumption == Users # {} /\ Admins \subseteq Users
ASSUME CallsAssumption == Calls \subseteq AllCalls
ASSUME LimitsAssumption == MaxSessions \in Nat /\ MaxEpoch \in Nat \ {0}

VARIABLES
    user,      \* the users rows
    epoch,     \* history: 1 + committed password changes and deactivations
    sessions,  \* the auth_sessions rows, in the order of their commits
    req,       \* what each request has read so far
    lost,      \* history: an increment of token_version has been lost
    raced      \* history: a request committed although a row it had read
               \* had changed since

vars == <<user, epoch, sessions, req, lost, raced>>

-----------------------------------------------------------------------------
(* Rows and snapshots.                                                     *)

UserRow == [active: BOOLEAN, token_version: 1 .. MaxEpoch]

\* tokens: 2, both are valid; 1, the access token has expired; 0, both have.
\* History: the epoch of the user when the handler loaded it; parent, the
\* row whose refresh token was exchanged for this one (0 after a login);
\* root, the row of the login it goes back to; logged_out, a logout revoked
\* it; late, a revocation of the user had begun or ended when the row was
\* committed.
SessionRow == [user: Users, token_version: 1 .. MaxEpoch, revoked: BOOLEAN,
               tokens: 0 .. 2, replaced_by: 0 .. MaxSessions,
               epoch: 1 .. MaxEpoch, parent: 0 .. MaxSessions,
               root: 1 .. MaxSessions,
               logged_out: BOOLEAN, late: BOOLEAN]

\* at: "principal", the caller is authenticated; "read", everything is read;
\* "flushed", the row of the target is written and locked.
Steps == {"idle", "principal", "read", "flushed"}
Works == {"login", "refresh", "logout", "change_password",
          "update_user_status", "activation", "deactivation"}

Snapshot == [at: Steps, work: Works, actor: Users, target: Users,
             token_version: 1 .. MaxEpoch, session: 0 .. MaxSessions,
             epoch: 1 .. MaxEpoch, revoking: SUBSET (1 .. MaxSessions),
             stale: BOOLEAN]

Idle == [at |-> "idle", work |-> "login",
         actor |-> CHOOSE u \in Users : TRUE,
         target |-> CHOOSE u \in Users : TRUE, token_version |-> 1,
         session |-> 0, epoch |-> 1, revoking |-> {}, stale |-> FALSE]

\* Every row and every snapshot has its type.
TypeOK ==
    /\ user \in [Users -> UserRow]
    /\ epoch \in [Users -> 1 .. MaxEpoch]
    /\ sessions \in Seq(SessionRow)
    /\ Len(sessions) <= MaxSessions
    /\ req \in [Requests -> Snapshot]
    /\ lost \in BOOLEAN
    /\ raced \in BOOLEAN

Init ==
    /\ user = [u \in Users |-> [active |-> TRUE, token_version |-> 1]]
    /\ epoch = [u \in Users |-> 1]
    /\ sessions = << >>
    /\ req = [r \in Requests |-> Idle]
    /\ lost = FALSE
    /\ raced = FALSE

-----------------------------------------------------------------------------
(* Admission.                                                              *)

\* What both kinds of token are tested for: an active user, and its current
\* token version.
ActiveUser(i)   == user[sessions[i].user].active
VersionHolds(i) == /\ user[sessions[i].user].active
                   /\ sessions[i].token_version
                         = user[sessions[i].user].token_version

\* What get_current_principal accepts: the access token issued with row i.
Accepted(i) == sessions[i].tokens = 2 /\ VersionHolds(i)

\* What refresh accepts: the refresh token that names row i.
RevokedToo(i) == sessions[i].tokens > 0 /\ VersionHolds(i)
Refreshable(i) == /\ ~sessions[i].revoked
                  /\ sessions[i].tokens > 0
                  /\ VersionHolds(i)

\* The access token outlives its minutes, the refresh token its days.
Expire(i) ==
    /\ sessions[i].tokens > 0
    /\ sessions' = [sessions EXCEPT ![i].tokens = @ - 1]
    /\ UNCHANGED <<user, epoch, req, lost, raced>>

-----------------------------------------------------------------------------
(* The reading steps.                                                      *)

\* A request has read the row of u, and the session row i (0: none).
Read(r, step, work, actor, u, i) ==
    /\ req' = [req EXCEPT ![r] =
                  [Idle EXCEPT !.at = step, !.work = work, !.actor = actor,
                               !.target = u, !.session = i,
                               !.token_version = user[u].token_version,
                               !.epoch = epoch[u], !.stale = @ \/ req[r].stale]]
    /\ UNCHANGED <<user, epoch, sessions, lost, raced>>

\* The credentials are those of u when its row is loaded.
Login(r, u) ==
    /\ req[r].at = "idle" /\ "login" \in Calls
    /\ user[u].active
    /\ Read(r, "read", "login", u, u, 0)

Refresh(r, i) ==
    /\ req[r].at = "idle" /\ "refresh" \in Calls
    /\ Refreshable(i)
    /\ Read(r, "read", "refresh", sessions[i].user, sessions[i].user, i)

Logout(r, i) ==
    /\ req[r].at = "idle" /\ "logout" \in Calls
    /\ sessions[i].tokens > 0    \* else the token is not decoded
    /\ ~sessions[i].revoked
    /\ Read(r, "read", "logout", sessions[i].user, sessions[i].user, i)

\* The principal is the user whose password is changed.
ChangePassword(r, i) ==
    /\ req[r].at = "idle" /\ "change_password" \in Calls
    /\ Accepted(i)
    /\ Read(r, "read", "change_password",
            sessions[i].user, sessions[i].user, 0)

\* admin_only, the dependency of update_user_status.
AdminOnly(r, i) ==
    /\ req[r].at = "idle" /\ "update_user_status" \in Calls
    /\ Accepted(i)
    /\ sessions[i].user \in Admins
    /\ Read(r, "principal", "update_user_status",
            sessions[i].user, sessions[i].user, 0)

\* The second SELECT: an account that is not the caller's own, whose status
\* differs from the one asked for.
AnyAccount(r, u) == TRUE
NotOneself(r, u) == u # req[r].actor

UpdateUserStatus(r, u) ==
    /\ req[r].at = "principal"
    /\ NotOneself(r, u)
    /\ Read(r, "read", IF user[u].active THEN "deactivation" ELSE "activation",
            req[r].actor, u, 0)

\* A request ends without a commit: self-deactivation, a status the account
\* has already, a wrong password, or a statement that failed.
RollBack(r) ==
    /\ req[r].at # "idle"
    /\ req' = [req EXCEPT ![r] = Idle]
    /\ UNCHANGED <<user, epoch, sessions, lost, raced>>

-----------------------------------------------------------------------------
(* Locks, and what a commit does to the other requests.                    *)

UserLocked(u)    == \E q \in Requests : req[q].at = "flushed"
                                        /\ req[q].target = u
SessionLocked(i) == \E q \in Requests : req[q].at = "flushed"
                                        /\ i \in req[q].revoking

\* r commits changes to the rows of the users "us" and of the sessions "ss".
Commit(r, us, ss) ==
    /\ req' = [q \in Requests |->
                  IF q = r THEN Idle
                  ELSE IF req[q].at # "idle" /\ (\/ req[q].actor \in us
                                                 \/ req[q].target \in us
                                                 \/ req[q].session \in ss)
                       THEN [req[q] EXCEPT !.stale = TRUE]
                       ELSE req[q]]
    /\ raced' = (raced \/ req[r].stale)

\* History: a login is its own root, a refresh keeps the one it had.
Root(parent) == IF parent = 0 THEN Len(sessions) + 1
                ELSE sessions[parent].root

\* The row that _issue_token_response builds from the user it was given.
IssuedReloaded(r, parent) ==
    LET u == req[r].target IN
    [user |-> u, token_version |-> user[u].token_version, revoked |-> FALSE,
     tokens |-> 2, replaced_by |-> 0, epoch |-> req[r].epoch,
     parent |-> parent, root |-> Root(parent), logged_out |-> FALSE,
     late |-> FALSE]
Issued(r, parent) ==
    LET u == req[r].target IN
    [user |-> u, token_version |-> req[r].token_version, revoked |-> FALSE,
     tokens |-> 2, replaced_by |-> 0, epoch |-> req[r].epoch,
     parent |-> parent, root |-> Root(parent), logged_out |-> FALSE,
     late |-> UserLocked(u) \/ req[r].epoch # epoch[u]]

-----------------------------------------------------------------------------
(* The writing steps.                                                      *)

CommitLogin(r) ==
    /\ req[r].at = "read" /\ req[r].work = "login"
    /\ Len(sessions) < MaxSessions
    /\ sessions' = Append(sessions, Issued(r, 0))
    /\ Commit(r, {}, {})
    /\ UNCHANGED <<user, epoch, lost>>

\* The old row as refresh leaves it.
KeepAlive(row, n) == [row EXCEPT !.replaced_by = n]
Replaced(row, n)  == [row EXCEPT !.revoked = TRUE, !.replaced_by = n]

CommitRefresh(r) ==
    LET i == req[r].session
        n == Len(sessions) + 1
    IN
    /\ req[r].at = "read" /\ req[r].work = "refresh"
    /\ Len(sessions) < MaxSessions
    /\ ~SessionLocked(i)
    /\ sessions' = Append([sessions EXCEPT ![i] = Replaced(@, n)],
                          Issued(r, i))
    /\ Commit(r, {}, {i})
    /\ UNCHANGED <<user, epoch, lost>>

CommitLogout(r) ==
    LET i == req[r].session IN
    /\ req[r].at = "read" /\ req[r].work = "logout"
    /\ ~SessionLocked(i)
    /\ sessions' = [sessions EXCEPT ![i] = [@ EXCEPT !.revoked = TRUE,
                                                     !.logged_out = TRUE]]
    /\ Commit(r, {}, {i})
    /\ UNCHANGED <<user, epoch, lost>>

\* session.execute(update(AuthSession)...): the autoflush writes the row of
\* the target, whose lock is held from here on; the statement then finds the
\* unrevoked sessions that are committed.
RevokesNone(u) == {}
UnrevokedOf(u) == {i \in 1 .. Len(sessions) :
                      sessions[i].user = u /\ ~sessions[i].revoked}

RevokeSessions(r) ==
    LET u == req[r].target IN
    /\ req[r].at = "read"
    /\ req[r].work \in {"change_password", "deactivation"}
    /\ epoch[u] < MaxEpoch
    /\ ~UserLocked(u)
    /\ req' = [req EXCEPT ![r] = [@ EXCEPT !.at = "flushed",
                                           !.revoking = UnrevokedOf(u)]]
    /\ UNCHANGED <<user, epoch, sessions, lost, raced>>

\* user.token_version += 1, on the loaded value.
NoIncrement(r) == req[r].token_version
Incremented(r) == req[r].token_version + 1

CommitRevocation(r) ==
    LET u == req[r].target IN
    /\ req[r].at = "flushed"
    /\ user' = [user EXCEPT ![u] =
                   [active |-> @.active /\ req[r].work # "deactivation",
                    token_version |-> Incremented(r)]]
    /\ epoch' = [epoch EXCEPT ![u] = @ + 1]
    /\ sessions' = [i \in 1 .. Len(sessions) |->
                       IF i \in req[r].revoking
                       THEN [sessions[i] EXCEPT !.revoked = TRUE]
                       ELSE sessions[i]]
    /\ lost' = (lost \/ req[r].token_version # user[u].token_version)
    /\ Commit(r, {u}, req[r].revoking)

CommitActivation(r) ==
    LET u == req[r].target IN
    /\ req[r].at = "read" /\ req[r].work = "activation"
    /\ ~UserLocked(u)
    /\ user' = [user EXCEPT ![u] = [@ EXCEPT !.active = TRUE]]
    /\ Commit(r, {u}, {})
    /\ UNCHANGED <<epoch, sessions, lost>>

Next ==
    \/ \E i \in 1 .. Len(sessions) : Expire(i)
    \/ \E r \in Requests :
          \/ \E u \in Users : Login(r, u)
          \/ \E i \in 1 .. Len(sessions) :
                \/ Refresh(r, i)
                \/ Logout(r, i)
                \/ ChangePassword(r, i)
                \/ AdminOnly(r, i)
          \/ \E u \in Users : UpdateUserStatus(r, u)
          \/ RollBack(r)
          \/ CommitLogin(r)
          \/ CommitRefresh(r)
          \/ CommitLogout(r)
          \/ RevokeSessions(r)
          \/ CommitRevocation(r)
          \/ CommitActivation(r)

Spec == Init /\ [][Next]_vars

-----------------------------------------------------------------------------
(* Properties of every interleaving.                                       *)

\* A password change or a deactivation ends every token issued before it,
\* also those of a login or a refresh that was under way, and a later
\* reactivation brings none of them back - as long as no increment of the
\* token version has been lost (change_password, update_user_status against
\* login and refresh).
TokensEndWithRevocation ==
    ~lost => \A i \in 1 .. Len(sessions) :
                VersionHolds(i) => sessions[i].epoch = epoch[sessions[i].user]

\* Whatever happens to the token version, the refresh tokens that were
\* stored when a revocation began are revoked with it: only those of a
\* request that overlapped it are left (the bulk UPDATE of both handlers).
OnlyLateSessionsSurvive ==
    \A i \in 1 .. Len(sessions) :
        sessions[i].epoch # epoch[sessions[i].user]
            => sessions[i].revoked \/ sessions[i].late

-----------------------------------------------------------------------------
(* Properties of the executions in which every row a request had read was  *)
(* still the same when it committed: what the handlers guarantee without a *)
(* lock.                                                                   *)

\* A refresh token is exchanged once: no two rows replace the same one
\* (refresh).
Exchanged(j, k) == sessions[j].parent = sessions[k].parent
                   /\ sessions[j].parent # 0
RefreshTokenUsedOnce ==
    ~raced => \A j, k \in 1 .. Len(sessions) : Exchanged(j, k) => j = k

\* Nothing follows a logout: the row it revoked has not been exchanged, and
\* is not later (logout, refresh).
LogoutEndsTheChain ==
    ~raced => \A i, j \in 1 .. Len(sessions) :
                 sessions[i].logged_out => sessions[j].parent # i

\* A logout is the end of its sign-in: no session that goes back to the same
\* login has a refresh token left (login, refresh, logout).
LogoutEndsTheSignIn ==
    ~raced => \A i, j \in 1 .. Len(sessions) :
                 sessions[i].logged_out /\ sessions[j].root = sessions[i].root
                    => sessions[j].revoked

\* The organisation keeps an administrator who can sign in
\* (update_user_status).
AnAdministratorRemains ==
    (~raced /\ Admins # {}) => \E a \in Admins : user[a].active

-----------------------------------------------------------------------------
(* What the handlers promise together, for those who hold a session.       *)

ActiveUsers == {u \in Users : user[u].active}
Chain == [i \in 1 .. Len(sessions) |->
             [user |-> sessions[i].user, root |-> sessions[i].root]]
Ended == {i \in 1 .. Len(sessions) :
             sessions[i].token_version
                # user[sessions[i].user].token_version}
Spent == {i \in 1 .. Len(sessions) : sessions[i].revoked}

Promise == INSTANCE SessionPromise WITH
    active <- ActiveUsers, issued <- Chain, ended <- Ended, spent <- Spent

\* The handlers of auth.py and users.py, which read, lock and commit in
\* steps of their own, implement SessionPromise, whose operations are single
\* steps: nothing that is exchanged while its user is revoked outlives the
\* revocation, and until a request commits over a row that has changed, each
\* commit is one that a session still open or unspent allows.
KeepsSessions == Promise!Spec

-----------------------------------------------------------------------------
(* Why they hold: the inductive invariant.                                 *)

AdminWorks == {"update_user_status", "activation", "deactivation"}

\* token_version never runs ahead of the revocations, in a row, a session
\* or a request, and counts them exactly until an increment is lost.
VersionsCount ==
    /\ \A u \in Users : user[u].token_version <= epoch[u]
    /\ \A r \in Requests : /\ req[r].token_version <= req[r].epoch
                           /\ req[r].epoch <= epoch[req[r].target]
    /\ ~lost => /\ \A u \in Users : user[u].token_version = epoch[u]
                /\ \A r \in Requests : req[r].token_version = req[r].epoch
                /\ \A i \in 1 .. Len(sessions) :
                      sessions[i].token_version = sessions[i].epoch

\* The holder of a user's lock is alone with it, and is about to revoke
\* every session that was stored in time.
LocksCover ==
    \A q \in Requests : req[q].at = "flushed" =>
        /\ epoch[req[q].target] < MaxEpoch
        /\ \A p \in Requests : req[p].at = "flushed"
                               /\ req[p].target = req[q].target => p = q
        /\ \A i \in 1 .. Len(sessions) :
              /\ sessions[i].user = req[q].target
              /\ ~sessions[i].revoked
              /\ ~sessions[i].late
              => i \in req[q].revoking

\* A session that was exchanged or logged out is revoked.
SessionsNamed ==
    \A i \in 1 .. Len(sessions) :
        LET p == sessions[i].parent IN
        /\ p # 0 => p \in 1 .. Len(sessions) /\ sessions[p].revoked
        /\ sessions[i].logged_out => sessions[i].revoked

\* A request names a row that exists and an actor who may do its work.
RequestsNamed ==
    \A r \in Requests :
        /\ req[r].at = "idle" => req[r].work = "login"
        /\ req[r].at = "principal" => req[r].work = "update_user_status"
        /\ req[r].work \in {"refresh", "logout"}
              => req[r].session \in 1 .. Len(sessions)
        /\ req[r].work \in AdminWorks => req[r].actor \in Admins
        /\ req[r].work \in AdminWorks \ {"update_user_status"}
              => req[r].actor # req[r].target

\* What a request was admitted by still holds unless it has become stale.
RequestsFresh ==
    \A r \in Requests : ~req[r].stale =>
        /\ req[r].work \in {"refresh", "logout"}
              => ~sessions[req[r].session].revoked
        /\ req[r].work \in AdminWorks => user[req[r].actor].active

IInv == /\ TypeOK
        /\ VersionsCount
        /\ LocksCover
        /\ SessionsNamed
        /\ RequestsNamed
        /\ RequestsFresh
        /\ OnlyLateSessionsSurvive
        /\ RefreshTokenUsedOnce
        /\ LogoutEndsTheChain
        /\ AnAdministratorRemains
=============================================================================
