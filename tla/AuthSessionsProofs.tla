------------------------- MODULE AuthSessionsProofs -------------------------
(***************************************************************************)
(* The safety of AuthSessions for any users, any set of requests, any      *)
(* choice of handlers and any bounds.                                      *)
(*                                                                         *)
(* Every step does one of four things: it reads (only req changes, and     *)
(* only for one request), it ages a token, or it commits, which may append *)
(* a session and may revoke some.  Lemmas state what each of them does to  *)
(* the parts of IInv; each action then has one lemma of its own.           *)
(***************************************************************************)
EXTENDS AuthSessions, SequenceTheorems, TLAPS

\* The record of a request that is not in flight is a snapshot.
LEMMA IdleTyped ==
    /\ Idle \in Snapshot
    /\ Idle.at = "idle" /\ Idle.work = "login" /\ ~Idle.stale
    /\ Idle.token_version = 1 /\ Idle.epoch = 1
  <1>1. (CHOOSE u \in Users : TRUE) \in Users
    BY UsersAssumption
  <1> QED
    BY <1>1, LimitsAssumption DEF Idle, Snapshot, Steps, Works

\* The first state has no session and no request.
LEMMA InitIInv == Init => IInv
  <1> SUFFICES ASSUME Init PROVE IInv
    OBVIOUS
  <1>1. TypeOK
    <2>1. user \in [Users -> UserRow] /\ epoch \in [Users -> 1 .. MaxEpoch]
      BY LimitsAssumption DEF Init, UserRow
    <2>2. sessions \in Seq(SessionRow) /\ Len(sessions) <= MaxSessions
      BY LimitsAssumption DEF Init
    <2>3. req \in [Requests -> Snapshot]
      BY IdleTyped DEF Init
    <2> QED
      BY <2>1, <2>2, <2>3 DEF Init, TypeOK
  <1>2. VersionsCount
    <2>1. \A r \in Requests : req[r].target \in Users
      BY IdleTyped DEF Init, Snapshot
    <2> QED
      BY <2>1, IdleTyped DEF Init, VersionsCount
  <1>3. LocksCover
    BY IdleTyped DEF Init, LocksCover
  <1>4. SessionsNamed /\ RequestsNamed /\ RequestsFresh
    BY IdleTyped DEF Init, SessionsNamed, RequestsNamed, RequestsFresh,
                      AdminWorks
  <1>5. /\ OnlyLateSessionsSurvive /\ RefreshTokenUsedOnce
        /\ LogoutEndsTheChain /\ AnAdministratorRemains
    BY UsersAssumption
    DEF Init, OnlyLateSessionsSurvive, RefreshTokenUsedOnce,
        LogoutEndsTheChain, AnAdministratorRemains
  <1> QED
    BY <1>1, <1>2, <1>3, <1>4, <1>5 DEF IInv

-----------------------------------------------------------------------------
(* Steps that touch no row.                                                *)

\* A request takes a snapshot that is typed, current and admitted: the rows
\* and the other requests stay as they are.
LEMMA SnapshotPreserves ==
    ASSUME IInv, NEW r \in Requests, NEW s \in Snapshot,
           req' = [req EXCEPT ![r] = s],
           UNCHANGED <<user, epoch, sessions, lost, raced>>,
           s.at # "flushed",
           s.token_version <= s.epoch, s.epoch <= epoch[s.target],
           ~lost => s.token_version = s.epoch,
           s.work \in {"refresh", "logout"}
              => /\ s.session \in 1 .. Len(sessions)
                 /\ ~s.stale => ~sessions[s.session].revoked,
           s.work \in AdminWorks
              => /\ s.actor \in Admins
                 /\ ~s.stale => user[s.actor].active,
           s.work \in AdminWorks \ {"update_user_status"}
              => s.actor # s.target,
           s.at = "principal" => s.work = "update_user_status",
           s.at = "idle" => s.work = "login"
    PROVE  IInv'
  <1>0. /\ req'[r] = s
        /\ \A q \in Requests : q # r => req'[q] = req[q]
        /\ req' \in [Requests -> Snapshot]
    BY DEF IInv, TypeOK
  <1>1. TypeOK'
    BY <1>0 DEF IInv, TypeOK
  <1>2. VersionsCount'
    BY <1>0 DEF IInv, VersionsCount
  <1>3. LocksCover'
    BY <1>0 DEF IInv, LocksCover
  <1>4. SessionsNamed' /\ RequestsNamed'
    BY <1>0 DEF IInv, SessionsNamed, RequestsNamed
  <1>5. RequestsFresh'
    BY <1>0 DEF IInv, RequestsFresh
  <1>6. /\ OnlyLateSessionsSurvive' /\ RefreshTokenUsedOnce'
        /\ LogoutEndsTheChain' /\ AnAdministratorRemains'
    BY DEF IInv, OnlyLateSessionsSurvive, RefreshTokenUsedOnce, Exchanged,
           LogoutEndsTheChain, AnAdministratorRemains
  <1> QED
    BY <1>1, <1>2, <1>3, <1>4, <1>5, <1>6 DEF IInv

\* What Read stores is such a snapshot, if the session it names is fit for
\* the work and the actor is admitted to it.
LEMMA ReadPreserves ==
    ASSUME IInv, NEW r \in Requests, NEW step \in Steps \ {"flushed"},
           NEW work \in Works, NEW actor \in Users, NEW u \in Users,
           NEW i \in 0 .. Len(sessions),
           Read(r, step, work, actor, u, i),
           work \in {"refresh", "logout"} => i # 0 /\ ~sessions[i].revoked,
           work \in AdminWorks
              => /\ actor \in Admins
                 /\ ~req[r].stale => user[actor].active,
           work \in AdminWorks \ {"update_user_status"} => actor # u,
           step = "principal" => work = "update_user_status",
           step # "idle"
    PROVE  IInv'
  <1> DEFINE s == [Idle EXCEPT !.at = step, !.work = work, !.actor = actor,
                               !.target = u, !.session = i,
                               !.token_version = user[u].token_version,
                               !.epoch = epoch[u], !.stale = @ \/ req[r].stale]
  <1>1. /\ user[u] \in UserRow /\ epoch[u] \in 1 .. MaxEpoch
        /\ Len(sessions) \in Nat /\ Len(sessions) <= MaxSessions
        /\ req[r].stale \in BOOLEAN
    BY DEF IInv, TypeOK, Snapshot
  <1>2. s \in Snapshot
    <2>1. i \in 0 .. MaxSessions
      BY <1>1, LimitsAssumption
    <2>2. user[u].token_version \in 1 .. MaxEpoch
      BY <1>1 DEF UserRow
    <2>3. (Idle.stale \/ req[r].stale) \in BOOLEAN
      OBVIOUS
    <2> QED
      BY <1>1, <2>1, <2>2, <2>3, IdleTyped DEF Snapshot
  <1>3. /\ s.at = step /\ s.work = work /\ s.actor = actor /\ s.target = u
        /\ s.session = i /\ s.token_version = user[u].token_version
        /\ s.epoch = epoch[u] /\ (~s.stale => ~req[r].stale)
    BY IdleTyped DEF Snapshot
  <1>4. /\ user[u].token_version <= epoch[u]
        /\ ~lost => user[u].token_version = epoch[u]
    BY DEF IInv, VersionsCount
  <1>5. /\ req' = [req EXCEPT ![r] = s]
        /\ UNCHANGED <<user, epoch, sessions, lost, raced>>
    BY DEF Read
  <1> HIDE DEF s
  <1>6. s.epoch <= epoch[s.target]
    BY <1>1, <1>3
  <1>7. s.token_version <= s.epoch /\ (~lost => s.token_version = s.epoch)
    BY <1>3, <1>4
  <1>8. s.at # "flushed"
    BY <1>3
  <1>9. s.work \in {"refresh", "logout"}
          => /\ s.session \in 1 .. Len(sessions)
             /\ ~s.stale => ~sessions[s.session].revoked
    BY <1>1, <1>3
  <1>10. s.work \in AdminWorks
          => /\ s.actor \in Admins
             /\ ~s.stale => user[s.actor].active
    BY <1>3
  <1>11. s.work \in AdminWorks \ {"update_user_status"}
              => s.actor # s.target
    BY <1>3
  <1>12. s.at = "principal" => s.work = "update_user_status"
    BY <1>3
  <1>13. s.at # "idle"
    BY <1>3
  <1> QED
    BY <1>2, <1>5, <1>6, <1>7, <1>8, <1>9, <1>10, <1>11, <1>12,
       <1>13, SnapshotPreserves

\* The handlers' reading steps.
LEMMA ReadingPreserves ==
    ASSUME IInv, NEW r \in Requests,
           \/ \E u \in Users : Login(r, u)
           \/ \E i \in 1 .. Len(sessions) :
                 \/ Refresh(r, i) \/ Logout(r, i)
                 \/ ChangePassword(r, i) \/ AdminOnly(r, i)
           \/ \E u \in Users : UpdateUserStatus(r, u)
    PROVE  IInv'
  <1>0. /\ \A i \in 1 .. Len(sessions) : sessions[i] \in SessionRow
        /\ req[r] \in Snapshot
        /\ Len(sessions) \in Nat
    BY ElementOfSeq DEF IInv, TypeOK
  <1>1. ASSUME NEW u \in Users, Login(r, u) PROVE IInv'
    BY <1>0, <1>1, ReadPreserves DEF Login, Steps, Works, AdminWorks
  <1>2. ASSUME NEW i \in 1 .. Len(sessions), Refresh(r, i) PROVE IInv'
    BY <1>0, <1>2, ReadPreserves
    DEF Refresh, Refreshable, SessionRow, Steps, Works, AdminWorks
  <1>3. ASSUME NEW i \in 1 .. Len(sessions), Logout(r, i) PROVE IInv'
    BY <1>0, <1>3, ReadPreserves
    DEF Logout, SessionRow, Steps, Works, AdminWorks
  <1>4. ASSUME NEW i \in 1 .. Len(sessions), ChangePassword(r, i) PROVE IInv'
    BY <1>0, <1>4, ReadPreserves
    DEF ChangePassword, SessionRow, Steps, Works, AdminWorks
  <1>5. ASSUME NEW i \in 1 .. Len(sessions), AdminOnly(r, i) PROVE IInv'
    BY <1>0, <1>5, ReadPreserves
    DEF AdminOnly, Accepted, VersionHolds, SessionRow, Steps, Works,
        AdminWorks
  <1>6. ASSUME NEW u \in Users, UpdateUserStatus(r, u) PROVE IInv'
    <2>1. req[r].actor \in Users /\ req[r].actor # u
      BY <1>0, <1>6 DEF UpdateUserStatus, NotOneself, Snapshot
    <2>2. /\ req[r].actor \in Admins
          /\ ~req[r].stale => user[req[r].actor].active
      BY <1>6 DEF IInv, RequestsNamed, RequestsFresh, UpdateUserStatus,
                    AdminWorks
    <2>3. Len(sessions) >= 0 /\ 0 \in 0 .. Len(sessions)
      BY <1>0
    <2> QED
      BY <1>6, <2>1, <2>2, <2>3, ReadPreserves
      DEF UpdateUserStatus, Steps, Works, AdminWorks
  <1> QED
    BY <1>1, <1>2, <1>3, <1>4, <1>5, <1>6

\* A request that ends without a commit forgets what it read.
LEMMA RollBackPreserves ==
    ASSUME IInv, NEW r \in Requests, RollBack(r)
    PROVE  IInv'
  <1>1. Idle.target \in Users
    BY IdleTyped DEF Snapshot
  <1>2. Idle.epoch <= epoch[Idle.target]
    BY <1>1, IdleTyped, LimitsAssumption DEF IInv, TypeOK
  <1>3. /\ Idle.at # "flushed" /\ Idle.at # "principal"
        /\ Idle.work \notin {"refresh", "logout"}
        /\ Idle.work \notin AdminWorks
        /\ Idle.token_version <= Idle.epoch
        /\ Idle.token_version = Idle.epoch
    BY IdleTyped DEF AdminWorks
  <1>4. /\ req' = [req EXCEPT ![r] = Idle]
        /\ UNCHANGED <<user, epoch, sessions, lost, raced>>
    BY DEF RollBack
  <1>5. Idle \in Snapshot /\ (Idle.at = "idle" => Idle.work = "login")
    BY IdleTyped
  <1> QED
    BY <1>2, <1>3, <1>4, <1>5, SnapshotPreserves

\* The first half of a revocation takes a lock nobody holds and finds every
\* unrevoked session of the user.
LEMMA RevokeSessionsPreserves ==
    ASSUME IInv, NEW r \in Requests, RevokeSessions(r)
    PROVE  IInv'
  <1> DEFINE s == [req[r] EXCEPT !.at = "flushed",
                                 !.revoking = UnrevokedOf(req[r].target)]
  <1>0. /\ req[r] \in Snapshot
        /\ Len(sessions) \in Nat /\ Len(sessions) <= MaxSessions
    BY DEF IInv, TypeOK
  <1>1. UnrevokedOf(req[r].target) \in SUBSET (1 .. MaxSessions)
    BY <1>0, LimitsAssumption DEF UnrevokedOf
  <1>2. /\ s \in Snapshot /\ s.at = "flushed" /\ s.work = req[r].work
        /\ s.actor = req[r].actor /\ s.target = req[r].target
        /\ s.token_version = req[r].token_version /\ s.epoch = req[r].epoch
        /\ s.session = req[r].session /\ s.stale = req[r].stale
        /\ s.revoking = UnrevokedOf(req[r].target)
    BY <1>0, <1>1 DEF Snapshot, Steps
  <1>3. /\ req' = [req EXCEPT ![r] = s]
        /\ UNCHANGED <<user, epoch, sessions, lost, raced>>
        /\ ~UserLocked(req[r].target)
        /\ epoch[req[r].target] < MaxEpoch
    BY DEF RevokeSessions
  <1> HIDE DEF s
  <1>4. /\ req'[r] = s
        /\ \A q \in Requests : q # r => req'[q] = req[q]
        /\ req' \in [Requests -> Snapshot]
    BY <1>2, <1>3 DEF IInv, TypeOK
  <1>5. TypeOK'
    BY <1>3, <1>4 DEF IInv, TypeOK
  <1>6. VersionsCount'
    BY <1>2, <1>3, <1>4 DEF IInv, VersionsCount
  <1>7. LocksCover'
    BY <1>2, <1>3, <1>4 DEF IInv, LocksCover, UserLocked, UnrevokedOf
  <1>8. SessionsNamed' /\ RequestsNamed' /\ RequestsFresh'
    BY <1>2, <1>3, <1>4
    DEF IInv, SessionsNamed, RequestsNamed, RequestsFresh
  <1>9. /\ OnlyLateSessionsSurvive' /\ RefreshTokenUsedOnce'
        /\ LogoutEndsTheChain' /\ AnAdministratorRemains'
    BY <1>3
    DEF IInv, OnlyLateSessionsSurvive, RefreshTokenUsedOnce, Exchanged,
        LogoutEndsTheChain, AnAdministratorRemains
  <1> QED
    BY <1>5, <1>6, <1>7, <1>8, <1>9 DEF IInv

\* A token that expires loses nothing that the invariant speaks of.
LEMMA ExpirePreserves ==
    ASSUME IInv, NEW i \in 1 .. Len(sessions), Expire(i)
    PROVE  IInv'
  <1>0. /\ \A k \in 1 .. Len(sessions) : sessions[k] \in SessionRow
        /\ sessions \in Seq(SessionRow)
    BY ElementOfSeq DEF IInv, TypeOK
  <1> DEFINE e == [sessions[i] EXCEPT !.tokens = @ - 1]
  <1>1. /\ e \in SessionRow
        /\ e.user = sessions[i].user
        /\ e.token_version = sessions[i].token_version
        /\ e.revoked = sessions[i].revoked
        /\ e.epoch = sessions[i].epoch /\ e.parent = sessions[i].parent
        /\ e.logged_out = sessions[i].logged_out
        /\ e.late = sessions[i].late
    <2>1. sessions[i] \in SessionRow /\ sessions[i].tokens > 0
      BY <1>0 DEF Expire
    <2>2. sessions[i].tokens - 1 \in 0 .. 2
      BY <2>1 DEF SessionRow
    <2> QED
      BY <2>1, <2>2 DEF SessionRow
  <1>2. /\ sessions' = [sessions EXCEPT ![i] = e]
        /\ UNCHANGED <<user, epoch, req, lost, raced>>
    BY DEF Expire
  <1> HIDE DEF e
  <1>3. /\ sessions' \in Seq(SessionRow) /\ Len(sessions') = Len(sessions)
        /\ \A k \in 1 .. Len(sessions) :
              sessions'[k] = IF k = i THEN e ELSE sessions[k]
    BY <1>0, <1>1, <1>2, ExceptSeq
  <1>4. TypeOK'
    BY <1>2, <1>3 DEF IInv, TypeOK
  <1>5. VersionsCount' /\ LocksCover'
    BY <1>1, <1>2, <1>3 DEF IInv, VersionsCount, LocksCover
  <1>6. SessionsNamed' /\ RequestsNamed' /\ RequestsFresh'
    BY <1>1, <1>2, <1>3
    DEF IInv, SessionsNamed, RequestsNamed, RequestsFresh
  <1>7. OnlyLateSessionsSurvive' /\ AnAdministratorRemains'
    BY <1>1, <1>2, <1>3
    DEF IInv, OnlyLateSessionsSurvive, AnAdministratorRemains
  <1>8. RefreshTokenUsedOnce' /\ LogoutEndsTheChain'
    BY <1>1, <1>2, <1>3
    DEF IInv, RefreshTokenUsedOnce, Exchanged, LogoutEndsTheChain
  <1> QED
    BY <1>4, <1>5, <1>6, <1>7, <1>8 DEF IInv

-----------------------------------------------------------------------------
(* Commits.                                                                *)

\* What a commit does to the requests: the committing one is idle, a fresh
\* one has read none of the rows that changed, and nothing else moves.
LEMMA CommitFacts ==
    ASSUME IInv, NEW r \in Requests, NEW us, NEW ss, Commit(r, us, ss)
    PROVE  /\ req' \in [Requests -> Snapshot]
           /\ raced' \in BOOLEAN
           /\ req'[r] = Idle
           /\ ~raced' => ~raced /\ ~req[r].stale
           /\ \A q \in Requests : q # r =>
                 /\ req'[q].at = req[q].at /\ req'[q].work = req[q].work
                 /\ req'[q].actor = req[q].actor
                 /\ req'[q].target = req[q].target
                 /\ req'[q].token_version = req[q].token_version
                 /\ req'[q].session = req[q].session
                 /\ req'[q].epoch = req[q].epoch
                 /\ req'[q].revoking = req[q].revoking
                 /\ ~req'[q].stale =>
                       /\ ~req[q].stale
                       /\ req[q].at # "idle" => /\ req[q].actor \notin us
                                                /\ req[q].target \notin us
                                                /\ req[q].session \notin ss
  <1>1. req \in [Requests -> Snapshot] /\ raced \in BOOLEAN
    BY DEF IInv, TypeOK
  <1>2. \A q \in Requests : [req[q] EXCEPT !.stale = TRUE] \in Snapshot
    BY <1>1 DEF Snapshot
  <1>3. req' \in [Requests -> Snapshot] /\ req'[r] = Idle
    BY <1>1, <1>2, IdleTyped DEF Commit
  <1>4. raced' \in BOOLEAN /\ (~raced' => ~raced /\ ~req[r].stale)
    BY <1>1 DEF Commit
  <1>5. ASSUME NEW q \in Requests, q # r
        PROVE  \/ /\ req'[q] = [req[q] EXCEPT !.stale = TRUE]
               \/ /\ req'[q] = req[q]
                  /\ req[q].at # "idle" => /\ req[q].actor \notin us
                                           /\ req[q].target \notin us
                                           /\ req[q].session \notin ss
    BY <1>5 DEF Commit
  <1> QED
    BY <1>1, <1>3, <1>4, <1>5 DEF Snapshot

\* The parts of the invariant about requests survive a commit that only
\* adds sessions, raises epochs and changes the rows it names.
LEMMA CommitKeepsRequests ==
    ASSUME IInv, NEW r \in Requests, NEW us, NEW ss, Commit(r, us, ss),
           Len(sessions') >= Len(sessions), Len(sessions') \in Nat,
           \A u \in Users : epoch'[u] \in Nat /\ epoch'[u] >= epoch[u],
           \A u \in Users : u \notin us => user'[u] = user[u],
           \A i \in 1 .. Len(sessions) :
              i \notin ss => sessions'[i].revoked = sessions[i].revoked,
           ~lost' => ~lost
    PROVE  /\ RequestsNamed' /\ RequestsFresh'
           /\ \A q \in Requests : /\ req'[q].token_version <= req'[q].epoch
                                  /\ req'[q].epoch <= epoch'[req'[q].target]
           /\ ~lost' => \A q \in Requests :
                           req'[q].token_version = req'[q].epoch
  <1>0. /\ req \in [Requests -> Snapshot] /\ Len(sessions) \in Nat
        /\ epoch \in [Users -> 1 .. MaxEpoch]
        /\ Idle.target \in Users
    BY IdleTyped DEF IInv, TypeOK, Snapshot
  <1>1. RequestsNamed'
    BY <1>0, CommitFacts, IdleTyped DEF IInv, RequestsNamed, AdminWorks
  <1>2. ASSUME NEW q \in Requests, ~req'[q].stale, q # r
        PROVE  /\ req'[q].work \in {"refresh", "logout"}
                     => ~sessions'[req'[q].session].revoked
               /\ req'[q].work \in AdminWorks => user'[req'[q].actor].active
    <2>1. /\ ~req[q].stale
          /\ req'[q].work = req[q].work /\ req'[q].actor = req[q].actor
          /\ req'[q].session = req[q].session
          /\ req[q].at # "idle" => /\ req[q].actor \notin us
                                   /\ req[q].session \notin ss
      BY <1>2, CommitFacts
    <2>2. req[q].actor \in Users
      BY <1>0 DEF Snapshot
    <2>3. CASE req[q].at = "idle"
      BY <2>1, <2>3 DEF IInv, RequestsNamed, AdminWorks
    <2>4. CASE req[q].at # "idle"
      BY <2>1, <2>2, <2>4 DEF IInv, RequestsNamed, RequestsFresh
    <2> QED
      BY <2>3, <2>4
  <1>3. RequestsFresh'
    <2>1. req'[r].work = "login"
      BY CommitFacts, IdleTyped
    <2> QED
      BY <1>2, <2>1 DEF RequestsFresh, AdminWorks
  <1>4. ASSUME NEW q \in Requests
        PROVE  /\ req'[q].token_version <= req'[q].epoch
               /\ req'[q].epoch <= epoch'[req'[q].target]
               /\ ~lost' => req'[q].token_version = req'[q].epoch
    <2>1. CASE q = r
      <3>1. req'[q] = Idle
        BY <2>1, CommitFacts
      <3> QED
        BY <1>0, <3>1, IdleTyped, LimitsAssumption
    <2>2. CASE q # r
      <3>1. /\ req'[q].token_version = req[q].token_version
            /\ req'[q].epoch = req[q].epoch
            /\ req'[q].target = req[q].target
        BY <2>2, CommitFacts
      <3>2. req[q].target \in Users /\ req[q].epoch \in Nat
        BY <1>0, LimitsAssumption DEF Snapshot
      <3>3. /\ req[q].token_version <= req[q].epoch
            /\ req[q].epoch <= epoch[req[q].target]
            /\ ~lost => req[q].token_version = req[q].epoch
        BY DEF IInv, VersionsCount
      <3> QED
        BY <1>0, <3>1, <3>2, <3>3, LimitsAssumption
    <2> QED
      BY <2>1, <2>2
  <1> QED
    BY <1>1, <1>3, <1>4

\* A commit that adds the session of a login or a refresh, and revokes at
\* most the session it replaces.
LEMMA IssuePreserves ==
    ASSUME IInv, NEW r \in Requests, NEW ss, NEW t \in Seq(SessionRow),
           NEW parent \in 0 .. Len(sessions),
           Len(t) = Len(sessions), Len(sessions) < MaxSessions,
           \A i \in 1 .. Len(sessions) :
              /\ t[i].user = sessions[i].user
              /\ t[i].token_version = sessions[i].token_version
              /\ t[i].epoch = sessions[i].epoch
              /\ t[i].parent = sessions[i].parent
              /\ t[i].logged_out = sessions[i].logged_out
              /\ t[i].late = sessions[i].late
              /\ sessions[i].revoked => t[i].revoked
              /\ i \notin ss => t[i].revoked = sessions[i].revoked,
           parent # 0 => /\ t[parent].revoked
                         /\ ~req[r].stale => ~sessions[parent].revoked,
           sessions' = Append(t, Issued(r, parent)),
           Commit(r, {}, ss),
           UNCHANGED <<user, epoch, lost>>
    PROVE  IInv'
  <1> DEFINE n == Len(sessions) + 1
             e == Issued(r, parent)
  <1>0. /\ req[r] \in Snapshot /\ Len(sessions) \in Nat
        /\ user \in [Users -> UserRow] /\ epoch \in [Users -> 1 .. MaxEpoch]
    BY DEF IInv, TypeOK
  <1>1. /\ e.user = req[r].target
        /\ e.token_version = req[r].token_version /\ ~e.revoked
        /\ e.epoch = req[r].epoch /\ e.parent = parent /\ ~e.logged_out
        /\ e.late <=> UserLocked(req[r].target)
                      \/ req[r].epoch # epoch[req[r].target]
    BY DEF Issued
  <1>2. e \in SessionRow
    <2>1. (UserLocked(req[r].target)
              \/ req[r].epoch # epoch[req[r].target]) \in BOOLEAN
      OBVIOUS
    <2>2. parent \in 0 .. MaxSessions
      BY <1>0, LimitsAssumption
    <2>3. Root(parent) \in 1 .. MaxSessions
      <3>1. CASE parent = 0
        BY <1>0, <3>1, LimitsAssumption DEF Root
      <3>2. CASE parent # 0
        <4>1. sessions[parent] \in SessionRow
          BY <3>2, ElementOfSeq DEF IInv, TypeOK
        <4> QED
          BY <3>2, <4>1 DEF Root, SessionRow
      <3> QED
        BY <3>1, <3>2
    <2> QED
      BY <1>0, <2>1, <2>2, <2>3, LimitsAssumption
      DEF Issued, SessionRow, Snapshot
  <1> HIDE DEF e
  <1>3. /\ sessions' \in Seq(SessionRow) /\ Len(sessions') = n
        /\ \A i \in 1 .. Len(sessions) : sessions'[i] = t[i]
        /\ sessions'[n] = e
    <2>1. sessions' = Append(t, e)
      BY DEF e
    <2> QED
      BY <1>2, <2>1
  <1>4. TypeOK'
    BY <1>0, <1>3, CommitFacts, LimitsAssumption DEF IInv, TypeOK
  <1>5. /\ RequestsNamed' /\ RequestsFresh'
        /\ \A q \in Requests : /\ req'[q].token_version <= req'[q].epoch
                               /\ req'[q].epoch <= epoch'[req'[q].target]
        /\ ~lost' => \A q \in Requests :
                        req'[q].token_version = req'[q].epoch
    <2>1. Len(sessions') >= Len(sessions) /\ Len(sessions') \in Nat
      BY <1>0, <1>3
    <2>2. \A u \in Users : epoch'[u] \in Nat /\ epoch'[u] >= epoch[u]
      BY <1>0, LimitsAssumption
    <2> QED
      BY <1>3, <2>1, <2>2, CommitKeepsRequests
  <1>6. VersionsCount'
    <2>1. ASSUME NEW i \in 1 .. Len(sessions'), ~lost'
          PROVE  sessions'[i].token_version = sessions'[i].epoch
      BY <1>0, <1>1, <1>3, <2>1 DEF IInv, VersionsCount
    <2> QED
      BY <1>5, <2>1 DEF IInv, VersionsCount
  <1>7. LocksCover'
    <2> SUFFICES ASSUME NEW q \in Requests, req'[q].at = "flushed"
                 PROVE  /\ epoch'[req'[q].target] < MaxEpoch
                        /\ \A p \in Requests : req'[p].at = "flushed"
                              /\ req'[p].target = req'[q].target => p = q
                        /\ \A i \in 1 .. Len(sessions') :
                              /\ sessions'[i].user = req'[q].target
                              /\ ~sessions'[i].revoked
                              /\ ~sessions'[i].late
                              => i \in req'[q].revoking
      BY DEF LocksCover
    <2>1. \A p \in Requests : req'[p].at = "flushed"
             => /\ p # r /\ req[p].at = "flushed"
                /\ req'[p].target = req[p].target
                /\ req'[p].revoking = req[p].revoking
      BY CommitFacts, IdleTyped
    <2>2. ASSUME NEW i \in 1 .. Len(sessions'),
                 sessions'[i].user = req'[q].target,
                 ~sessions'[i].revoked, ~sessions'[i].late
          PROVE  i \in req'[q].revoking
      <3>1. CASE i = n
        <4>1. UserLocked(req[r].target)
          BY <1>1, <1>3, <2>1, <2>2, <3>1 DEF UserLocked
        <4> QED
          BY <1>1, <1>3, <2>2, <3>1, <4>1
      <3>2. CASE i \in 1 .. Len(sessions)
        BY <1>3, <2>1, <2>2, <3>2 DEF IInv, LocksCover
      <3> QED
        BY <1>0, <1>3, <3>1, <3>2
    <2>3. epoch'[req'[q].target] < MaxEpoch
      BY <2>1 DEF IInv, LocksCover
    <2>4. \A p \in Requests : req'[p].at = "flushed"
             /\ req'[p].target = req'[q].target => p = q
      BY <2>1 DEF IInv, LocksCover
    <2> QED
      BY <2>2, <2>3, <2>4
  <1>8. SessionsNamed'
    <2> SUFFICES ASSUME NEW i \in 1 .. Len(sessions')
                 PROVE  /\ sessions'[i].parent # 0 =>
                              /\ sessions'[i].parent \in 1 .. Len(sessions')
                              /\ sessions'[sessions'[i].parent].revoked
                        /\ sessions'[i].logged_out => sessions'[i].revoked
      BY DEF SessionsNamed
    <2>1. CASE i = n
      BY <1>0, <1>1, <1>3, <2>1
    <2>2. CASE i \in 1 .. Len(sessions)
      BY <1>0, <1>3, <2>2 DEF IInv, SessionsNamed
    <2> QED
      BY <1>0, <1>3, <2>1, <2>2
  <1>9. OnlyLateSessionsSurvive'
    <2> SUFFICES ASSUME NEW i \in 1 .. Len(sessions'),
                        sessions'[i].epoch # epoch[sessions'[i].user]
                 PROVE  sessions'[i].revoked \/ sessions'[i].late
      BY DEF OnlyLateSessionsSurvive
    <2>1. CASE i = n
      BY <1>1, <1>3, <2>1
    <2>2. CASE i \in 1 .. Len(sessions)
      BY <1>3, <2>2 DEF IInv, OnlyLateSessionsSurvive
    <2> QED
      BY <1>0, <1>3, <2>1, <2>2
  <1>10. ASSUME ~raced', parent # 0, NEW i \in 1 .. Len(sessions)
         PROVE  sessions[i].parent # parent
    BY <1>10, CommitFacts DEF IInv, SessionsNamed
  <1>11. RefreshTokenUsedOnce'
    <2> SUFFICES ASSUME ~raced', NEW j \in 1 .. Len(sessions'),
                        NEW k \in 1 .. Len(sessions'),
                        sessions'[j].parent = sessions'[k].parent,
                        sessions'[j].parent # 0
                 PROVE  j = k
      BY DEF RefreshTokenUsedOnce, Exchanged
    <2>1. ~raced
      BY CommitFacts
    <2>2. CASE j = n \/ k = n
      BY <1>0, <1>1, <1>3, <1>10, <2>2
    <2>3. CASE j \in 1 .. Len(sessions) /\ k \in 1 .. Len(sessions)
      BY <1>3, <2>1, <2>3 DEF IInv, RefreshTokenUsedOnce, Exchanged
    <2> QED
      BY <1>0, <1>3, <2>2, <2>3
  <1>12. LogoutEndsTheChain'
    <2> SUFFICES ASSUME ~raced', NEW i \in 1 .. Len(sessions'),
                        NEW j \in 1 .. Len(sessions'),
                        sessions'[i].logged_out
                 PROVE  sessions'[j].parent # i
      BY DEF LogoutEndsTheChain
    <2>0. ~raced /\ ~req[r].stale
      BY CommitFacts
    <2>1. i \in 1 .. Len(sessions) /\ sessions[i].logged_out
      BY <1>0, <1>1, <1>3
    <2>2. CASE j = n
      BY <1>1, <1>3, <2>0, <2>1, <2>2 DEF IInv, SessionsNamed
    <2>3. CASE j \in 1 .. Len(sessions)
      BY <1>3, <2>0, <2>1, <2>3 DEF IInv, LogoutEndsTheChain
    <2> QED
      BY <1>0, <1>3, <2>2, <2>3
  <1>13. AnAdministratorRemains'
    BY CommitFacts DEF IInv, AnAdministratorRemains
  <1> QED
    BY <1>4, <1>5, <1>6, <1>7, <1>8, <1>9, <1>11, <1>12, <1>13 DEF IInv

\* A login replaces nothing.
LEMMA CommitLoginPreserves ==
    ASSUME IInv, NEW r \in Requests, CommitLogin(r)
    PROVE  IInv'
  <1>1. /\ sessions \in Seq(SessionRow) /\ Len(sessions) \in Nat
        /\ 0 \in 0 .. Len(sessions)
    BY DEF IInv, TypeOK
  <1>2. /\ sessions' = Append(sessions, Issued(r, 0)) /\ Commit(r, {}, {})
        /\ Len(sessions) < MaxSessions /\ UNCHANGED <<user, epoch, lost>>
    BY DEF CommitLogin
  <1> QED
    BY <1>1, <1>2, IssuePreserves

\* A refresh replaces the session it has read, which is unrevoked unless
\* the request has become stale.
LEMMA CommitRefreshPreserves ==
    ASSUME IInv, NEW r \in Requests, CommitRefresh(r)
    PROVE  IInv'
  <1> DEFINE i == req[r].session
             n == Len(sessions) + 1
             e == Replaced(sessions[i], n)
             t == [sessions EXCEPT ![i] = e]
  <1>1. /\ req[r].work = "refresh" /\ Len(sessions) < MaxSessions
        /\ sessions' = Append(t, Issued(r, i)) /\ Commit(r, {}, {i})
        /\ UNCHANGED <<user, epoch, lost>>
    BY DEF CommitRefresh
  <1>2. /\ sessions \in Seq(SessionRow) /\ Len(sessions) \in Nat
        /\ i \in 1 .. Len(sessions) /\ sessions[i] \in SessionRow
    BY <1>1, ElementOfSeq DEF IInv, TypeOK, RequestsNamed
  <1>3. ~req[r].stale => ~sessions[i].revoked
    BY <1>1 DEF IInv, RequestsFresh
  <1>4. /\ e \in SessionRow /\ e.revoked
        /\ e.user = sessions[i].user
        /\ e.token_version = sessions[i].token_version
        /\ e.epoch = sessions[i].epoch /\ e.parent = sessions[i].parent
        /\ e.logged_out = sessions[i].logged_out
        /\ e.late = sessions[i].late
    <2>1. n \in 0 .. MaxSessions
      BY <1>1, <1>2, LimitsAssumption
    <2> QED
      BY <1>2, <2>1 DEF Replaced, SessionRow
  <1> HIDE DEF e
  <1>5. /\ t \in Seq(SessionRow) /\ Len(t) = Len(sessions)
        /\ \A k \in 1 .. Len(sessions) :
              t[k] = IF k = i THEN e ELSE sessions[k]
    BY <1>2, <1>4, ExceptSeq
  <1> HIDE DEF t
  <1>6. /\ i \in 0 .. Len(sessions)
        /\ i # 0 => t[i].revoked /\ (~req[r].stale => ~sessions[i].revoked)
    BY <1>2, <1>3, <1>4, <1>5
  <1>7. \A k \in 1 .. Len(sessions) :
           /\ t[k].user = sessions[k].user
           /\ t[k].token_version = sessions[k].token_version
           /\ t[k].epoch = sessions[k].epoch
           /\ t[k].parent = sessions[k].parent
           /\ t[k].logged_out = sessions[k].logged_out
           /\ t[k].late = sessions[k].late
           /\ sessions[k].revoked => t[k].revoked
           /\ k \notin {i} => t[k].revoked = sessions[k].revoked
    BY <1>4, <1>5
  <1> HIDE DEF i
  <1> QED
    BY <1>1, <1>5, <1>6, <1>7, IssuePreserves

\* A logout revokes the session it has read; if it is not stale that one
\* was unrevoked, so nothing has been exchanged for it.
LEMMA CommitLogoutPreserves ==
    ASSUME IInv, NEW r \in Requests, CommitLogout(r)
    PROVE  IInv'
  <1> DEFINE i == req[r].session
             e == [sessions[i] EXCEPT !.revoked = TRUE, !.logged_out = TRUE]
  <1>1. /\ req[r].work = "logout"
        /\ sessions' = [sessions EXCEPT ![i] = e] /\ Commit(r, {}, {i})
        /\ UNCHANGED <<user, epoch, lost>>
    BY DEF CommitLogout
  <1>2. /\ sessions \in Seq(SessionRow) /\ Len(sessions) \in Nat
        /\ i \in 1 .. Len(sessions) /\ sessions[i] \in SessionRow
        /\ epoch \in [Users -> 1 .. MaxEpoch]
    BY <1>1, ElementOfSeq DEF IInv, TypeOK, RequestsNamed
  <1>3. /\ e \in SessionRow /\ e.revoked
        /\ e.user = sessions[i].user
        /\ e.token_version = sessions[i].token_version
        /\ e.epoch = sessions[i].epoch /\ e.parent = sessions[i].parent
        /\ e.late = sessions[i].late
    BY <1>2 DEF SessionRow
  <1> HIDE DEF e
  <1>4. /\ sessions' \in Seq(SessionRow) /\ Len(sessions') = Len(sessions)
        /\ \A k \in 1 .. Len(sessions) :
              sessions'[k] = IF k = i THEN e ELSE sessions[k]
    BY <1>1, <1>2, <1>3, ExceptSeq
  <1>5. TypeOK'
    BY <1>1, <1>4, CommitFacts DEF IInv, TypeOK
  <1>6. /\ RequestsNamed' /\ RequestsFresh'
        /\ \A q \in Requests : /\ req'[q].token_version <= req'[q].epoch
                               /\ req'[q].epoch <= epoch'[req'[q].target]
        /\ ~lost' => \A q \in Requests :
                        req'[q].token_version = req'[q].epoch
    <2>1. Len(sessions') >= Len(sessions) /\ Len(sessions') \in Nat
      BY <1>2, <1>4
    <2>2. \A u \in Users : epoch'[u] \in Nat /\ epoch'[u] >= epoch[u]
      BY <1>1, <1>2, LimitsAssumption
    <2>3. \A k \in 1 .. Len(sessions) :
             k \notin {i} => sessions'[k].revoked = sessions[k].revoked
      BY <1>4
    <2> HIDE DEF i
    <2> QED
      BY <1>1, <2>1, <2>2, <2>3, CommitKeepsRequests
  <1>7. VersionsCount'
    BY <1>1, <1>3, <1>4, <1>6 DEF IInv, VersionsCount
  <1>8. LocksCover'
    <2>1. \A p \in Requests : req'[p].at = "flushed"
             => /\ p # r /\ req[p].at = "flushed"
                /\ req'[p].target = req[p].target
                /\ req'[p].revoking = req[p].revoking
      BY <1>1, CommitFacts, IdleTyped
    <2> QED
      BY <1>1, <1>3, <1>4, <2>1 DEF IInv, LocksCover
  <1>9. SessionsNamed'
    BY <1>3, <1>4 DEF IInv, SessionsNamed
  <1>10. OnlyLateSessionsSurvive'
    BY <1>1, <1>3, <1>4 DEF IInv, OnlyLateSessionsSurvive
  <1>11. RefreshTokenUsedOnce' /\ AnAdministratorRemains'
    <2>1. ~raced' => ~raced
      BY <1>1, CommitFacts
    <2> QED
      BY <1>1, <1>3, <1>4, <2>1
      DEF IInv, RefreshTokenUsedOnce, Exchanged, AnAdministratorRemains
  <1>12. LogoutEndsTheChain'
    <2>1. ~raced' => ~raced /\ ~req[r].stale
      BY <1>1, CommitFacts
    <2>2. ~req[r].stale => ~sessions[i].revoked
      BY <1>1 DEF IInv, RequestsFresh
    <2>3. ~req[r].stale => \A j \in 1 .. Len(sessions) :
                              sessions[j].parent # i
      BY <1>2, <2>2 DEF IInv, SessionsNamed
    <2>4. \A j \in 1 .. Len(sessions) :
             sessions'[j].parent = sessions[j].parent
      BY <1>3, <1>4
    <2> HIDE DEF i
    <2> QED
      BY <1>4, <2>1, <2>3, <2>4 DEF IInv, LogoutEndsTheChain
  <1> QED
    BY <1>5, <1>6, <1>7, <1>8, <1>9, <1>10, <1>11, <1>12 DEF IInv

\* A password change or a deactivation commits: the lock it holds makes it
\* the only one that raises this user's epoch, and the sessions it found
\* are all that were stored in time.
LEMMA CommitRevocationPreserves ==
    ASSUME IInv, NEW r \in Requests, CommitRevocation(r)
    PROVE  IInv'
  <1> DEFINE u == req[r].target
             w == [active |-> user[u].active /\ req[r].work # "deactivation",
                   token_version |-> Incremented(r)]
  <1>1. /\ req[r].at = "flushed"
        /\ user' = [user EXCEPT ![u] = w]
        /\ epoch' = [epoch EXCEPT ![u] = @ + 1]
        /\ sessions' = [i \in 1 .. Len(sessions) |->
                           IF i \in req[r].revoking
                           THEN [sessions[i] EXCEPT !.revoked = TRUE]
                           ELSE sessions[i]]
        /\ lost' = (lost \/ req[r].token_version # user[u].token_version)
        /\ Commit(r, {u}, req[r].revoking)
    BY DEF CommitRevocation
  <1>2. /\ req[r] \in Snapshot /\ Len(sessions) \in Nat
        /\ user \in [Users -> UserRow] /\ epoch \in [Users -> 1 .. MaxEpoch]
        /\ lost \in BOOLEAN /\ sessions \in Seq(SessionRow)
        /\ \A i \in 1 .. Len(sessions) : sessions[i] \in SessionRow
        /\ Len(sessions) <= MaxSessions
    BY ElementOfSeq DEF IInv, TypeOK
  <1>3. /\ u \in Users /\ req[r].token_version \in Nat
        /\ req[r].token_version <= epoch[u] /\ epoch[u] < MaxEpoch
        /\ req[r].token_version >= 1 /\ epoch[u] \in Nat
    <2>1. /\ u \in Users /\ req[r].token_version \in 1 .. MaxEpoch
          /\ req[r].epoch \in 1 .. MaxEpoch
      BY <1>2 DEF Snapshot
    <2>2. /\ req[r].token_version <= req[r].epoch
          /\ req[r].epoch <= epoch[u]
      BY DEF IInv, VersionsCount
    <2>3. epoch[u] < MaxEpoch
      BY <1>1 DEF IInv, LocksCover
    <2> QED
      BY <1>2, <2>1, <2>2, <2>3, LimitsAssumption
  <1>4. /\ w \in UserRow /\ w.token_version = req[r].token_version + 1
        /\ w.active <=> user[u].active /\ req[r].work # "deactivation"
    <2>1. req[r].token_version + 1 \in 1 .. MaxEpoch
      BY <1>2, <1>3, LimitsAssumption
    <2>2. (user[u].active /\ req[r].work # "deactivation") \in BOOLEAN
      OBVIOUS
    <2> QED
      BY <2>1, <2>2 DEF UserRow, Incremented
  <1> HIDE DEF w
  <1>5. /\ sessions' \in Seq(SessionRow) /\ Len(sessions') = Len(sessions)
        /\ \A i \in 1 .. Len(sessions) :
              /\ sessions'[i].user = sessions[i].user
              /\ sessions'[i].token_version = sessions[i].token_version
              /\ sessions'[i].epoch = sessions[i].epoch
              /\ sessions'[i].parent = sessions[i].parent
              /\ sessions'[i].logged_out = sessions[i].logged_out
              /\ sessions'[i].late = sessions[i].late
              /\ sessions[i].revoked => sessions'[i].revoked
              /\ i \in req[r].revoking => sessions'[i].revoked
              /\ i \notin req[r].revoking => sessions'[i] = sessions[i]
    <2>1. \A i \in 1 .. Len(sessions) :
             [sessions[i] EXCEPT !.revoked = TRUE] \in SessionRow
      BY <1>2 DEF SessionRow
    <2>2. sessions' \in Seq(SessionRow) /\ Len(sessions') = Len(sessions)
      <3> DEFINE Row(i) == IF i \in req[r].revoking
                           THEN [sessions[i] EXCEPT !.revoked = TRUE]
                           ELSE sessions[i]
      <3>1. \A i \in 1 .. Len(sessions) : Row(i) \in SessionRow
        BY <1>2, <2>1
      <3>2. sessions' = [i \in 1 .. Len(sessions) |-> Row(i)]
        BY <1>1
      <3> HIDE DEF Row
      <3> QED
        BY <1>2, <3>1, <3>2
    <2> QED
      BY <1>1, <1>2, <2>2 DEF SessionRow
  <1>6. /\ user' \in [Users -> UserRow] /\ epoch' \in [Users -> 1 .. MaxEpoch]
        /\ user'[u] = w /\ epoch'[u] = epoch[u] + 1
        /\ \A v \in Users : v # u => user'[v] = user[v] /\ epoch'[v] = epoch[v]
    <2>1. epoch[u] + 1 \in 1 .. MaxEpoch
      BY <1>2, <1>3, LimitsAssumption
    <2> QED
      BY <1>1, <1>2, <1>3, <1>4, <2>1
  <1>7. /\ lost' \in BOOLEAN
        /\ ~lost' => ~lost /\ req[r].token_version = user[u].token_version
    BY <1>1, <1>2
  <1>8. TypeOK'
    BY <1>1, <1>2, <1>5, <1>6, <1>7, CommitFacts DEF TypeOK
  <1>9. /\ RequestsNamed' /\ RequestsFresh'
        /\ \A q \in Requests : /\ req'[q].token_version <= req'[q].epoch
                               /\ req'[q].epoch <= epoch'[req'[q].target]
        /\ ~lost' => \A q \in Requests :
                        req'[q].token_version = req'[q].epoch
    <2>1. Len(sessions') >= Len(sessions) /\ Len(sessions') \in Nat
      BY <1>2, <1>5
    <2>2. \A v \in Users : epoch'[v] \in Nat /\ epoch'[v] >= epoch[v]
      <3>1. \A v \in Users : epoch[v] \in Nat /\ epoch'[v] \in Nat
        BY <1>2, <1>6, LimitsAssumption
      <3>2. epoch'[u] >= epoch[u]
        BY <1>3, <1>6
      <3> QED
        BY <1>6, <3>1, <3>2
    <2>3. \A v \in Users : v \notin {u} => user'[v] = user[v]
      BY <1>6
    <2>4. \A i \in 1 .. Len(sessions) : i \notin req[r].revoking
             => sessions'[i].revoked = sessions[i].revoked
      BY <1>5
    <2>5. (~lost' => ~lost) /\ Commit(r, {u}, req[r].revoking)
      BY <1>1, <1>7
    <2> HIDE DEF u
    <2> QED
      BY <2>1, <2>2, <2>3, <2>4, <2>5, CommitKeepsRequests
  <1>10. VersionsCount'
    <2>1. ASSUME NEW v \in Users
          PROVE  /\ user'[v].token_version <= epoch'[v]
                 /\ ~lost' => user'[v].token_version = epoch'[v]
      <3>1. CASE v = u
        BY <1>2, <1>3, <1>4, <1>6, <1>7, <3>1 DEF IInv, VersionsCount
      <3>2. CASE v # u
        BY <1>6, <1>7, <3>2 DEF IInv, VersionsCount
      <3> QED
        BY <3>1, <3>2
    <2>2. ~lost' => \A i \in 1 .. Len(sessions') :
                       sessions'[i].token_version = sessions'[i].epoch
      BY <1>5, <1>7 DEF IInv, VersionsCount
    <2> QED
      BY <1>9, <2>1, <2>2 DEF VersionsCount
  <1>11. LocksCover'
    <2>1. \A p \in Requests : req'[p].at = "flushed"
             => /\ p # r /\ req[p].at = "flushed"
                /\ req'[p].target = req[p].target
                /\ req'[p].revoking = req[p].revoking
      BY <1>1, CommitFacts, IdleTyped
    <2>2. \A p \in Requests : req'[p].at = "flushed"
             => req[p].target # u /\ req[p].target \in Users
      BY <1>1, <2>1 DEF IInv, LocksCover, TypeOK, Snapshot
    <2> SUFFICES ASSUME NEW q \in Requests, req'[q].at = "flushed"
                 PROVE  /\ epoch'[req'[q].target] < MaxEpoch
                        /\ \A p \in Requests : req'[p].at = "flushed"
                              /\ req'[p].target = req'[q].target => p = q
                        /\ \A i \in 1 .. Len(sessions') :
                              /\ sessions'[i].user = req'[q].target
                              /\ ~sessions'[i].revoked
                              /\ ~sessions'[i].late
                              => i \in req'[q].revoking
      BY DEF LocksCover
    <2>3. epoch'[req'[q].target] < MaxEpoch
      <3>1. epoch'[req'[q].target] = epoch[req[q].target]
        BY <1>6, <2>1, <2>2
      <3> QED
        BY <2>1, <3>1 DEF IInv, LocksCover
    <2>4. \A p \in Requests : req'[p].at = "flushed"
             /\ req'[p].target = req'[q].target => p = q
      BY <2>1 DEF IInv, LocksCover
    <2>5. \A i \in 1 .. Len(sessions') :
             /\ sessions'[i].user = req'[q].target
             /\ ~sessions'[i].revoked /\ ~sessions'[i].late
             => i \in req'[q].revoking
      BY <1>5, <2>1 DEF IInv, LocksCover
    <2> QED
      BY <2>3, <2>4, <2>5
  <1>12. SessionsNamed'
    BY <1>5 DEF IInv, SessionsNamed
  <1>13. OnlyLateSessionsSurvive'
    <2> SUFFICES ASSUME NEW i \in 1 .. Len(sessions),
                        sessions'[i].epoch # epoch'[sessions'[i].user]
                 PROVE  sessions'[i].revoked \/ sessions'[i].late
      BY <1>5 DEF OnlyLateSessionsSurvive
    <2>1. CASE sessions[i].user = u
      BY <1>1, <1>5, <2>1 DEF IInv, LocksCover
    <2>2. CASE sessions[i].user # u
      <3>1. sessions[i].user \in Users
        BY <1>2 DEF SessionRow
      <3> QED
        BY <1>5, <1>6, <2>2, <3>1 DEF IInv, OnlyLateSessionsSurvive
    <2> QED
      BY <2>1, <2>2
  <1>14. RefreshTokenUsedOnce' /\ LogoutEndsTheChain'
    BY <1>1, <1>5, CommitFacts
    DEF IInv, RefreshTokenUsedOnce, Exchanged, LogoutEndsTheChain
  <1>15. AnAdministratorRemains'
    <2> SUFFICES ASSUME ~raced', Admins # {}
                 PROVE  \E a \in Admins : user'[a].active
      BY DEF AnAdministratorRemains
    <2>1. ~raced /\ ~req[r].stale
      BY <1>1, CommitFacts
    <2>2. CASE req[r].work = "deactivation"
      <3>1. /\ req[r].actor \in Admins /\ req[r].actor # u
            /\ user[req[r].actor].active
        BY <2>1, <2>2 DEF IInv, RequestsNamed, RequestsFresh, AdminWorks
      <3> QED
        BY <1>6, <3>1, UsersAssumption
    <2>3. CASE req[r].work # "deactivation"
      <3>1. PICK a \in Admins : user[a].active
        BY <2>1 DEF IInv, AnAdministratorRemains
      <3> QED
        BY <1>4, <1>6, <2>3, <3>1, UsersAssumption
    <2> QED
      BY <2>2, <2>3
  <1> QED
    BY <1>8, <1>9, <1>10, <1>11, <1>12, <1>13, <1>14, <1>15 DEF IInv

\* An activation changes one flag.
LEMMA CommitActivationPreserves ==
    ASSUME IInv, NEW r \in Requests, CommitActivation(r)
    PROVE  IInv'
  <1> DEFINE u == req[r].target
             w == [user[u] EXCEPT !.active = TRUE]
  <1>1. /\ user' = [user EXCEPT ![u] = w] /\ Commit(r, {u}, {})
        /\ UNCHANGED <<epoch, sessions, lost>>
    BY DEF CommitActivation
  <1>2. /\ u \in Users /\ user \in [Users -> UserRow]
        /\ epoch \in [Users -> 1 .. MaxEpoch] /\ Len(sessions) \in Nat
    BY DEF IInv, TypeOK, Snapshot
  <1>3. w \in UserRow /\ w.token_version = user[u].token_version /\ w.active
    BY <1>2 DEF UserRow
  <1> HIDE DEF w
  <1>4. /\ user' \in [Users -> UserRow] /\ user'[u] = w
        /\ \A v \in Users : v # u => user'[v] = user[v]
    BY <1>1, <1>2, <1>3
  <1>5. TypeOK'
    BY <1>1, <1>4, CommitFacts DEF IInv, TypeOK
  <1>6. /\ RequestsNamed' /\ RequestsFresh'
        /\ \A q \in Requests : /\ req'[q].token_version <= req'[q].epoch
                               /\ req'[q].epoch <= epoch'[req'[q].target]
        /\ ~lost' => \A q \in Requests :
                        req'[q].token_version = req'[q].epoch
    <2>1. \A v \in Users : epoch'[v] \in Nat /\ epoch'[v] >= epoch[v]
      BY <1>1, <1>2, LimitsAssumption
    <2>2. \A v \in Users : v \notin {u} => user'[v] = user[v]
      BY <1>4
    <2>3. Len(sessions') >= Len(sessions) /\ Len(sessions') \in Nat
      BY <1>1, <1>2
    <2> HIDE DEF u
    <2> QED
      BY <1>1, <2>1, <2>2, <2>3, CommitKeepsRequests
  <1>7. VersionsCount'
    BY <1>1, <1>3, <1>4, <1>6 DEF IInv, VersionsCount
  <1>8. LocksCover'
    <2>1. \A p \in Requests : req'[p].at = "flushed"
             => /\ p # r /\ req[p].at = "flushed"
                /\ req'[p].target = req[p].target
                /\ req'[p].revoking = req[p].revoking
      BY <1>1, CommitFacts, IdleTyped
    <2> QED
      BY <1>1, <2>1 DEF IInv, LocksCover
  <1>9. /\ SessionsNamed' /\ OnlyLateSessionsSurvive'
        /\ RefreshTokenUsedOnce' /\ LogoutEndsTheChain'
    BY <1>1, CommitFacts
    DEF IInv, SessionsNamed, OnlyLateSessionsSurvive, RefreshTokenUsedOnce,
        Exchanged, LogoutEndsTheChain
  <1>10. AnAdministratorRemains'
    <2> SUFFICES ASSUME ~raced', Admins # {}
                 PROVE  \E a \in Admins : user'[a].active
      BY DEF AnAdministratorRemains
    <2>1. ~raced
      BY <1>1, CommitFacts
    <2>2. PICK a \in Admins : user[a].active
      BY <2>1 DEF IInv, AnAdministratorRemains
    <2> QED
      BY <1>3, <1>4, <2>2, UsersAssumption
  <1> QED
    BY <1>5, <1>6, <1>7, <1>8, <1>9, <1>10 DEF IInv

-----------------------------------------------------------------------------
(* The theorems.                                                           *)

\* Every step preserves the invariant.
LEMMA NextIInv == IInv /\ [Next]_vars => IInv'
  <1> SUFFICES ASSUME IInv, [Next]_vars PROVE IInv'
    OBVIOUS
  <1>1. CASE UNCHANGED vars
    BY <1>1
    DEF vars, IInv, TypeOK, VersionsCount, LocksCover, SessionsNamed,
        RequestsNamed, RequestsFresh, OnlyLateSessionsSurvive,
        RefreshTokenUsedOnce, Exchanged, LogoutEndsTheChain,
        AnAdministratorRemains
  <1>2. CASE \E i \in 1 .. Len(sessions) : Expire(i)
    BY <1>2, ExpirePreserves
  <1>3. ASSUME NEW r \in Requests,
               \/ \E u \in Users : Login(r, u)
               \/ \E i \in 1 .. Len(sessions) :
                     \/ Refresh(r, i) \/ Logout(r, i)
                     \/ ChangePassword(r, i) \/ AdminOnly(r, i)
               \/ \E u \in Users : UpdateUserStatus(r, u)
        PROVE  IInv'
    BY <1>3, ReadingPreserves
  <1>4. ASSUME NEW r \in Requests,
               RollBack(r) \/ RevokeSessions(r)
        PROVE  IInv'
    BY <1>4, RollBackPreserves, RevokeSessionsPreserves
  <1>5. ASSUME NEW r \in Requests,
               \/ CommitLogin(r) \/ CommitRefresh(r) \/ CommitLogout(r)
               \/ CommitRevocation(r) \/ CommitActivation(r)
        PROVE  IInv'
    BY <1>5, CommitLoginPreserves, CommitRefreshPreserves,
       CommitLogoutPreserves, CommitRevocationPreserves,
       CommitActivationPreserves
  <1> QED
    BY <1>1, <1>2, <1>3, <1>4, <1>5 DEF Next

\* The invariant holds in every reachable state: of the rows, the sessions
\* and whatever the requests in flight have read.
THEOREM InvariantHolds == Spec => []IInv
  BY InitIInv, NextIInv, PTL DEF Spec

\* Every row and every snapshot has its type, and token_version stays below
\* the bound: a lock is only taken below it.
THEOREM TypeCorrect == Spec => []TypeOK
  <1>1. IInv => TypeOK
    BY DEF IInv
  <1> QED
    BY <1>1, InvariantHolds, PTL

\* As long as no increment of token_version is lost, every token that
\* get_current_principal or refresh accepts was issued since the last
\* password change or deactivation of its user.
THEOREM RevocationEndsTokens == Spec => []TokensEndWithRevocation
  <1>1. IInv => TokensEndWithRevocation
    <2> SUFFICES ASSUME IInv, ~lost, NEW i \in 1 .. Len(sessions),
                        VersionHolds(i)
                 PROVE  sessions[i].epoch = epoch[sessions[i].user]
      BY DEF TokensEndWithRevocation
    <2>1. sessions[i] \in SessionRow
      BY ElementOfSeq DEF IInv, TypeOK
    <2>2. sessions[i].user \in Users
      BY <2>1 DEF SessionRow
    <2> QED
      BY <2>2 DEF IInv, VersionsCount, VersionHolds
  <1> QED
    BY <1>1, InvariantHolds, PTL

\* Even when an increment is lost, the bulk UPDATE of a revocation has
\* revoked every refresh token stored before it began.
THEOREM OnlyLateOnesSurvive == Spec => []OnlyLateSessionsSurvive
  <1>1. IInv => OnlyLateSessionsSurvive
    BY DEF IInv
  <1> QED
    BY <1>1, InvariantHolds, PTL

\* A refresh token is exchanged once, unless a request committed on a row
\* that had changed since it read it.
THEOREM RefreshedOnce == Spec => []RefreshTokenUsedOnce
  <1>1. IInv => RefreshTokenUsedOnce
    BY DEF IInv
  <1> QED
    BY <1>1, InvariantHolds, PTL

\* Under the same condition nothing is issued for a session logged out.
THEOREM LogoutIsFinal == Spec => []LogoutEndsTheChain
  <1>1. IInv => LogoutEndsTheChain
    BY DEF IInv
  <1> QED
    BY <1>1, InvariantHolds, PTL

\* Under the same condition an organisation that has an administrator keeps
\* one who is active.
THEOREM AdministratorStays == Spec => []AnAdministratorRemains
  <1>1. IInv => AnAdministratorRemains
    BY DEF IInv
  <1> QED
    BY <1>1, InvariantHolds, PTL

-----------------------------------------------------------------------------
(* AuthSessions implements SessionPromise.  IInv says what a request may   *)
(* write; the promise is also about who has called it.                     *)

\* A session of the user that no revocation has ended.
HasOpen(u) == \E i \in 1 .. Len(sessions) :
                 /\ sessions[i].user = u
                 /\ sessions[i].token_version = user[u].token_version

\* Whom a request in flight works for: the caller itself but for the work of
\* administrators; a refresh, for the user and the version of the session
\* it names; and until the request is stale, a caller who is active and,
\* where that has been asked for, has an open session.
Called(r) ==
    req[r].at # "idle" =>
        /\ req[r].work \notin AdminWorks => req[r].actor = req[r].target
        /\ req[r].work = "refresh" =>
              /\ sessions[req[r].session].user = req[r].target
              /\ sessions[req[r].session].token_version = req[r].token_version
        /\ req[r].at = "flushed" =>
              /\ req[r].work \in {"change_password", "deactivation"}
              /\ \A i \in req[r].revoking :
                    /\ i \in 1 .. Len(sessions)
                    /\ sessions[i].user = req[r].target
        /\ ~req[r].stale =>
              /\ req[r].token_version = user[req[r].target].token_version
              /\ req[r].work # "logout" => user[req[r].actor].active
              /\ req[r].work \in AdminWorks \cup {"change_password"}
                    => HasOpen(req[r].actor)

SessionsOld == \A i \in 1 .. Len(sessions) :
                  sessions[i].epoch <= epoch[sessions[i].user]

HoldersInv == /\ \A r \in Requests : Called(r)
              /\ SessionsOld
              /\ lost => raced

LEMMA InitHolders == Init => HoldersInv
  BY IdleTyped DEF Init, HoldersInv, Called, SessionsOld

\* What a session says of its holder does not change; some may be added.
RowsKept ==
    /\ Len(sessions) \in Nat /\ Len(sessions') \in Nat
    /\ Len(sessions') >= Len(sessions)
    /\ \A i \in 1 .. Len(sessions) :
          /\ sessions'[i].user = sessions[i].user
          /\ sessions'[i].token_version = sessions[i].token_version
          /\ sessions'[i].epoch = sessions[i].epoch
          /\ sessions'[i].root = sessions[i].root

\* One is added, for the target of r.
RowAdded(r, parent) ==
    /\ RowsKept
    /\ Len(sessions') = Len(sessions) + 1
    /\ sessions'[Len(sessions) + 1].user = req[r].target
    /\ sessions'[Len(sessions) + 1].token_version = req[r].token_version
    /\ sessions'[Len(sessions) + 1].epoch = req[r].epoch
    /\ sessions'[Len(sessions) + 1].root = Root(parent)
    /\ ~sessions'[Len(sessions) + 1].revoked
    /\ ~sessions'[Len(sessions) + 1].logged_out

LEMMA AddedFact ==
    ASSUME IInv, NEW r \in Requests, NEW parent \in 0 .. Len(sessions),
           NEW t \in Seq(SessionRow), Len(t) = Len(sessions),
           \A i \in 1 .. Len(sessions) :
              /\ t[i].user = sessions[i].user
              /\ t[i].token_version = sessions[i].token_version
              /\ t[i].epoch = sessions[i].epoch
              /\ t[i].root = sessions[i].root,
           NEW e, e = Issued(r, parent), sessions' = Append(t, e)
    PROVE  /\ RowAdded(r, parent)
           /\ \A i \in 1 .. Len(sessions) : sessions'[i] = t[i]
  <1>1. /\ Len(sessions) \in Nat
        /\ Len(sessions') = Len(sessions) + 1
        /\ \A i \in 1 .. Len(sessions) : sessions'[i] = t[i]
        /\ sessions'[Len(sessions) + 1] = e
    BY DEF IInv, TypeOK
  <1>2. /\ e.user = req[r].target /\ e.token_version = req[r].token_version
        /\ e.epoch = req[r].epoch /\ e.root = Root(parent) /\ ~e.revoked
        /\ ~e.logged_out
    BY DEF Issued
  <1>3. RowsKept
    BY <1>1 DEF RowsKept
  <1> QED
    BY <1>1, <1>2, <1>3 DEF RowAdded

LEMMA LoginRows ==
    ASSUME IInv, NEW r \in Requests, CommitLogin(r)
    PROVE  /\ RowAdded(r, 0)
           /\ \A i \in 1 .. Len(sessions) : sessions'[i] = sessions[i]
  <1>1. /\ sessions \in Seq(SessionRow) /\ 0 \in 0 .. Len(sessions)
        /\ sessions' = Append(sessions, Issued(r, 0))
    BY DEF IInv, TypeOK, CommitLogin
  <1> QED
    BY <1>1, AddedFact

LEMMA RefreshRows ==
    ASSUME IInv, NEW r \in Requests, CommitRefresh(r),
           NEW i, i = req[r].session
    PROVE  /\ i \in 1 .. Len(sessions)
           /\ RowAdded(r, i)
           /\ \A k \in 1 .. Len(sessions) :
                 /\ sessions'[k].revoked <=> sessions[k].revoked \/ k = i
                 /\ sessions'[k].logged_out = sessions[k].logged_out
  <1> DEFINE n == Len(sessions) + 1
             e == Replaced(sessions[i], n)
             t == [sessions EXCEPT ![i] = e]
  <1>1. /\ req[r].work = "refresh" /\ Len(sessions) < MaxSessions
        /\ sessions' = Append(t, Issued(r, i))
    BY DEF CommitRefresh
  <1>2. /\ sessions \in Seq(SessionRow) /\ Len(sessions) \in Nat
        /\ i \in 1 .. Len(sessions) /\ sessions[i] \in SessionRow
        /\ \A k \in 1 .. Len(sessions) : sessions[k] \in SessionRow
    BY <1>1, ElementOfSeq DEF IInv, TypeOK, RequestsNamed
  <1>3. /\ e \in SessionRow /\ e.revoked
        /\ e.user = sessions[i].user
        /\ e.token_version = sessions[i].token_version
        /\ e.epoch = sessions[i].epoch /\ e.root = sessions[i].root
        /\ e.logged_out = sessions[i].logged_out
    <2>1. n \in 0 .. MaxSessions
      BY <1>1, <1>2, LimitsAssumption
    <2> QED
      BY <1>2, <2>1 DEF Replaced, SessionRow
  <1> HIDE DEF e
  <1>4. /\ t \in Seq(SessionRow) /\ Len(t) = Len(sessions)
        /\ \A k \in 1 .. Len(sessions) :
              t[k] = IF k = i THEN e ELSE sessions[k]
    BY <1>2, <1>3, ExceptSeq
  <1> HIDE DEF t
  <1>5. \A k \in 1 .. Len(sessions) :
           /\ t[k].user = sessions[k].user
           /\ t[k].token_version = sessions[k].token_version
           /\ t[k].epoch = sessions[k].epoch
           /\ t[k].root = sessions[k].root
           /\ t[k].revoked <=> sessions[k].revoked \/ k = i
           /\ t[k].logged_out = sessions[k].logged_out
    BY <1>2, <1>3, <1>4 DEF SessionRow
  <1>6. i \in 0 .. Len(sessions)
    BY <1>2
  <1>7. /\ RowAdded(r, i)
        /\ \A k \in 1 .. Len(sessions) : sessions'[k] = t[k]
    BY <1>1, <1>4, <1>5, <1>6, AddedFact
  <1> QED
    BY <1>2, <1>5, <1>7

LEMMA LogoutRows ==
    ASSUME IInv, NEW r \in Requests, CommitLogout(r),
           NEW i, i = req[r].session
    PROVE  /\ i \in 1 .. Len(sessions)
           /\ RowsKept /\ Len(sessions') = Len(sessions)
           /\ \A k \in 1 .. Len(sessions) :
                 /\ sessions'[k].revoked <=> sessions[k].revoked \/ k = i
                 /\ sessions'[k].logged_out
                       => sessions[k].logged_out \/ k = i
  <1> DEFINE e == [sessions[i] EXCEPT !.revoked = TRUE, !.logged_out = TRUE]
  <1>1. /\ req[r].work = "logout"
        /\ sessions' = [sessions EXCEPT ![i] = e]
    BY DEF CommitLogout
  <1>2. /\ sessions \in Seq(SessionRow) /\ Len(sessions) \in Nat
        /\ i \in 1 .. Len(sessions) /\ sessions[i] \in SessionRow
        /\ \A k \in 1 .. Len(sessions) : sessions[k] \in SessionRow
    BY <1>1, ElementOfSeq DEF IInv, TypeOK, RequestsNamed
  <1>3. /\ e \in SessionRow /\ e.revoked
        /\ e.user = sessions[i].user
        /\ e.token_version = sessions[i].token_version
        /\ e.epoch = sessions[i].epoch /\ e.root = sessions[i].root
    BY <1>2 DEF SessionRow
  <1> HIDE DEF e
  <1>4. /\ Len(sessions') = Len(sessions)
        /\ \A k \in 1 .. Len(sessions) :
              sessions'[k] = IF k = i THEN e ELSE sessions[k]
    BY <1>1, <1>2, <1>3, ExceptSeq
  <1>5. RowsKept
    BY <1>2, <1>3, <1>4 DEF RowsKept
  <1> QED
    BY <1>2, <1>3, <1>4, <1>5 DEF SessionRow

LEMMA RevocationRows ==
    ASSUME IInv, NEW r \in Requests, CommitRevocation(r)
    PROVE  /\ RowsKept /\ Len(sessions') = Len(sessions)
           /\ \A k \in 1 .. Len(sessions) :
                 /\ sessions'[k].revoked
                       <=> sessions[k].revoked \/ k \in req[r].revoking
                 /\ sessions'[k].logged_out = sessions[k].logged_out
  <1>1. /\ Len(sessions) \in Nat
        /\ \A i \in 1 .. Len(sessions) : sessions[i] \in SessionRow
    BY ElementOfSeq DEF IInv, TypeOK
  <1> DEFINE Row(i) == IF i \in req[r].revoking
                       THEN [sessions[i] EXCEPT !.revoked = TRUE]
                       ELSE sessions[i]
  <1>2. \A i \in 1 .. Len(sessions) :
           /\ Row(i) \in SessionRow
           /\ Row(i).user = sessions[i].user
           /\ Row(i).token_version = sessions[i].token_version
           /\ Row(i).epoch = sessions[i].epoch
           /\ Row(i).root = sessions[i].root
           /\ Row(i).logged_out = sessions[i].logged_out
           /\ Row(i).revoked <=> sessions[i].revoked \/ i \in req[r].revoking
    BY <1>1 DEF SessionRow
  <1>3. sessions' = [i \in 1 .. Len(sessions) |-> Row(i)]
    BY DEF CommitRevocation
  <1> HIDE DEF Row
  <1>4. /\ Len(sessions') = Len(sessions)
        /\ \A i \in 1 .. Len(sessions) : sessions'[i] = Row(i)
    BY <1>1, <1>3
  <1> QED
    BY <1>1, <1>2, <1>4 DEF RowsKept

\* What a request has been called with stays true as long as the rows it has
\* read stay, or it becomes stale.
LEMMA CalledStays ==
    ASSUME IInv, HoldersInv, RowsKept, NEW q \in Requests,
           req'[q] \in Snapshot,
           req'[q].at # "idle" => /\ req[q].at # "idle"
                                  /\ req'[q].at = req[q].at,
           req'[q].work = req[q].work, req'[q].actor = req[q].actor,
           req'[q].target = req[q].target,
           req'[q].token_version = req[q].token_version,
           req'[q].session = req[q].session,
           req'[q].revoking = req[q].revoking,
           ~req'[q].stale /\ req[q].at # "idle" =>
               /\ ~req[q].stale
               /\ user'[req[q].actor] = user[req[q].actor]
               /\ user'[req[q].target] = user[req[q].target]
    PROVE  Called(q)'
  <1> SUFFICES ASSUME req'[q].at # "idle" PROVE Called(q)'
    BY DEF Called
  <1>1. Called(q) /\ req[q].at # "idle"
    BY DEF HoldersInv
  <1>2. ASSUME ~req'[q].stale, HasOpen(req[q].actor)
        PROVE  HasOpen(req[q].actor)'
    <2>1. PICK i \in 1 .. Len(sessions) :
             /\ sessions[i].user = req[q].actor
             /\ sessions[i].token_version = user[req[q].actor].token_version
      BY <1>2 DEF HasOpen
    <2>2. i \in 1 .. Len(sessions')
      BY DEF RowsKept
    <2> QED
      BY <1>1, <1>2, <2>1, <2>2 DEF HasOpen, RowsKept
  <1>3. req[q].work = "refresh" => req[q].session \in 1 .. Len(sessions)
    BY DEF IInv, RequestsNamed
  <1>4. \A i \in 1 .. Len(sessions) : i \in 1 .. Len(sessions')
    BY DEF RowsKept
  <1>5. /\ req'[q].work \notin AdminWorks => req'[q].actor = req'[q].target
        /\ req'[q].work = "refresh" =>
              /\ sessions'[req'[q].session].user = req'[q].target
              /\ sessions'[req'[q].session].token_version
                    = req'[q].token_version
    BY <1>1, <1>3 DEF Called, RowsKept
  <1>6. req'[q].at = "flushed" =>
              /\ req'[q].work \in {"change_password", "deactivation"}
              /\ \A i \in req'[q].revoking :
                    /\ i \in 1 .. Len(sessions')
                    /\ sessions'[i].user = req'[q].target
    BY <1>1, <1>4 DEF Called, RowsKept
  <1>7. ~req'[q].stale =>
              /\ req'[q].token_version = user'[req'[q].target].token_version
              /\ req'[q].work # "logout" => user'[req'[q].actor].active
              /\ req'[q].work \in AdminWorks \cup {"change_password"}
                    => HasOpen(req[q].actor)'
    BY <1>1, <1>2 DEF Called
  <1> QED
    BY <1>5, <1>6, <1>7 DEF Called

\* The requests that do not commit, and the one that does.
LEMMA CommitCalled ==
    ASSUME IInv, HoldersInv, RowsKept, NEW r \in Requests, NEW us, NEW ss,
           Commit(r, us, ss),
           \A u \in Users : u \notin us => user'[u] = user[u]
    PROVE  \A q \in Requests : Called(q)'
  <1> SUFFICES ASSUME NEW q \in Requests PROVE Called(q)'
    OBVIOUS
  <1>1. req \in [Requests -> Snapshot] /\ req' \in [Requests -> Snapshot]
    BY CommitFacts DEF IInv, TypeOK
  <1>2. CASE q = r
    <2>1. req'[q].at = "idle"
      BY <1>2, CommitFacts, IdleTyped
    <2> QED
      BY <2>1 DEF Called
  <1>3. CASE q # r
    <2>1. req[q].actor \in Users /\ req[q].target \in Users
      BY <1>1 DEF Snapshot
    <2>2. /\ req'[q].at = req[q].at /\ req'[q].work = req[q].work
          /\ req'[q].actor = req[q].actor /\ req'[q].target = req[q].target
          /\ req'[q].token_version = req[q].token_version
          /\ req'[q].session = req[q].session
          /\ req'[q].revoking = req[q].revoking
          /\ ~req'[q].stale =>
                /\ ~req[q].stale
                /\ req[q].at # "idle" => /\ req[q].actor \notin us
                                         /\ req[q].target \notin us
      BY <1>3, CommitFacts
    <2> QED
      BY <1>1, <2>1, <2>2, CalledStays
  <1> QED
    BY <1>2, <1>3

\* A step of one request that changes no row.
LEMMA CalledByOne ==
    ASSUME IInv, HoldersInv, NEW r \in Requests, NEW s \in Snapshot,
           req' = [req EXCEPT ![r] = s],
           UNCHANGED <<user, epoch, sessions, lost, raced>>,
           Called(r)'
    PROVE  HoldersInv'
  <1>1. /\ req \in [Requests -> Snapshot] /\ req' \in [Requests -> Snapshot]
        /\ \A q \in Requests : q # r => req'[q] = req[q]
        /\ Len(sessions) \in Nat
    BY DEF IInv, TypeOK
  <1>2. RowsKept
    BY <1>1 DEF RowsKept
  <1>3. ASSUME NEW q \in Requests PROVE Called(q)'
    <2>1. CASE q # r
      BY <1>1, <1>2, <2>1, CalledStays
    <2> QED
      BY <2>1
  <1> QED
    BY <1>3 DEF HoldersInv, SessionsOld

LEMMA ReadCalled ==
    ASSUME IInv, HoldersInv, NEW r \in Requests,
           NEW step \in {"principal", "read"}, NEW work \in Works,
           NEW actor \in Users, NEW u \in Users, NEW i \in 0 .. Len(sessions),
           Read(r, step, work, actor, u, i),
           work \notin AdminWorks => actor = u,
           work = "refresh" =>
              /\ sessions[i].user = u
              /\ sessions[i].token_version = user[u].token_version,
           ~req[r].stale => /\ work # "logout" => user[actor].active
                            /\ work \in AdminWorks \cup {"change_password"}
                                  => HasOpen(actor)
    PROVE  HoldersInv'
  <1> DEFINE s == [Idle EXCEPT !.at = step, !.work = work, !.actor = actor,
                               !.target = u, !.session = i,
                               !.token_version = user[u].token_version,
                               !.epoch = epoch[u], !.stale = @ \/ req[r].stale]
  <1>1. /\ user[u] \in UserRow /\ epoch[u] \in 1 .. MaxEpoch
        /\ Len(sessions) \in Nat /\ Len(sessions) <= MaxSessions
        /\ req[r].stale \in BOOLEAN
    BY DEF IInv, TypeOK, Snapshot
  <1>2. s \in Snapshot
    <2>1. i \in 0 .. MaxSessions
      BY <1>1, LimitsAssumption
    <2>2. user[u].token_version \in 1 .. MaxEpoch
      BY <1>1 DEF UserRow
    <2>3. (Idle.stale \/ req[r].stale) \in BOOLEAN
      OBVIOUS
    <2>4. step \in Steps
      BY DEF Steps
    <2> QED
      BY <1>1, <2>1, <2>2, <2>3, <2>4, IdleTyped DEF Snapshot
  <1>3. /\ s.at = step /\ s.work = work /\ s.actor = actor /\ s.target = u
        /\ s.session = i /\ s.token_version = user[u].token_version
        /\ (~s.stale => ~req[r].stale)
    BY IdleTyped DEF Snapshot
  <1>4. /\ req' = [req EXCEPT ![r] = s]
        /\ UNCHANGED <<user, epoch, sessions, lost, raced>>
    BY DEF Read
  <1> HIDE DEF s
  <1>5. req'[r] = s
    BY <1>4 DEF IInv, TypeOK
  <1>6. step # "flushed"
    OBVIOUS
  <1>7. Called(r)'
    BY <1>3, <1>4, <1>5, <1>6 DEF Called, HasOpen
  <1> QED
    BY <1>2, <1>4, <1>7, CalledByOne

\* A token that is accepted shows that its user has an open session.
LEMMA OpenFact ==
    ASSUME IInv, NEW i \in 1 .. Len(sessions), VersionHolds(i)
    PROVE  /\ sessions[i].user \in Users
           /\ user[sessions[i].user].active
           /\ HasOpen(sessions[i].user)
  <1>1. sessions[i] \in SessionRow
    BY ElementOfSeq DEF IInv, TypeOK
  <1> QED
    BY <1>1 DEF VersionHolds, HasOpen, SessionRow

LEMMA ReadingCalled ==
    ASSUME IInv, HoldersInv, NEW r \in Requests,
           \/ \E u \in Users : Login(r, u)
           \/ \E i \in 1 .. Len(sessions) :
                 \/ Refresh(r, i) \/ Logout(r, i)
                 \/ ChangePassword(r, i) \/ AdminOnly(r, i)
           \/ \E u \in Users : UpdateUserStatus(r, u)
    PROVE  HoldersInv'
  <1>0. /\ \A i \in 1 .. Len(sessions) : sessions[i] \in SessionRow
        /\ req[r] \in Snapshot
        /\ Len(sessions) \in Nat /\ 0 \in 0 .. Len(sessions)
        /\ \A i \in 1 .. Len(sessions) : i \in 0 .. Len(sessions)
    BY ElementOfSeq DEF IInv, TypeOK
  <1>1. ASSUME NEW u \in Users, Login(r, u) PROVE HoldersInv'
    BY <1>0, <1>1, ReadCalled DEF Login, Works, AdminWorks
  <1>2. ASSUME NEW i \in 1 .. Len(sessions), Refresh(r, i) PROVE HoldersInv'
    <2>1. VersionHolds(i) /\ Read(r, "read", "refresh", sessions[i].user,
                                  sessions[i].user, i)
      BY <1>2 DEF Refresh, Refreshable
    <2> QED
      BY <1>0, <2>1, OpenFact, ReadCalled
      DEF VersionHolds, Works, AdminWorks
  <1>3. ASSUME NEW i \in 1 .. Len(sessions), Logout(r, i) PROVE HoldersInv'
    BY <1>0, <1>3, ReadCalled DEF Logout, SessionRow, Works, AdminWorks
  <1>4. ASSUME NEW i \in 1 .. Len(sessions), ChangePassword(r, i)
        PROVE  HoldersInv'
    <2>1. VersionHolds(i) /\ Read(r, "read", "change_password",
                                  sessions[i].user, sessions[i].user, 0)
      BY <1>4 DEF ChangePassword, Accepted
    <2> QED
      BY <1>0, <2>1, OpenFact, ReadCalled DEF Works, AdminWorks
  <1>5. ASSUME NEW i \in 1 .. Len(sessions), AdminOnly(r, i) PROVE HoldersInv'
    <2>1. VersionHolds(i) /\ Read(r, "principal", "update_user_status",
                                  sessions[i].user, sessions[i].user, 0)
      BY <1>5 DEF AdminOnly, Accepted
    <2> QED
      BY <1>0, <2>1, OpenFact, ReadCalled DEF Works, AdminWorks
  <1>6. ASSUME NEW u \in Users, UpdateUserStatus(r, u) PROVE HoldersInv'
    <2>1. req[r].at = "principal" /\ req[r].work = "update_user_status"
      BY <1>6 DEF IInv, RequestsNamed, UpdateUserStatus
    <2>2. req[r].actor \in Users
      BY <1>0 DEF Snapshot
    <2>3. ~req[r].stale => /\ user[req[r].actor].active
                           /\ HasOpen(req[r].actor)
      BY <2>1 DEF HoldersInv, Called, AdminWorks
    <2> DEFINE w == IF user[u].active THEN "deactivation" ELSE "activation"
    <2>4. w \in Works /\ w \in AdminWorks /\ w # "refresh"
      BY DEF Works, AdminWorks
    <2>5. Read(r, "read", w, req[r].actor, u, 0)
      BY <1>6 DEF UpdateUserStatus
    <2> HIDE DEF w
    <2> QED
      BY <1>0, <2>2, <2>3, <2>4, <2>5, ReadCalled
  <1> QED
    BY <1>1, <1>2, <1>3, <1>4, <1>5, <1>6

LEMMA RollBackCalled ==
    ASSUME IInv, HoldersInv, NEW r \in Requests, RollBack(r)
    PROVE  HoldersInv'
  <1>1. /\ Idle \in Snapshot /\ req' = [req EXCEPT ![r] = Idle]
        /\ UNCHANGED <<user, epoch, sessions, lost, raced>>
    BY IdleTyped DEF RollBack
  <1>2. req'[r].at = "idle"
    BY <1>1, IdleTyped DEF IInv, TypeOK
  <1>3. Called(r)'
    BY <1>2 DEF Called
  <1> QED
    BY <1>1, <1>3, CalledByOne

LEMMA RevokeCalled ==
    ASSUME IInv, HoldersInv, NEW r \in Requests, RevokeSessions(r)
    PROVE  HoldersInv'
  <1> DEFINE s == [req[r] EXCEPT !.at = "flushed",
                                 !.revoking = UnrevokedOf(req[r].target)]
  <1>0. /\ req[r] \in Snapshot
        /\ Len(sessions) \in Nat /\ Len(sessions) <= MaxSessions
    BY DEF IInv, TypeOK
  <1>1. UnrevokedOf(req[r].target) \in SUBSET (1 .. MaxSessions)
    BY <1>0, LimitsAssumption DEF UnrevokedOf
  <1>2. /\ s \in Snapshot /\ s.at = "flushed" /\ s.work = req[r].work
        /\ s.actor = req[r].actor /\ s.target = req[r].target
        /\ s.token_version = req[r].token_version
        /\ s.session = req[r].session /\ s.stale = req[r].stale
        /\ s.revoking = UnrevokedOf(req[r].target)
    BY <1>0, <1>1 DEF Snapshot, Steps
  <1>3. /\ req' = [req EXCEPT ![r] = s]
        /\ UNCHANGED <<user, epoch, sessions, lost, raced>>
        /\ req[r].work \in {"change_password", "deactivation"}
        /\ req[r].at = "read"
    BY DEF RevokeSessions
  <1> HIDE DEF s
  <1>4. req'[r] = s
    BY <1>3 DEF IInv, TypeOK
  <1>5. Called(r)
    BY DEF HoldersInv
  <1>6. \A i \in req'[r].revoking :
           i \in 1 .. Len(sessions) /\ sessions[i].user = req[r].target
    BY <1>2, <1>4 DEF UnrevokedOf
  <1>7. Called(r)'
    BY <1>2, <1>3, <1>4, <1>5, <1>6 DEF Called, HasOpen
  <1> QED
    BY <1>2, <1>3, <1>7, CalledByOne

LEMMA ExpireRows ==
    ASSUME IInv, NEW i \in 1 .. Len(sessions), Expire(i)
    PROVE  /\ RowsKept /\ Len(sessions') = Len(sessions)
           /\ \A k \in 1 .. Len(sessions) :
                 /\ sessions'[k].revoked = sessions[k].revoked
                 /\ sessions'[k].logged_out = sessions[k].logged_out
  <1> DEFINE e == [sessions[i] EXCEPT !.tokens = @ - 1]
  <1>1. /\ sessions \in Seq(SessionRow) /\ Len(sessions) \in Nat
        /\ sessions[i] \in SessionRow /\ sessions[i].tokens > 0
        /\ sessions' = [sessions EXCEPT ![i] = e]
    BY ElementOfSeq DEF IInv, TypeOK, Expire
  <1>2. /\ e \in SessionRow /\ e.user = sessions[i].user
        /\ e.token_version = sessions[i].token_version
        /\ e.epoch = sessions[i].epoch /\ e.root = sessions[i].root
        /\ e.revoked = sessions[i].revoked
        /\ e.logged_out = sessions[i].logged_out
    <2>1. sessions[i].tokens - 1 \in 0 .. 2
      BY <1>1 DEF SessionRow
    <2> QED
      BY <1>1, <2>1 DEF SessionRow
  <1> HIDE DEF e
  <1>3. /\ Len(sessions') = Len(sessions)
        /\ \A k \in 1 .. Len(sessions) :
              sessions'[k] = IF k = i THEN e ELSE sessions[k]
    BY <1>1, <1>2, ExceptSeq
  <1> QED
    BY <1>1, <1>2, <1>3 DEF RowsKept

LEMMA ExpireCalled ==
    ASSUME IInv, HoldersInv, NEW i \in 1 .. Len(sessions), Expire(i)
    PROVE  HoldersInv'
  <1>1. UNCHANGED <<user, epoch, req, lost, raced>>
    BY DEF Expire
  <1>2. RowsKept /\ Len(sessions') = Len(sessions)
    BY ExpireRows
  <1>3. ASSUME NEW q \in Requests PROVE Called(q)'
    <2>1. req[q] \in Snapshot
      BY DEF IInv, TypeOK
    <2> QED
      BY <1>1, <1>2, <2>1, CalledStays
  <1> QED
    BY <1>1, <1>2, <1>3 DEF HoldersInv, SessionsOld, RowsKept

LEMMA IssueCalled ==
    ASSUME IInv, HoldersInv, NEW r \in Requests, NEW parent, NEW ss,
           RowAdded(r, parent), Commit(r, {}, ss),
           UNCHANGED <<user, epoch, lost>>
    PROVE  HoldersInv'
  <1>1. RowsKept /\ Len(sessions') = Len(sessions) + 1
    BY DEF RowAdded
  <1>2. \A q \in Requests : Called(q)'
    BY <1>1, CommitCalled
  <1>3. SessionsOld'
    <2> SUFFICES ASSUME NEW i \in 1 .. Len(sessions')
                 PROVE  sessions'[i].epoch <= epoch[sessions'[i].user]
      BY DEF SessionsOld
    <2>1. CASE i = Len(sessions) + 1
      BY <2>1 DEF RowAdded, IInv, VersionsCount
    <2>2. CASE i \in 1 .. Len(sessions)
      BY <1>1, <2>2 DEF HoldersInv, SessionsOld, RowsKept
    <2> QED
      BY <1>1, <2>1, <2>2 DEF RowsKept
  <1>4. lost' => raced'
    BY DEF HoldersInv, Commit
  <1> QED
    BY <1>2, <1>3, <1>4 DEF HoldersInv

\* A commit that adds no session.
LEMMA ChangeCalled ==
    ASSUME IInv, HoldersInv, NEW r \in Requests, NEW us, NEW ss,
           RowsKept, Len(sessions') = Len(sessions), Commit(r, us, ss),
           \A u \in Users : u \notin us => user'[u] = user[u],
           \A u \in Users : epoch'[u] \in Nat /\ epoch'[u] >= epoch[u],
           lost' => lost \/ req[r].stale
    PROVE  HoldersInv'
  <1>1. \A q \in Requests : Called(q)'
    BY CommitCalled
  <1>2. SessionsOld'
    <2> SUFFICES ASSUME NEW i \in 1 .. Len(sessions)
                 PROVE  sessions'[i].epoch <= epoch'[sessions'[i].user]
      BY DEF SessionsOld
    <2>1. sessions[i] \in SessionRow /\ epoch \in [Users -> 1 .. MaxEpoch]
      BY ElementOfSeq DEF IInv, TypeOK
    <2>2. /\ sessions[i].user \in Users /\ sessions[i].epoch \in Nat
          /\ epoch[sessions[i].user] \in Nat
      BY <2>1, LimitsAssumption DEF SessionRow
    <2>3. sessions[i].epoch <= epoch[sessions[i].user]
      BY DEF HoldersInv, SessionsOld
    <2>4. /\ epoch'[sessions[i].user] \in Nat
          /\ epoch'[sessions[i].user] >= epoch[sessions[i].user]
      BY <2>2
    <2>5. sessions[i].epoch <= epoch'[sessions[i].user]
      BY <2>2, <2>3, <2>4
    <2> QED
      BY <2>5 DEF RowsKept
  <1>3. lost' => raced'
    BY DEF HoldersInv, Commit
  <1> QED
    BY <1>1, <1>2, <1>3 DEF HoldersInv

\* What a password change or a deactivation writes.
LEMMA RevocationFacts ==
    ASSUME IInv, HoldersInv, NEW r \in Requests, CommitRevocation(r)
    PROVE  LET u == req[r].target IN
           /\ u \in Users /\ req[r].work \in {"change_password", "deactivation"}
           /\ Commit(r, {u}, req[r].revoking)
           /\ \A v \in Users : epoch'[v] \in Nat /\ epoch'[v] >= epoch[v]
           /\ \A v \in Users : v # u => user'[v] = user[v]
           /\ user'[u].active
                 <=> user[u].active /\ req[r].work # "deactivation"
           /\ user'[u].token_version = req[r].token_version + 1
           /\ lost' <=> lost \/ req[r].token_version # user[u].token_version
           /\ ~req[r].stale => req[r].token_version = user[u].token_version
           /\ ~lost => user[u].token_version = epoch[u]
           /\ \A i \in req[r].revoking :
                 i \in 1 .. Len(sessions) /\ sessions[i].user = u
  <1> DEFINE u == req[r].target
  <1>1. /\ u \in Users /\ user \in [Users -> UserRow]
        /\ epoch \in [Users -> 1 .. MaxEpoch] /\ lost \in BOOLEAN
    BY DEF IInv, TypeOK, Snapshot
  <1>2. /\ req[r].at = "flushed" /\ Commit(r, {u}, req[r].revoking)
        /\ epoch' = [epoch EXCEPT ![u] = @ + 1]
        /\ lost' = (lost \/ req[r].token_version # user[u].token_version)
        /\ user' = [user EXCEPT ![u] =
                       [active |-> user[u].active
                                      /\ req[r].work # "deactivation",
                        token_version |-> Incremented(r)]]
    BY DEF CommitRevocation
  <1>3. \A v \in Users : epoch'[v] \in Nat /\ epoch'[v] >= epoch[v]
    BY <1>1, <1>2, LimitsAssumption
  <1>4. /\ \A v \in Users : v # u => user'[v] = user[v]
        /\ user'[u].active
              <=> user[u].active /\ req[r].work # "deactivation"
        /\ user'[u].token_version = req[r].token_version + 1
    BY <1>1, <1>2 DEF Incremented
  <1>5. /\ req[r].work \in {"change_password", "deactivation"}
        /\ ~req[r].stale => req[r].token_version = user[u].token_version
        /\ \A i \in req[r].revoking :
              i \in 1 .. Len(sessions) /\ sessions[i].user = u
    BY <1>2 DEF HoldersInv, Called
  <1>6. ~lost => user[u].token_version = epoch[u]
    BY <1>1 DEF IInv, VersionsCount
  <1> QED
    BY <1>1, <1>2, <1>3, <1>4, <1>5, <1>6

LEMMA ActivationFacts ==
    ASSUME IInv, NEW r \in Requests, CommitActivation(r),
           NEW u, u = req[r].target
    PROVE  /\ u \in Users /\ Commit(r, {u}, {})
           /\ UNCHANGED <<epoch, sessions, lost>>
           /\ \A v \in Users : v # u => user'[v] = user[v]
           /\ user'[u].active
           /\ user'[u].token_version = user[u].token_version
  <1>1. u \in Users /\ user \in [Users -> UserRow]
    BY DEF IInv, TypeOK, Snapshot
  <1>2. /\ Commit(r, {u}, {}) /\ UNCHANGED <<epoch, sessions, lost>>
        /\ user' = [user EXCEPT ![u] = [user[u] EXCEPT !.active = TRUE]]
    BY DEF CommitActivation
  <1> QED
    BY <1>1, <1>2 DEF UserRow

LEMMA NextHolders == IInv /\ HoldersInv /\ [Next]_vars => HoldersInv'
  <1> SUFFICES ASSUME IInv, HoldersInv, [Next]_vars PROVE HoldersInv'
    OBVIOUS
  <1>0. /\ Len(sessions) \in Nat /\ epoch \in [Users -> 1 .. MaxEpoch]
        /\ \A u \in Users : epoch[u] \in Nat /\ epoch[u] >= epoch[u]
    BY LimitsAssumption DEF IInv, TypeOK
  <1>1. CASE UNCHANGED vars
    BY <1>1 DEF vars, HoldersInv, Called, SessionsOld, HasOpen
  <1>2. CASE \E i \in 1 .. Len(sessions) : Expire(i)
    BY <1>2, ExpireCalled
  <1>3. ASSUME NEW r \in Requests,
               \/ \E u \in Users : Login(r, u)
               \/ \E i \in 1 .. Len(sessions) :
                     \/ Refresh(r, i) \/ Logout(r, i)
                     \/ ChangePassword(r, i) \/ AdminOnly(r, i)
               \/ \E u \in Users : UpdateUserStatus(r, u)
        PROVE  HoldersInv'
    BY <1>3, ReadingCalled
  <1>4. ASSUME NEW r \in Requests, RollBack(r) \/ RevokeSessions(r)
        PROVE  HoldersInv'
    BY <1>4, RollBackCalled, RevokeCalled
  <1>5. ASSUME NEW r \in Requests, CommitLogin(r) PROVE HoldersInv'
    <2>1. Commit(r, {}, {}) /\ UNCHANGED <<user, epoch, lost>>
      BY <1>5 DEF CommitLogin
    <2> QED
      BY <1>5, <2>1, LoginRows, IssueCalled
  <1>6. ASSUME NEW r \in Requests, CommitRefresh(r) PROVE HoldersInv'
    <2>1. /\ Commit(r, {}, {req[r].session})
          /\ UNCHANGED <<user, epoch, lost>>
      BY <1>6 DEF CommitRefresh
    <2> QED
      BY <1>6, <2>1, RefreshRows, IssueCalled
  <1>7. ASSUME NEW r \in Requests, CommitLogout(r) PROVE HoldersInv'
    <2>1. /\ Commit(r, {}, {req[r].session})
          /\ UNCHANGED <<user, epoch, lost>>
      BY <1>7 DEF CommitLogout
    <2>2. RowsKept /\ Len(sessions') = Len(sessions)
      BY <1>7, LogoutRows
    <2> QED
      BY <1>0, <2>1, <2>2, ChangeCalled
  <1>8. ASSUME NEW r \in Requests, CommitRevocation(r) PROVE HoldersInv'
    <2>1. RowsKept /\ Len(sessions') = Len(sessions)
      BY <1>8, RevocationRows
    <2>2. /\ Commit(r, {req[r].target}, req[r].revoking)
          /\ \A v \in Users : epoch'[v] \in Nat /\ epoch'[v] >= epoch[v]
          /\ \A v \in Users : v \notin {req[r].target} => user'[v] = user[v]
          /\ lost' => lost \/ req[r].stale
      BY <1>8, RevocationFacts
    <2> QED
      BY <2>1, <2>2, ChangeCalled
  <1>9. ASSUME NEW r \in Requests, CommitActivation(r) PROVE HoldersInv'
    <2>1. /\ Commit(r, {req[r].target}, {})
          /\ UNCHANGED <<epoch, sessions, lost>>
          /\ \A v \in Users : v \notin {req[r].target} => user'[v] = user[v]
      BY <1>9, ActivationFacts
    <2>2. RowsKept /\ Len(sessions') = Len(sessions)
      BY <1>0, <2>1 DEF RowsKept
    <2> QED
      BY <1>0, <2>1, <2>2, ChangeCalled
  <1> QED
    BY <1>1, <1>2, <1>3, <1>4, <1>5, <1>6, <1>7, <1>8, <1>9 DEF Next

\* Every request in flight works for whom it says, and, while it is not
\* stale, on the word of an open session.
THEOREM HoldersInvariance == Spec => []HoldersInv
  BY InitHolders, NextHolders, InvariantHolds, PTL DEF Spec

-----------------------------------------------------------------------------
(* Each step is a step of the promise.                                     *)

Links == [user : Users, root : 1 .. MaxSessions]

\* Chain as a sequence.
ChainFormed ==
    /\ Chain \in Seq(Links)
    /\ Len(Chain) = Len(sessions) /\ Len(sessions) \in Nat
    /\ DOMAIN Chain = 1 .. Len(sessions)
    /\ \A i \in 1 .. Len(sessions) :
          /\ Chain[i] = [user |-> sessions[i].user, root |-> sessions[i].root]
          /\ Chain[i].user = sessions[i].user
          /\ Chain[i].root = sessions[i].root
          /\ sessions[i].user \in Users

LEMMA ChainFact == IInv => ChainFormed
  <1> SUFFICES ASSUME IInv PROVE ChainFormed
    OBVIOUS
  <1>1. /\ Len(sessions) \in Nat
        /\ \A i \in 1 .. Len(sessions) : sessions[i] \in SessionRow
    BY ElementOfSeq DEF IInv, TypeOK
  <1> DEFINE Row(i) == [user |-> sessions[i].user, root |-> sessions[i].root]
  <1>2. \A i \in 1 .. Len(sessions) :
           /\ Row(i) \in Links
           /\ Row(i).user = sessions[i].user
           /\ Row(i).root = sessions[i].root
           /\ sessions[i].user \in Users
    BY <1>1 DEF SessionRow, Links
  <1>3. Chain = [i \in 1 .. Len(sessions) |-> Row(i)]
    BY DEF Chain
  <1>4. \A i \in 1 .. Len(sessions) :
           Row(i) = [user |-> sessions[i].user, root |-> sessions[i].root]
    OBVIOUS
  <1> HIDE DEF Row
  <1>5. /\ Chain \in Seq(Links)
        /\ Len(Chain) = Len(sessions)
        /\ DOMAIN Chain = 1 .. Len(sessions)
        /\ \A i \in 1 .. Len(sessions) : Chain[i] = Row(i)
    BY <1>1, <1>2, <1>3
  <1> QED
    BY <1>1, <1>2, <1>4, <1>5 DEF ChainFormed

LEMMA ChainStays ==
    ASSUME IInv, IInv', RowsKept, Len(sessions') = Len(sessions)
    PROVE  Chain' = Chain
  <1>1. \A i \in 1 .. Len(sessions) :
           [user |-> sessions'[i].user, root |-> sessions'[i].root]
              = [user |-> sessions[i].user, root |-> sessions[i].root]
    BY DEF RowsKept
  <1> QED
    BY <1>1 DEF Chain

LEMMA ChainGrows ==
    ASSUME IInv, IInv', NEW r \in Requests, NEW parent, RowAdded(r, parent)
    PROVE  Chain' = Append(Chain, [user |-> req[r].target,
                                   root |-> Root(parent)])
  <1> DEFINE n == Len(sessions) + 1
             e == [user |-> req[r].target, root |-> Root(parent)]
  <1>1. /\ RowsKept /\ Len(sessions') = n
        /\ sessions'[n].user = req[r].target
        /\ sessions'[n].root = Root(parent)
    BY DEF RowAdded
  <1>2. /\ Chain \in Seq(Links) /\ Len(Chain) = Len(sessions)
        /\ Len(sessions) \in Nat
        /\ \A i \in 1 .. Len(sessions) :
              Chain[i] = [user |-> sessions[i].user, root |-> sessions[i].root]
    BY ChainFact DEF ChainFormed
  <1>3. /\ Chain' \in Seq(Links) /\ Len(Chain') = n
        /\ \A i \in 1 .. n :
              Chain'[i] = [user |-> sessions'[i].user,
                           root |-> sessions'[i].root]
    <2>1. ChainFormed'
      BY ChainFact, PTL
    <2> QED
      BY <1>1, <2>1 DEF ChainFormed
  <1>4. Chain'[n] = e
    BY <1>1, <1>2, <1>3
  <1>5. \A i \in 1 .. Len(sessions) : Chain'[i] = Chain[i]
    BY <1>1, <1>2, <1>3 DEF RowsKept
  <1>6. e \in Links
    BY <1>2, <1>3, <1>4, ElementOfSeq
  <1> HIDE DEF e
  <1>7. /\ Append(Chain, e) \in Seq(Links) /\ Len(Append(Chain, e)) = n
        /\ \A i \in 1 .. n : Append(Chain, e)[i] = Chain'[i]
    BY <1>2, <1>4, <1>5, <1>6, AppendProperties
  <1>8. Chain' = Append(Chain, e)
    BY <1>3, <1>7, SeqEqual
  <1> QED
    BY <1>8 DEF e

LEMMA InitPromises == Init => Promise!Init
  <1> SUFFICES ASSUME Init PROVE Promise!Init
    OBVIOUS
  <1>1. sessions = << >> /\ \A u \in Users : user[u].active
    BY DEF Init
  <1>2. ActiveUsers = Users
    BY <1>1 DEF ActiveUsers
  <1>3. Chain = << >> /\ Ended = {} /\ Spent = {}
    BY <1>1 DEF Chain, Ended, Spent
  <1> QED
    BY <1>2, <1>3 DEF Init, Promise!Init

\* An open session of an active user, as the promise has it.
LEMMA OpenKept ==
    ASSUME IInv, NEW u \in Users, HasOpen(u), user[u].active
    PROVE  \E i \in Promise!Of(u) : Promise!Open(i)
  <1>1. PICK i \in 1 .. Len(sessions) :
           /\ sessions[i].user = u
           /\ sessions[i].token_version = user[u].token_version
    BY DEF HasOpen
  <1>2. DOMAIN Chain = 1 .. Len(sessions) /\ Chain[i].user = u
    BY <1>1, ChainFact DEF ChainFormed
  <1>3. i \notin Ended /\ u \in ActiveUsers
    BY <1>1 DEF Ended, ActiveUsers
  <1>4. i \in Promise!Of(u) /\ Promise!Open(i)
    BY <1>2, <1>3 DEF Promise!Of, Promise!Open
  <1> QED
    BY <1>4

LEMMA OfFact ==
    ASSUME IInv, NEW u
    PROVE  Promise!Of(u) = {i \in 1 .. Len(sessions) : sessions[i].user = u}
  BY ChainFact DEF Promise!Of, ChainFormed

LEMMA LoginPromised ==
    ASSUME IInv, IInv', HoldersInv, NEW r \in Requests, CommitLogin(r)
    PROVE  Promise!Next
  <1> DEFINE u == req[r].target
             n == Len(sessions) + 1
  <1>1. /\ RowAdded(r, 0)
        /\ \A i \in 1 .. Len(sessions) : sessions'[i] = sessions[i]
    BY LoginRows
  <1>2. /\ UNCHANGED <<user, lost>> /\ Commit(r, {}, {})
        /\ req[r].at = "read" /\ req[r].work = "login"
    BY DEF CommitLogin
  <1>3. u \in Users /\ Len(sessions) \in Nat
    BY DEF IInv, TypeOK, Snapshot
  <1>4. /\ Len(Chain) + 1 = n
        /\ Chain' = Append(Chain, [user |-> u, root |-> n])
    BY <1>1, ChainFact, ChainGrows DEF ChainFormed, Root
  <1>5. /\ Len(sessions') = n /\ sessions'[n].user = u
        /\ sessions'[n].token_version = req[r].token_version
        /\ ~sessions'[n].revoked
    BY <1>1 DEF RowAdded
  <1>6. /\ Ended' = IF req[r].token_version # user[u].token_version
                    THEN Ended \cup {n} ELSE Ended
        /\ Spent' = Spent /\ ActiveUsers' = ActiveUsers
    BY <1>1, <1>2, <1>3, <1>5 DEF Ended, Spent, ActiveUsers
  <1>7. n \notin Ended
    BY <1>3 DEF Ended
  <1>8. ~raced' => u \in ActiveUsers /\ n \notin Ended'
    <2> SUFFICES ASSUME ~raced' PROVE u \in ActiveUsers /\ n \notin Ended'
      OBVIOUS
    <2>1. ~req[r].stale
      BY <1>2, CommitFacts
    <2>2. req[r].token_version = user[u].token_version /\ user[u].active
      BY <1>2, <2>1 DEF HoldersInv, Called, AdminWorks
    <2> QED
      BY <1>3, <1>6, <1>7, <2>2 DEF ActiveUsers
  <1>9. raced => raced'
    BY <1>2 DEF Commit
  <1>10. Ended' \in {Ended, Ended \cup {n}}
    BY <1>6
  <1> HIDE DEF u, n
  <1>11. Promise!SignIn(u)
    BY <1>2, <1>4, <1>6, <1>8, <1>10 DEF Promise!SignIn
  <1> QED
    BY <1>3, <1>9, <1>11 DEF Promise!Next

LEMMA RefreshPromised ==
    ASSUME IInv, IInv', HoldersInv, NEW r \in Requests, CommitRefresh(r)
    PROVE  Promise!Next
  <1> DEFINE i == req[r].session
             n == Len(sessions) + 1
  <1>1. /\ i \in 1 .. Len(sessions) /\ RowAdded(r, i)
        /\ \A k \in 1 .. Len(sessions) :
              sessions'[k].revoked <=> sessions[k].revoked \/ k = i
    BY RefreshRows
  <1>2. /\ UNCHANGED <<user, lost>> /\ Commit(r, {}, {i})
        /\ req[r].at = "read" /\ req[r].work = "refresh"
    BY DEF CommitRefresh
  <1>3. Called(r) /\ Len(sessions) \in Nat
    BY DEF HoldersInv, IInv, TypeOK
  <1>4. /\ sessions[i].user = req[r].target
        /\ sessions[i].token_version = req[r].token_version
    BY <1>2, <1>3 DEF Called
  <1>5. /\ Len(Chain) + 1 = n /\ DOMAIN Chain = 1 .. Len(sessions)
        /\ Chain' = Append(Chain, Chain[i]) /\ Chain[i].user = sessions[i].user
        /\ sessions[i].user \in Users
    <2>1. Chain' = Append(Chain, [user |-> req[r].target, root |-> Root(i)])
      BY <1>1, ChainGrows
    <2>2. Root(i) = sessions[i].root
      BY <1>1, <1>3 DEF Root
    <2> QED
      BY <1>1, <1>4, <2>1, <2>2, ChainFact DEF ChainFormed
  <1>6. /\ Len(sessions') = n /\ sessions'[n].user = sessions[i].user
        /\ sessions'[n].token_version = sessions[i].token_version
        /\ ~sessions'[n].revoked /\ RowsKept
    BY <1>1, <1>4 DEF RowAdded
  <1>7. Ended' = IF i \in Ended THEN Ended \cup {n} ELSE Ended
    BY <1>1, <1>2, <1>3, <1>6 DEF Ended, RowsKept
  <1>8. Spent' = Spent \cup {i} /\ ActiveUsers' = ActiveUsers
    BY <1>1, <1>2, <1>3, <1>6 DEF Spent, ActiveUsers
  <1>9. ~raced' => Promise!Open(i) /\ i \notin Spent
    <2> SUFFICES ASSUME ~raced' PROVE Promise!Open(i) /\ i \notin Spent
      OBVIOUS
    <2>1. ~req[r].stale
      BY <1>2, CommitFacts
    <2>2. ~sessions[i].revoked
      BY <1>2, <2>1 DEF IInv, RequestsFresh
    <2>3. /\ req[r].token_version = user[sessions[i].user].token_version
          /\ user[sessions[i].user].active
      BY <1>2, <1>3, <1>4, <2>1 DEF Called, AdminWorks
    <2>4. sessions[i].user \in ActiveUsers /\ i \notin Ended /\ i \notin Spent
      BY <1>4, <1>5, <2>2, <2>3 DEF ActiveUsers, Ended, Spent
    <2> QED
      BY <1>5, <2>4 DEF Promise!Open
  <1>10. raced => raced'
    BY <1>2 DEF Commit
  <1> HIDE DEF i, n
  <1>11. Promise!Exchange(i)
    BY <1>2, <1>5, <1>7, <1>8, <1>9 DEF Promise!Exchange
  <1> QED
    BY <1>1, <1>5, <1>10, <1>11 DEF Promise!Next

LEMMA LogoutPromised ==
    ASSUME IInv, IInv', HoldersInv, NEW r \in Requests, CommitLogout(r)
    PROVE  Promise!Next
  <1> DEFINE i == req[r].session
  <1>1. /\ i \in 1 .. Len(sessions)
        /\ RowsKept /\ Len(sessions') = Len(sessions)
        /\ \A k \in 1 .. Len(sessions) :
              sessions'[k].revoked <=> sessions[k].revoked \/ k = i
    BY LogoutRows
  <1>2. /\ UNCHANGED <<user, lost>> /\ Commit(r, {}, {i})
        /\ req[r].at = "read" /\ req[r].work = "logout"
    BY DEF CommitLogout
  <1>3. Chain' = Chain /\ DOMAIN Chain = 1 .. Len(sessions)
    BY <1>1, ChainStays, ChainFact DEF ChainFormed
  <1>4. /\ Ended' = Ended /\ ActiveUsers' = ActiveUsers
        /\ Spent' = Spent \cup {i}
    BY <1>1, <1>2 DEF Ended, ActiveUsers, Spent, RowsKept
  <1>5. ~raced' => i \notin Spent
    BY <1>2, CommitFacts DEF IInv, RequestsFresh, Spent
  <1>6. raced => raced'
    BY <1>2 DEF Commit
  <1> HIDE DEF i
  <1>7. Promise!SignOut(i)
    BY <1>2, <1>3, <1>4, <1>5 DEF Promise!SignOut
  <1> QED
    BY <1>1, <1>3, <1>6, <1>7 DEF Promise!Next

\* Every session of the user is behind the version that is written, unless an
\* increment is lost.
LEMMA RevocationRevokes ==
    ASSUME IInv, IInv', HoldersInv, NEW r \in Requests, CommitRevocation(r),
           NEW u, u = req[r].target
    PROVE  Promise!Revoke(u)
  <1>1. /\ RowsKept /\ Len(sessions') = Len(sessions)
        /\ \A k \in 1 .. Len(sessions) :
              sessions'[k].revoked
                 <=> sessions[k].revoked \/ k \in req[r].revoking
    BY RevocationRows
  <1>2. /\ u \in Users /\ Commit(r, {u}, req[r].revoking)
        /\ \A v \in Users : v # u => user'[v] = user[v]
        /\ user'[u].token_version = req[r].token_version + 1
        /\ lost' <=> lost \/ req[r].token_version # user[u].token_version
        /\ ~req[r].stale => req[r].token_version = user[u].token_version
        /\ ~lost => user[u].token_version = epoch[u]
        /\ \A i \in req[r].revoking :
              i \in 1 .. Len(sessions) /\ sessions[i].user = u
    BY RevocationFacts
  <1>3. \A i \in 1 .. Len(sessions) :
           /\ sessions[i].user \in Users
           /\ sessions[i].token_version \in Nat /\ sessions[i].epoch \in Nat
    <2>1. \A i \in 1 .. Len(sessions) : sessions[i] \in SessionRow
      BY ElementOfSeq DEF IInv, TypeOK
    <2> QED
      BY <2>1, LimitsAssumption DEF SessionRow
  <1>4. epoch[u] \in Nat /\ lost \in BOOLEAN
    BY <1>2, LimitsAssumption DEF IInv, TypeOK
  <1>5. Chain' = Chain
    BY <1>1, ChainStays
  <1>6. Ended' \ Promise!Of(u) = Ended \ Promise!Of(u)
    BY <1>1, <1>2, <1>3, OfFact DEF Ended, RowsKept
  <1>7. ~lost' => Ended' = Ended \cup Promise!Of(u)
    <2> SUFFICES ASSUME ~lost' PROVE Ended' = Ended \cup Promise!Of(u)
      OBVIOUS
    <2>1. ~lost /\ req[r].token_version = epoch[u]
      BY <1>2
    <2>2. \A i \in 1 .. Len(sessions) :
             sessions[i].user = u =>
                sessions[i].token_version # user'[u].token_version
      <3> SUFFICES ASSUME NEW i \in 1 .. Len(sessions), sessions[i].user = u
                   PROVE  sessions[i].token_version # user'[u].token_version
        OBVIOUS
      <3>1. sessions[i].token_version = sessions[i].epoch
        BY <2>1 DEF IInv, VersionsCount
      <3>2. sessions[i].epoch <= epoch[u]
        BY DEF HoldersInv, SessionsOld
      <3> QED
        BY <1>2, <1>3, <1>4, <2>1, <3>1, <3>2
    <2>3. Promise!Of(u) \subseteq Ended'
      BY <1>1, <2>2, OfFact DEF Ended, RowsKept
    <2> QED
      BY <1>6, <2>3
  <1>8. Spent \subseteq Spent' /\ Spent' \subseteq Spent \cup Promise!Of(u)
    BY <1>1, <1>2, OfFact DEF Spent
  <1>9. lost' => raced'
    BY <1>2 DEF HoldersInv, Commit
  <1>10. lost => lost'
    BY <1>2
  <1> QED
    BY <1>5, <1>6, <1>7, <1>8, <1>9, <1>10 DEF Promise!Revoke

LEMMA RevocationPromised ==
    ASSUME IInv, IInv', HoldersInv, NEW r \in Requests, CommitRevocation(r)
    PROVE  Promise!Next
  <1> DEFINE u == req[r].target
             a == req[r].actor
  <1>1. /\ u \in Users /\ req[r].work \in {"change_password", "deactivation"}
        /\ Commit(r, {u}, req[r].revoking)
        /\ \A v \in Users : v # u => user'[v] = user[v]
        /\ user'[u].active <=> user[u].active /\ req[r].work # "deactivation"
    BY RevocationFacts
  <1>2. req[r].at = "flushed" /\ a \in Users
    BY DEF CommitRevocation, IInv, TypeOK, Snapshot
  <1>3. Promise!Revoke(u)
    BY RevocationRevokes
  <1>4. ~raced' => \E i \in Promise!Of(a) : Promise!Open(i)
    <2> SUFFICES ASSUME ~raced' PROVE \E i \in Promise!Of(a) : Promise!Open(i)
      OBVIOUS
    <2>1. ~req[r].stale
      BY <1>1, CommitFacts
    <2>2. HasOpen(a) /\ user[a].active
      BY <1>1, <1>2, <2>1 DEF HoldersInv, Called, AdminWorks
    <2> QED
      BY <1>2, <2>2, OpenKept
  <1>5. raced => raced'
    BY <1>1 DEF Commit
  <1>6. CASE req[r].work = "change_password"
    <2>1. a = u
      BY <1>2, <1>6 DEF HoldersInv, Called, AdminWorks
    <2>2. ActiveUsers' = ActiveUsers
      BY <1>1, <1>6 DEF ActiveUsers
    <2>3. Promise!ChangePassword(u)
      BY <1>3, <1>4, <2>1, <2>2 DEF Promise!ChangePassword
    <2> QED
      BY <1>1, <1>5, <2>3 DEF Promise!Next
  <1>7. CASE req[r].work = "deactivation"
    <2>1. a \in Admins \ {u}
      BY <1>7 DEF IInv, RequestsNamed, AdminWorks
    <2>2. ActiveUsers' = ActiveUsers \ {u}
      BY <1>1, <1>7 DEF ActiveUsers
    <2>3. ~raced' => Promise!ByAnother(u)
      BY <1>4, <2>1 DEF Promise!ByAnother
    <2>4. Promise!Deactivate(u)
      BY <1>3, <2>2, <2>3 DEF Promise!Deactivate
    <2> QED
      BY <1>1, <1>5, <2>4 DEF Promise!Next
  <1> QED
    BY <1>1, <1>6, <1>7

LEMMA ActivationPromised ==
    ASSUME IInv, IInv', HoldersInv, NEW r \in Requests, CommitActivation(r)
    PROVE  Promise!Next
  <1> DEFINE u == req[r].target
             a == req[r].actor
  <1>1. /\ u \in Users /\ Commit(r, {u}, {})
        /\ UNCHANGED <<epoch, sessions, lost>>
        /\ \A v \in Users : v # u => user'[v] = user[v]
        /\ user'[u].active
        /\ user'[u].token_version = user[u].token_version
    BY ActivationFacts
  <1>2. /\ req[r].at = "read" /\ req[r].work = "activation" /\ a \in Users
        /\ Len(sessions) \in Nat
        /\ \A i \in 1 .. Len(sessions) : sessions[i].user \in Users
    BY ChainFact
    DEF CommitActivation, IInv, TypeOK, Snapshot, ChainFormed
  <1>3. ~raced' => Promise!ByAnother(u)
    <2> SUFFICES ASSUME ~raced' PROVE Promise!ByAnother(u)
      OBVIOUS
    <2>1. ~req[r].stale
      BY <1>1, CommitFacts
    <2>2. HasOpen(a) /\ user[a].active
      BY <1>2, <2>1 DEF HoldersInv, Called, AdminWorks
    <2>3. a \in Admins \ {u}
      BY <1>2 DEF IInv, RequestsNamed, AdminWorks
    <2>4. \E i \in Promise!Of(a) : Promise!Open(i)
      BY <1>2, <2>2, OpenKept
    <2> QED
      BY <2>3, <2>4 DEF Promise!ByAnother
  <1>4. Chain' = Chain
    BY <1>1 DEF Chain
  <1>5. /\ Ended' = Ended /\ Spent' = Spent
        /\ ActiveUsers' = ActiveUsers \cup {u}
    BY <1>1, <1>2 DEF Ended, Spent, ActiveUsers
  <1>6. raced => raced'
    BY <1>1 DEF Commit
  <1>7. Promise!Reactivate(u)
    BY <1>1, <1>3, <1>4, <1>5 DEF Promise!Reactivate
  <1> QED
    BY <1>1, <1>6, <1>7 DEF Promise!Next

\* Reading, locking, giving up and growing old are no steps of the promise.
LEMMA OthersPromised ==
    ASSUME IInv, IInv',
           \/ UNCHANGED vars
           \/ \E i \in 1 .. Len(sessions) : Expire(i)
           \/ \E r \in Requests :
                 \/ \E u \in Users : Login(r, u)
                 \/ \E i \in 1 .. Len(sessions) :
                       \/ Refresh(r, i) \/ Logout(r, i)
                       \/ ChangePassword(r, i) \/ AdminOnly(r, i)
                 \/ \E u \in Users : UpdateUserStatus(r, u)
                 \/ RollBack(r) \/ RevokeSessions(r)
    PROVE  UNCHANGED Promise!vars
  <1>1. CASE UNCHANGED <<user, sessions, lost, raced>>
    BY <1>1 DEF Promise!vars, ActiveUsers, Chain, Ended, Spent
  <1>2. CASE \E i \in 1 .. Len(sessions) : Expire(i)
    <2>1. /\ UNCHANGED <<user, lost, raced>>
          /\ RowsKept /\ Len(sessions') = Len(sessions)
          /\ \A k \in 1 .. Len(sessions) :
                sessions'[k].revoked = sessions[k].revoked
      BY <1>2, ExpireRows DEF Expire
    <2>2. Chain' = Chain
      BY <2>1, ChainStays
    <2>3. ActiveUsers' = ActiveUsers /\ Ended' = Ended /\ Spent' = Spent
      BY <2>1 DEF ActiveUsers, Ended, Spent, RowsKept
    <2> QED
      BY <2>1, <2>2, <2>3 DEF Promise!vars
  <1> QED
    BY <1>1, <1>2
    DEF vars, Login, Refresh, Logout, ChangePassword, AdminOnly,
        UpdateUserStatus, Read, RollBack, RevokeSessions

\* AuthSessions implements SessionPromise, for any users, requests and
\* bounds: handlers that read, lock and commit in separate steps sign in,
\* exchange, sign out and revoke in single ones; a session exchanged while
\* its user is revoked ends with the one it came from; and until a request
\* commits over a row that has changed, each of them acts on a session that
\* is still open or unspent (login, refresh, logout, change_password,
\* update_user_status).
THEOREM ImplementsPromise == Spec => KeepsSessions
  <1>1. IInv /\ IInv' /\ HoldersInv /\ [Next]_vars
           => [Promise!Next]_Promise!vars
    <2> SUFFICES ASSUME IInv, IInv', HoldersInv, [Next]_vars
                 PROVE  [Promise!Next]_Promise!vars
      OBVIOUS
    <2>1. ASSUME NEW r \in Requests,
                 \/ CommitLogin(r) \/ CommitRefresh(r) \/ CommitLogout(r)
                 \/ CommitRevocation(r) \/ CommitActivation(r)
          PROVE  Promise!Next
      BY <2>1, LoginPromised, RefreshPromised, LogoutPromised,
         RevocationPromised, ActivationPromised
    <2>2. CASE \/ UNCHANGED vars
               \/ \E i \in 1 .. Len(sessions) : Expire(i)
               \/ \E r \in Requests :
                     \/ \E u \in Users : Login(r, u)
                     \/ \E i \in 1 .. Len(sessions) :
                           \/ Refresh(r, i) \/ Logout(r, i)
                           \/ ChangePassword(r, i) \/ AdminOnly(r, i)
                     \/ \E u \in Users : UpdateUserStatus(r, u)
                     \/ RollBack(r) \/ RevokeSessions(r)
      BY <2>2, OthersPromised
    <2> QED
      BY <2>1, <2>2 DEF Next
  <1> QED
    BY InitPromises, InvariantHolds, HoldersInvariance, <1>1, PTL
    DEF Spec, KeepsSessions, Promise!Spec

-----------------------------------------------------------------------------
(* What may be concluded from the promise alone.                           *)

Members == [user : Users, root : Nat]

\* The root of a session is one of the sessions, so that a new one begins a
\* chain that nobody belongs to.
PromiseInv ==
    /\ Chain \in Seq(Members)
    /\ \A i \in DOMAIN Chain : Chain[i].root \in 1 .. Len(Chain)
    /\ Promise!OneTokenPerSignIn

LEMMA MembersGrow ==
    ASSUME Chain \in Seq(Members), NEW e \in Members, Chain' = Append(Chain, e)
    PROVE  /\ Chain' \in Seq(Members) /\ Len(Chain) \in Nat
           /\ Len(Chain') = Len(Chain) + 1
           /\ DOMAIN Chain = 1 .. Len(Chain)
           /\ DOMAIN Chain' = DOMAIN Chain \cup {Len(Chain) + 1}
           /\ \A i \in DOMAIN Chain : Chain'[i] = Chain[i]
           /\ Chain'[Len(Chain) + 1] = e
  <1>1. /\ Len(Chain) \in Nat /\ DOMAIN Chain = 1 .. Len(Chain)
        /\ Chain' \in Seq(Members) /\ Len(Chain') = Len(Chain) + 1
        /\ \A i \in 1 .. Len(Chain) : Chain'[i] = Chain[i]
        /\ Chain'[Len(Chain) + 1] = e
    BY AppendProperties
  <1>2. DOMAIN Chain' = 1 .. Len(Chain) + 1
    BY <1>1
  <1> QED
    BY <1>1, <1>2

\* A step that adds no session and gives back no token.
LEMMA SpendingKeeps ==
    ASSUME PromiseInv, raced => raced', Chain' = Chain, Spent \subseteq Spent'
    PROVE  PromiseInv'
  <1>1. Promise!OneTokenPerSignIn'
    BY DEF PromiseInv, Promise!OneTokenPerSignIn
  <1> QED
    BY <1>1 DEF PromiseInv

LEMMA SignInKeeps ==
    ASSUME PromiseInv, raced => raced', NEW u \in Users, Promise!SignIn(u)
    PROVE  PromiseInv'
  <1> DEFINE n == Len(Chain) + 1
             e == [user |-> u, root |-> n]
  <1>1. /\ Chain \in Seq(Members) /\ Len(Chain) \in Nat /\ Spent' = Spent
        /\ Chain' = Append(Chain, e)
        /\ \A i \in DOMAIN Chain : Chain[i].root \in 1 .. Len(Chain)
    BY DEF PromiseInv, Promise!SignIn
  <1>2. e \in Members /\ e.root = n
    BY <1>1 DEF Members
  <1> HIDE DEF e
  <1>3. /\ Chain' \in Seq(Members) /\ Len(Chain') = n
        /\ DOMAIN Chain' = DOMAIN Chain \cup {n}
        /\ \A i \in DOMAIN Chain : Chain'[i] = Chain[i]
        /\ Chain'[n] = e
    BY <1>1, <1>2, MembersGrow
  <1>4. \A i \in DOMAIN Chain' : Chain'[i].root \in 1 .. Len(Chain')
    BY <1>1, <1>2, <1>3
  <1>5. Promise!OneTokenPerSignIn'
    <2> SUFFICES ASSUME ~raced', NEW i \in DOMAIN Chain' \ Spent',
                        NEW j \in DOMAIN Chain' \ Spent',
                        Chain'[i].root = Chain'[j].root
                 PROVE  i = j
      BY DEF Promise!OneTokenPerSignIn
    <2>1. ~raced
      OBVIOUS
    <2>2. CASE i = n \/ j = n
      BY <1>1, <1>2, <1>3, <2>2
    <2>3. CASE i \in DOMAIN Chain /\ j \in DOMAIN Chain
      BY <1>1, <1>3, <2>1, <2>3 DEF PromiseInv, Promise!OneTokenPerSignIn
    <2> QED
      BY <1>3, <2>2, <2>3
  <1> QED
    BY <1>3, <1>4, <1>5 DEF PromiseInv

LEMMA ExchangeKeeps ==
    ASSUME PromiseInv, raced => raced', NEW i \in DOMAIN Chain,
           Promise!Exchange(i)
    PROVE  PromiseInv'
  <1> DEFINE n == Len(Chain) + 1
  <1>1. /\ Chain \in Seq(Members) /\ Spent' = Spent \cup {i}
        /\ Chain' = Append(Chain, Chain[i])
        /\ \A k \in DOMAIN Chain : Chain[k].root \in 1 .. Len(Chain)
        /\ ~raced' => i \notin Spent
    BY DEF PromiseInv, Promise!Exchange
  <1>2. Chain[i] \in Members
    BY <1>1, ElementOfSeq
  <1>3. /\ Chain' \in Seq(Members) /\ Len(Chain') = n /\ Len(Chain) \in Nat
        /\ DOMAIN Chain' = DOMAIN Chain \cup {n}
        /\ \A k \in DOMAIN Chain : Chain'[k] = Chain[k]
        /\ Chain'[n] = Chain[i]
    BY <1>1, <1>2, MembersGrow
  <1>4. \A k \in DOMAIN Chain' : Chain'[k].root \in 1 .. Len(Chain')
    BY <1>1, <1>3
  <1>5. Promise!OneTokenPerSignIn'
    <2> SUFFICES ASSUME ~raced', NEW j \in DOMAIN Chain' \ Spent',
                        NEW k \in DOMAIN Chain' \ Spent',
                        Chain'[j].root = Chain'[k].root
                 PROVE  j = k
      BY DEF Promise!OneTokenPerSignIn
    <2>1. \A l \in DOMAIN Chain \ Spent : Chain[l].root = Chain[i].root
                                             => l = i
      BY <1>1 DEF PromiseInv, Promise!OneTokenPerSignIn
    <2>2. CASE j = n \/ k = n
      BY <1>1, <1>3, <2>1, <2>2
    <2>3. CASE j \in DOMAIN Chain /\ k \in DOMAIN Chain
      BY <1>1, <1>3, <2>3 DEF PromiseInv, Promise!OneTokenPerSignIn
    <2> QED
      BY <1>3, <2>2, <2>3
  <1> QED
    BY <1>3, <1>4, <1>5 DEF PromiseInv

LEMMA PromiseInvariance == Promise!Spec => []PromiseInv
  <1>1. Promise!Init => PromiseInv
    BY DEF Promise!Init, PromiseInv, Promise!OneTokenPerSignIn
  <1>2. PromiseInv /\ [Promise!Next]_Promise!vars => PromiseInv'
    <2> SUFFICES ASSUME PromiseInv, [Promise!Next]_Promise!vars
                 PROVE  PromiseInv'
      OBVIOUS
    <2>1. CASE UNCHANGED Promise!vars
      BY <2>1, SpendingKeeps DEF Promise!vars
    <2>2. ASSUME raced => raced', NEW u \in Users,
                 \/ Promise!ChangePassword(u) \/ Promise!Deactivate(u)
                 \/ Promise!Reactivate(u)
          PROVE  PromiseInv'
      BY <2>2, SpendingKeeps
      DEF Promise!ChangePassword, Promise!Deactivate, Promise!Reactivate,
          Promise!Revoke
    <2>3. ASSUME raced => raced', NEW i \in DOMAIN Chain, Promise!SignOut(i)
          PROVE  PromiseInv'
      BY <2>3, SpendingKeeps DEF Promise!SignOut
    <2> QED
      BY <2>1, <2>2, <2>3, SignInKeeps, ExchangeKeeps DEF Promise!Next
  <1> QED
    BY <1>1, <1>2, PTL DEF Promise!Spec

\* Whatever keeps the promise, a sign-in is worth one refresh token at a
\* time.
THEOREM OneTokenEach == Promise!Spec => []Promise!OneTokenPerSignIn
  <1>1. PromiseInv => Promise!OneTokenPerSignIn
    BY DEF PromiseInv
  <1> QED
    BY <1>1, PromiseInvariance, PTL

\* Whatever keeps the promise, a sign-in without a token left is over for
\* good.
THEOREM SignInsAreOver == Promise!Spec => Promise!SignInsEnd
  <1>1. PromiseInv /\ [Promise!Next]_Promise!vars
           => [Promise!StaysOver]_Promise!vars
    <2> SUFFICES ASSUME PromiseInv, Promise!Next, ~raced',
                        NEW i \in DOMAIN Chain, Promise!Over(Chain[i].root)
                 PROVE  Promise!Over(Chain[i].root)'
      BY DEF Promise!StaysOver
    <2>1. CASE /\ Chain' = Chain
               /\ Spent \subseteq Spent'
      BY <2>1 DEF Promise!Over
    <2>2. ASSUME NEW u \in Users, Promise!SignIn(u)
          PROVE  Promise!Over(Chain[i].root)'
      <3> DEFINE n == Len(Chain) + 1
                 e == [user |-> u, root |-> n]
      <3>1. /\ Chain \in Seq(Members) /\ Len(Chain) \in Nat
            /\ Chain' = Append(Chain, e) /\ Spent' = Spent
            /\ Chain[i].root \in 1 .. Len(Chain)
        BY <2>2 DEF PromiseInv, Promise!SignIn
      <3>2. e \in Members /\ e.root = n
        BY <3>1 DEF Members
      <3> HIDE DEF e
      <3>3. /\ DOMAIN Chain' = DOMAIN Chain \cup {n}
            /\ \A k \in DOMAIN Chain : Chain'[k] = Chain[k]
            /\ Chain'[n] = e
        BY <3>1, <3>2, MembersGrow
      <3> QED
        BY <3>1, <3>2, <3>3 DEF Promise!Over
    <2>3. ASSUME NEW k \in DOMAIN Chain, Promise!Exchange(k)
          PROVE  Promise!Over(Chain[i].root)'
      <3> DEFINE n == Len(Chain) + 1
      <3>1. /\ Chain \in Seq(Members) /\ Chain' = Append(Chain, Chain[k])
            /\ Spent' = Spent \cup {k} /\ k \notin Spent
        BY <2>3 DEF PromiseInv, Promise!Exchange
      <3>2. Chain[k] \in Members
        BY <3>1, ElementOfSeq
      <3>3. /\ DOMAIN Chain' = DOMAIN Chain \cup {n}
            /\ \A l \in DOMAIN Chain : Chain'[l] = Chain[l]
            /\ Chain'[n] = Chain[k]
        BY <3>1, <3>2, MembersGrow
      <3>4. Chain[k].root # Chain[i].root
        BY <3>1 DEF Promise!Over
      <3> QED
        BY <3>1, <3>3, <3>4 DEF Promise!Over
    <2>4. ASSUME NEW u \in Users,
                 \/ Promise!ChangePassword(u) \/ Promise!Deactivate(u)
                 \/ Promise!Reactivate(u)
          PROVE  Chain' = Chain /\ Spent \subseteq Spent'
      BY <2>4
      DEF Promise!ChangePassword, Promise!Deactivate, Promise!Reactivate,
          Promise!Revoke
    <2>5. ASSUME NEW k \in DOMAIN Chain, Promise!SignOut(k)
          PROVE  Chain' = Chain /\ Spent \subseteq Spent'
      BY <2>5 DEF Promise!SignOut
    <2> QED
      BY <2>1, <2>2, <2>3, <2>4, <2>5 DEF Promise!Next
  <1> QED
    BY <1>1, PromiseInvariance, PTL DEF Promise!Spec, Promise!SignInsEnd

\* Therefore it is so with the handlers: until a request commits over a row
\* that has changed, one login leaves at most one refresh token that is
\* accepted, however often it is exchanged (login, refresh).
THEOREM HandlersKeepOneToken == Spec => []Promise!OneTokenPerSignIn
  BY ImplementsPromise, OneTokenEach, PTL DEF KeepsSessions

\* And once it has none left it never has one again (refresh, logout and
\* both revocations).
THEOREM HandlersEndSignIns == Spec => Promise!SignInsEnd
  BY ImplementsPromise, SignInsAreOver, PTL DEF KeepsSessions

\* Only a logout marks a session so.
LEMMA LoggedOutFact ==
    ASSUME IInv, [Next]_vars, NEW i \in 1 .. Len(sessions'),
           sessions'[i].logged_out
    PROVE  /\ i \in 1 .. Len(sessions)
           /\ \/ sessions[i].logged_out
              \/ \E r \in Requests : CommitLogout(r) /\ i = req[r].session
  <1>0. Len(sessions) \in Nat
    BY DEF IInv, TypeOK
  <1>1. CASE UNCHANGED sessions
    BY <1>1
  <1>2. CASE \E k \in 1 .. Len(sessions) : Expire(k)
    BY <1>2, ExpireRows
  <1>3. ASSUME NEW r \in Requests, CommitLogin(r)
        PROVE  i \in 1 .. Len(sessions) /\ sessions[i].logged_out
    BY <1>0, <1>3, LoginRows DEF RowAdded
  <1>4. ASSUME NEW r \in Requests, CommitRefresh(r)
        PROVE  i \in 1 .. Len(sessions) /\ sessions[i].logged_out
    BY <1>0, <1>4, RefreshRows DEF RowAdded
  <1>5. ASSUME NEW r \in Requests, CommitLogout(r)
        PROVE  /\ i \in 1 .. Len(sessions)
               /\ sessions[i].logged_out \/ i = req[r].session
    BY <1>5, LogoutRows
  <1>6. ASSUME NEW r \in Requests, CommitRevocation(r)
        PROVE  i \in 1 .. Len(sessions) /\ sessions[i].logged_out
    BY <1>6, RevocationRows
  <1> QED
    BY <1>1, <1>2, <1>3, <1>4, <1>5, <1>6
    DEF vars, Next, Login, Refresh, Logout, ChangePassword, AdminOnly,
        UpdateUserStatus, Read, RollBack, RevokeSessions, CommitActivation

\* A logout that is not stale has met the one session of its sign-in that
\* had a token left; from then on it is over.
LEMMA NextLoggedOut ==
    IInv /\ IInv' /\ PromiseInv /\ LogoutEndsTheSignIn /\ [Next]_vars
      /\ [Promise!Next]_Promise!vars /\ [Promise!StaysOver]_Promise!vars
      => LogoutEndsTheSignIn'
  <1> SUFFICES ASSUME IInv, IInv', PromiseInv, LogoutEndsTheSignIn,
                      [Next]_vars, [Promise!Next]_Promise!vars,
                      [Promise!StaysOver]_Promise!vars, ~raced',
                      NEW i \in 1 .. Len(sessions'),
                      NEW j \in 1 .. Len(sessions'),
                      sessions'[i].logged_out,
                      sessions'[j].root = sessions'[i].root
               PROVE  sessions'[j].revoked
    BY DEF LogoutEndsTheSignIn
  <1>1. ChainFormed /\ ChainFormed'
    BY ChainFact, PTL
  <1>2. ~raced
    BY DEF Promise!Next, Promise!vars
  <1>3. i \in 1 .. Len(sessions)
    BY LoggedOutFact
  <1>4. CASE sessions[i].logged_out
    <2>1. Promise!Over(Chain[i].root)
      BY <1>1, <1>2, <1>3, <1>4
      DEF Promise!Over, LogoutEndsTheSignIn, ChainFormed, Spent
    <2>2. Promise!Over(Chain[i].root)'
      <3>1. CASE Chain' = Chain /\ Spent' = Spent
        BY <2>1, <3>1 DEF Promise!Over
      <3>2. CASE Promise!StaysOver
        BY <1>1, <1>3, <2>1, <3>2 DEF Promise!StaysOver, ChainFormed
      <3> QED
        BY <3>1, <3>2 DEF Promise!vars
    <2> QED
      BY <1>1, <2>2 DEF Promise!Over, ChainFormed, Spent
  <1>5. ASSUME NEW r \in Requests, CommitLogout(r), i = req[r].session
        PROVE  sessions'[j].revoked
    <2>1. /\ Len(sessions') = Len(sessions) /\ RowsKept
          /\ \A k \in 1 .. Len(sessions) :
                sessions'[k].revoked <=> sessions[k].revoked \/ k = i
      BY <1>5, LogoutRows
    <2>2. ~sessions[i].revoked
      BY <1>5, CommitFacts DEF IInv, RequestsFresh, CommitLogout
    <2>3. sessions[j].root = sessions[i].root
      BY <1>3, <2>1 DEF RowsKept
    <2>4. ~sessions[j].revoked => i = j
      BY <1>1, <1>2, <1>3, <2>1, <2>2, <2>3
      DEF PromiseInv, Promise!OneTokenPerSignIn, ChainFormed, Spent
    <2> QED
      BY <2>1, <2>4
  <1> QED
    BY <1>4, <1>5, LoggedOutFact

\* A logout ends its sign-in, unless a request commits over a row that has
\* changed: nothing that goes back to the same login can be refreshed.
THEOREM LogoutEndsSignIn == Spec => []LogoutEndsTheSignIn
  <1>1. Init => LogoutEndsTheSignIn
    BY DEF Init, LogoutEndsTheSignIn
  <1> QED
    BY <1>1, NextLoggedOut, InvariantHolds, ImplementsPromise,
       PromiseInvariance, SignInsAreOver, PTL
    DEF Spec, KeepsSessions, Promise!Spec, Promise!SignInsEnd
=============================================================================
