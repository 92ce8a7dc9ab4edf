---------------------------- MODULE ClientSession ----------------------------
(***************************************************************************)
(* The signed-in session of one browser tab: the HTTP client               *)
(* (client/src/lib/api/client.ts), the session storage it writes           *)
(* (lib/auth/session-storage.ts) and the session part of the store         *)
(* (stores/app-store.ts), against the tokens the server keeps              *)
(* (server/app/api/routes/auth.py, here in the order of its commits; see   *)
(* AuthSessions for what overlaps inside the server).                      *)
(*                                                                         *)
(* The tab runs on one thread: a continuation, with every continuation it  *)
(* resolves, is one action.  Between two actions a request is on its way,  *)
(* and the network may lose it or its answer.  A reload drops everything   *)
(* but the session storage.                                                *)
(***************************************************************************)
EXTENDS Naturals, Sequences

CONSTANTS
    Calls,           \* the API calls that may be under way together
    WorkspaceCalls,  \* those of them that refreshWorkspace awaits
    MaxRows          \* bound: sessions the server issues

ASSUME CallsAssumption == WorkspaceCalls \subseteq Calls /\ "me" \notin Calls
ASSUME LimitAssumption == MaxRows \in Nat \ {0}

Callers == Calls \cup {"me"}   \* "me" is the call of restoreSession

VARIABLES
    rows,        \* the sessions the server has issued, in their order
    stored,      \* the session in sessionStorage, 0: none
    refresh,     \* the one refresh under way (refreshPromise)
    call,        \* the state of each API call
    login,       \* the state of authenticate
    logout,      \* the state of logout
    store,       \* authenticated, sessionRestored, sessionRestoring
    overlapped,  \* history: a sign-in or sign-out met another session request
    hist         \* history of sign-ins, sign-outs and reloads

vars == <<rows, stored, refresh, call, login, logout, store, overlapped, hist>>

Numbers == 0 .. MaxRows

\* access: the server accepts the access token; refuses it, because it has
\* expired or the user's tokens have been revoked; refuses it, and it has
\* expired for the client as well, whose clock starts with the answer.
\* exchanged: a refresh has replaced the row; known: the tab has received it.
Row == [revoked: BOOLEAN, exchanged: BOOLEAN, known: BOOLEAN,
        access: {"accepted", "refused", "expired"}]
NewRow == [revoked |-> FALSE, exchanged |-> FALSE, known |-> FALSE,
           access |-> "accepted"]

Stages == {"none", "sent", "answered"}

\* token: the session a call was sent with; refused: the one its first
\* attempt was refused with, 0 while it may still be retried.
Call == [at: Stages \cup {"waiting"}, token: Numbers, refused: Numbers,
         ok: BOOLEAN]
NoCall  == [at |-> "none", token |-> 0, refused |-> 0, ok |-> FALSE]
Request == [at: Stages, token: Numbers, answer: Numbers]
NoRequest == [at |-> "none", token |-> 0, answer |-> 0]

TypeOK ==
    /\ rows \in Seq(Row) /\ Len(rows) <= MaxRows
    /\ stored \in 0 .. Len(rows)
    /\ refresh \in Request /\ login \in Request /\ logout \in Request
    /\ call \in [Callers -> Call]
    /\ store \in [authenticated: BOOLEAN, restored: BOOLEAN,
                  restoring: BOOLEAN]
    /\ overlapped \in BOOLEAN
    /\ hist \in [root: Numbers, signed_out: BOOLEAN, unheard: BOOLEAN,
                 cut: BOOLEAN]

FreshStore == [authenticated |-> FALSE, restored |-> FALSE,
               restoring |-> FALSE]

Init ==
    /\ rows = << >>
    /\ stored = 0
    /\ refresh = NoRequest /\ login = NoRequest /\ logout = NoRequest
    /\ call = [c \in Callers |-> NoCall]
    /\ store = FreshStore
    /\ overlapped = FALSE
    /\ hist = [root |-> 0, signed_out |-> FALSE, unheard |-> FALSE,
               cut |-> FALSE]

-----------------------------------------------------------------------------
(* The server, and time.                                                   *)

\* The answer to a refresh: a row that replaces the one presented.
ServerRefresh ==
    /\ refresh.at = "sent"
    /\ IF rows[refresh.token].revoked
       THEN /\ refresh' = [refresh EXCEPT !.at = "answered"]
            /\ UNCHANGED rows
       ELSE /\ Len(rows) < MaxRows
            /\ rows' = Append([rows EXCEPT ![refresh.token].revoked = TRUE,
                                           ![refresh.token].exchanged = TRUE],
                              NewRow)
            /\ refresh' = [refresh EXCEPT !.at = "answered",
                                          !.answer = Len(rows) + 1]
    /\ UNCHANGED <<stored, call, login, logout, store, hist>>

\* The row stored for the tokens that are answered.
Issued   == Append(rows, NewRow)

\* The credentials are right: wrong ones change nothing anywhere.
ServerLogin ==
    /\ login.at = "sent"
    /\ Len(rows) < MaxRows
    /\ rows' = Issued
    /\ login' = [login EXCEPT !.at = "answered", !.answer = Len(rows) + 1]
    /\ UNCHANGED <<stored, refresh, call, logout, store, hist>>

ServerLogout ==
    /\ logout.at = "sent"
    /\ rows' = [rows EXCEPT ![logout.token].revoked = TRUE]
    /\ logout' = [logout EXCEPT !.at = "answered"]
    /\ UNCHANGED <<stored, refresh, call, login, store, hist>>

\* An authenticated request is accepted, or refused with 401.
ServerCall(c) ==
    /\ call[c].at = "sent"
    /\ call' = [call EXCEPT ![c].at = "answered",
                            ![c].ok = rows[call[c].token].access = "accepted"]
    /\ UNCHANGED <<rows, stored, refresh, login, logout, store, hist>>

\* An access token expires, first for the server.
Expire(i) ==
    /\ rows[i].access # "expired"
    /\ rows' = [rows EXCEPT ![i].access =
                   IF @ = "accepted" THEN "refused" ELSE "expired"]
    /\ UNCHANGED <<stored, refresh, call, login, logout, store, hist>>

\* A password change or a deactivation from elsewhere ends every session.
SessionsEnd ==
    /\ rows' = [i \in 1 .. Len(rows) |->
                  [rows[i] EXCEPT !.revoked = TRUE,
                     !.access = IF @ = "accepted" THEN "refused" ELSE @]]
    /\ rows' # rows
    /\ UNCHANGED <<stored, refresh, call, login, logout, store, hist>>

-----------------------------------------------------------------------------
(* API calls: authenticated and authenticatedResponse.                     *)

\* The store after a failed restoreSession.
NotRestored == [authenticated |-> FALSE, restored |-> TRUE, restoring |-> FALSE]

\* What the caller of c does with its error (restoreSession,
\* refreshWorkspace; the others only report it).
AfterFailure(c, unauthorized) ==
    IF c = "me"
    THEN NotRestored
    ELSE [store EXCEPT !.authenticated =
             @ /\ ~(unauthorized /\ c \in WorkspaceCalls)]

AfterSuccess(c) ==
    IF c = "me"
    THEN [authenticated |-> TRUE, restored |-> TRUE, restoring |-> FALSE]
    ELSE store

Fails(c, unauthorized) ==
    /\ call' = [call EXCEPT ![c] = NoCall]
    /\ store' = AfterFailure(c, unauthorized)
    /\ UNCHANGED refresh

\* rotateRefreshToken, awaited by c: it joins the refresh under way, or
\* sends the stored refresh token, or finds no session.
Rotate(c, refused) ==
    IF refresh.at = "none" /\ stored = 0
    THEN Fails(c, TRUE)
    ELSE /\ call' = [call EXCEPT ![c] =
                        [NoCall EXCEPT !.at = "waiting", !.refused = refused]]
         /\ refresh' = IF refresh.at # "none" THEN refresh
                       ELSE [NoRequest EXCEPT !.at = "sent", !.token = stored]
         /\ UNCHANGED store

\* The synchronous beginning of a call that may be retried.
Begin(c) ==
    \/ /\ stored = 0
       /\ Fails(c, TRUE)
    \/ /\ stored # 0
       /\ rows[stored].access = "expired"
       /\ Rotate(c, 0)
    \/ /\ stored # 0
       /\ rows[stored].access # "expired"
       /\ call' = [call EXCEPT ![c] = [NoCall EXCEPT !.at = "sent",
                                                     !.token = stored]]
       /\ UNCHANGED <<refresh, store>>

StartCall(c) ==
    /\ c \in Calls
    /\ store.authenticated
    /\ call[c].at = "none"
    /\ Begin(c)
    /\ UNCHANGED <<rows, stored, login, logout, hist>>

\* After /me: the user is written into the session read again after the
\* await, not into the one the call began with.
SessionReadAgain(c) == stored

\* A first 401 is followed by a rotation and a second attempt.
TryAgain(c) == /\ call' = [call EXCEPT ![c] = [@ EXCEPT !.at = "sent",
                                  !.token = stored, !.refused = call[c].token]]
               /\ stored # 0
               /\ UNCHANGED <<refresh, store>>
RotateAndTryAgain(c) == Rotate(c, call[c].token)

\* The answer arrives; a second 401 is reported.
CallReturns(c) ==
    /\ call[c].at = "answered"
    /\ \/ /\ call[c].ok
          /\ call' = [call EXCEPT ![c] = NoCall]
          /\ store' = AfterSuccess(c)
          /\ stored' = SessionReadAgain(c)
          /\ UNCHANGED refresh
       \/ /\ ~call[c].ok /\ call[c].refused = 0
          /\ RotateAndTryAgain(c)
          /\ UNCHANGED stored
       \/ /\ ~call[c].ok /\ call[c].refused # 0
          /\ Fails(c, TRUE)
          /\ UNCHANGED stored
    /\ UNCHANGED <<rows, login, logout, hist>>

\* The request or its answer is lost (or the server fails).
CallIsLost(c) ==
    /\ call[c].at \in {"sent", "answered"}
    /\ Fails(c, FALSE)
    /\ UNCHANGED <<rows, stored, login, logout, hist>>

-----------------------------------------------------------------------------
(* The end of a refresh, and of all that waited for it.                    *)

\* What becomes of c when the refresh it may have waited for is answered.
Forgotten(c) == call[c]
Resumed(c)   == IF call[c].at = "waiting"
                THEN [call[c] EXCEPT !.at = "sent", !.token = refresh.answer]
                ELSE call[c]

\* The answer is stored, and every call that waited is sent with it.
RefreshReturns ==
    /\ refresh.at = "answered" /\ refresh.answer # 0
    /\ stored' = refresh.answer
    /\ rows' = [rows EXCEPT ![refresh.answer].known = TRUE]
    /\ call' = [c \in Callers |-> Resumed(c)]
    /\ refresh' = NoRequest
    /\ UNCHANGED <<login, logout, store, hist>>

\* Any error clears the session, whichever is stored by now.
KeptUnlessRefused == IF refresh.at = "sent" \/ refresh.answer # 0
                     THEN stored ELSE 0
Cleared           == 0

\* clearSession, and the failure of a restoreSession that waited.
NoEvent       == store
SignedOutToo  == [authenticated |-> FALSE, restored |-> TRUE,
                  restoring |-> store.restoring /\ call["me"].at # "waiting"]

\* The refresh is refused or lost.  The event "legalbridge:session-cleared"
\* signs the store out, and the calls that waited fail.
RefreshFails ==
    /\ refresh.at # "none"
    /\ stored' = Cleared
    /\ store' = SignedOutToo
    /\ call' = [c \in Callers |->
                  IF call[c].at = "waiting" THEN NoCall ELSE call[c]]
    /\ refresh' = NoRequest
    /\ UNCHANGED <<rows, login, logout, hist>>

-----------------------------------------------------------------------------
(* The store's session actions.                                            *)

\* The shell restores the stored session once after the page has loaded.
RestoreSession ==
    /\ ~store.restored /\ ~store.restoring
    /\ IF stored = 0
       THEN /\ store' = [store EXCEPT !.restored = TRUE]
            /\ UNCHANGED <<call, refresh>>
       ELSE LET restoring == [store EXCEPT !.restoring = TRUE] IN
            \/ /\ rows[stored].access = "expired"
               /\ call' = [call EXCEPT !["me"] = [NoCall EXCEPT !.at = "waiting"]]
               /\ refresh' = IF refresh.at # "none" THEN refresh
                             ELSE [NoRequest EXCEPT !.at = "sent",
                                                    !.token = stored]
               /\ store' = restoring
            \/ /\ rows[stored].access # "expired"
               /\ call' = [call EXCEPT !["me"] = [NoCall EXCEPT !.at = "sent",
                                                             !.token = stored]]
               /\ store' = restoring
               /\ UNCHANGED refresh
    /\ UNCHANGED <<rows, stored, login, logout, hist>>

Authenticate ==
    /\ login.at = "none"
    /\ Len(rows) < MaxRows
    /\ login' = [login EXCEPT !.at = "sent"]
    /\ UNCHANGED <<rows, stored, refresh, call, logout, store, hist>>

AuthenticateReturns ==
    /\ login.at = "answered"
    /\ stored' = login.answer
    /\ rows' = [rows EXCEPT ![login.answer].known = TRUE]
    /\ store' = [authenticated |-> TRUE, restored |-> TRUE,
                 restoring |-> FALSE]
    /\ hist' = [hist EXCEPT !.root = login.answer, !.signed_out = FALSE,
                            !.unheard = FALSE]
    /\ login' = NoRequest
    /\ UNCHANGED <<refresh, call, logout>>

AuthenticateFails ==
    /\ login.at # "none"
    /\ login' = NoRequest
    /\ UNCHANGED <<rows, stored, refresh, call, logout, store, hist>>

SignedOut == [store EXCEPT !.authenticated = FALSE, !.restored = TRUE]

\* Without a stored session there is nothing to tell the server.
Logout ==
    /\ store.authenticated
    /\ logout.at = "none"
    /\ IF stored = 0
       THEN /\ store' = SignedOut
            /\ hist' = [hist EXCEPT !.signed_out = TRUE]
            /\ UNCHANGED logout
       ELSE /\ logout' = [NoRequest EXCEPT !.at = "sent", !.token = stored]
            /\ UNCHANGED <<store, hist>>
    /\ UNCHANGED <<rows, stored, refresh, call, login>>

\* finally: whether the server has answered or not.
ClearedIfTold == IF logout.at = "answered" THEN 0 ELSE stored
ClearedAnyway == 0

LogoutReturns ==
    /\ logout.at # "none"
    /\ stored' = ClearedAnyway
    /\ store' = SignedOut
    /\ hist' = [hist EXCEPT !.signed_out = TRUE,
                            !.unheard = @ \/ logout.at = "sent"]
    /\ logout' = NoRequest
    /\ UNCHANGED <<rows, refresh, call, login>>

\* The page is loaded anew: only sessionStorage is kept.
Reload ==
    /\ refresh' = NoRequest /\ login' = NoRequest /\ logout' = NoRequest
    /\ call' = [c \in Callers |-> NoCall]
    /\ store' = FreshStore
    /\ hist' = [hist EXCEPT !.cut = @ \/ refresh.at # "none"]
    /\ UNCHANGED <<rows, stored>>

-----------------------------------------------------------------------------

\* A sign-in or a sign-out is under way beside the other one, a refresh or
\* the restoring of the session.
Overlaps ==
    \/ login.at # "none" /\ logout.at # "none"
    \/ /\ login.at # "none" \/ logout.at # "none"
       /\ refresh.at # "none" \/ call["me"].at # "none"

Step ==
    \/ ServerRefresh \/ ServerLogin \/ ServerLogout \/ SessionsEnd
    \/ \E i \in 1 .. Len(rows) : Expire(i)
    \/ \E c \in Callers :
          ServerCall(c) \/ StartCall(c) \/ CallReturns(c) \/ CallIsLost(c)
    \/ RefreshReturns \/ RefreshFails
    \/ RestoreSession
    \/ Authenticate \/ AuthenticateReturns \/ AuthenticateFails
    \/ Logout \/ LogoutReturns
    \/ Reload

\* A step, and what the history makes of it.
Noted(A) == A /\ overlapped' = (overlapped \/ Overlaps')

Next == Noted(Step)

Spec == Init /\ [][Next]_vars

\* fetch settles in the end, with an answer or an error, and so does what
\* waits for it.  Nobody has to sign in, call or reload.
Fairness ==
    /\ WF_vars(Noted(RefreshReturns \/ RefreshFails))
    /\ \A c \in Callers : WF_vars(Noted(CallReturns(c) \/ CallIsLost(c)))

FairSpec == Spec /\ Fairness

-----------------------------------------------------------------------------
(* Properties.                                                             *)

\* The tab does not hold on to a refresh token that has been exchanged: the
\* exchange is under way, or its answer, or the loss of its answer, has
\* replaced or cleared it (rotateRefreshToken).  A reload that cuts the
\* refresh off is the exception.
NoSpentTokenKept ==
    (~hist.cut /\ stored # 0 /\ rows[stored].exchanged)
        => (refresh.at # "none" /\ refresh.token = stored)

\* A call that is tried again carries another token than the one it was
\* refused with (authenticated).
RetryOnNewToken ==
    \A c \in Callers : call[c].at \in {"sent", "answered"}
                       => call[c].token # call[c].refused

\* A sign-out is final unless it overlaps a refresh or a sign-in: nothing is
\* stored, and of the sessions the tab has held since it signed in none can
\* be refreshed, if the server was told (logout, rotateRefreshToken).
SignOutIsFinal ==
    (hist.signed_out /\ ~overlapped) =>
        /\ stored = 0
        /\ \A i \in 1 .. Len(rows) :
              rows[i].known /\ i >= hist.root /\ ~hist.unheard
              => rows[i].revoked

\* The workspace is shown to a user whose session is stored, unless requests
\* have overlapped (authenticate, logout, clearSession, restoreSession).
ShownWithSession ==
    (store.authenticated /\ ~overlapped) => stored # 0

\* Every call ends, also one that waits for a refresh another call began, and
\* the page does not stay "Restoring and verifying the backend session".
Settles ==
    /\ \A c \in Callers : call[c].at # "none" ~> call[c].at = "none"
    /\ store.restoring ~> ~store.restoring
-----------------------------------------------------------------------------
(* The inductive invariant (see ClientSessionProofs).                      *)

\* Whoever holds a token holds one the server has issued.
Issuable == 0 .. Len(rows)
TokensIssued ==
    /\ {refresh.token, refresh.answer, login.answer, logout.token} \subseteq Issuable
    /\ \A c \in Callers : {call[c].token, call[c].refused} \subseteq Issuable

\* Requests carry a token from the time they are sent, and an answer from the
\* time they are answered.
RequestsFormed ==
    /\ refresh.at # "none" => refresh.token # 0
    /\ refresh.at # "answered" => refresh.answer = 0
    /\ login.at # "answered" => login.answer = 0
    /\ logout.at # "none" => logout.token # 0
    /\ \A c \in Callers : call[c].at \in {"sent", "answered"} => call[c].token # 0

\* A token on its way to the tab has not been used.
AnswersAreNew ==
    /\ login.answer # 0 =>
          /\ ~rows[login.answer].exchanged
          /\ login.answer \notin {stored, refresh.token, refresh.answer}
    /\ refresh.answer # 0 =>
          /\ ~rows[refresh.answer].exchanged
          /\ refresh.answer \notin {stored, refresh.token}
          /\ \A c \in Callers :
                refresh.answer \notin {call[c].token, call[c].refused}

\* The invariant that every step keeps: tokens are issued, then on their way,
\* then held, then spent, in this order.
IInv == /\ TypeOK /\ TokensIssued /\ RequestsFormed /\ AnswersAreNew
        /\ NoSpentTokenKept /\ RetryOnNewToken
=============================================================================
