-------------------------- MODULE ClientSessionProofs --------------------------
(***************************************************************************)
(* What ClientSession promises of tokens, for any calls under way together *)
(* and any number of sessions.                                             *)
(*                                                                         *)
(* Most steps move one call, or change the rows without exchanging any:    *)
(* CallMoves and RowsMove are about them.  The steps that issue or store   *)
(* a token, and Reload, have a lemma of their own.                         *)
(***************************************************************************)
EXTENDS ClientSession, TLAPS

Stores == [authenticated: BOOLEAN, restored: BOOLEAN, restoring: BOOLEAN]

\* The records of nothing under way.
LEMMA NothingFact ==
    /\ NoCall \in Call /\ NoRequest \in Request /\ NewRow \in Row
    /\ NoCall.at = "none" /\ NoCall.token = 0 /\ NoCall.refused = 0
    /\ NoRequest.at = "none" /\ NoRequest.token = 0 /\ NoRequest.answer = 0
    /\ ~NewRow.exchanged
    /\ FreshStore \in Stores
  <1>1. 0 \in Numbers
    BY LimitAssumption DEF Numbers
  <1> QED
    BY <1>1 DEF NoCall, Call, NoRequest, Request, NewRow, Row, Stages,
                FreshStore, Stores

\* In the first state nothing is issued, held or under way.
LEMMA InitIInv == Init => IInv
  <1> SUFFICES ASSUME Init PROVE IInv
    OBVIOUS
  <1>1. /\ rows = << >> /\ Len(rows) = 0 /\ rows \in Seq(Row)
        /\ stored = 0 /\ 0 \in Numbers /\ MaxRows \in Nat
    BY LimitAssumption DEF Init, Numbers
  <1>2. TypeOK
    <2>1. /\ refresh \in Request /\ login \in Request /\ logout \in Request
          /\ call \in [Callers -> Call] /\ overlapped \in BOOLEAN
      BY NothingFact DEF Init
    <2>2. store \in Stores
      BY NothingFact DEF Init
    <2>3. hist \in [root: Numbers, signed_out: BOOLEAN, unheard: BOOLEAN,
                   cut: BOOLEAN]
      BY <1>1 DEF Init
    <2>4. stored \in 0 .. Len(rows) /\ Len(rows) <= MaxRows
      BY <1>1
    <2> QED
      BY <1>1, <2>1, <2>2, <2>3, <2>4 DEF TypeOK, Stores
  <1>3. \A c \in Callers : call[c] = NoCall
    BY DEF Init
  <1>4. TokensIssued /\ RequestsFormed /\ AnswersAreNew
    BY <1>1, <1>3, NothingFact
    DEF Init, TokensIssued, RequestsFormed, AnswersAreNew, Issuable
  <1>5. NoSpentTokenKept /\ RetryOnNewToken
    BY <1>1, <1>3, NothingFact DEF NoSpentTokenKept, RetryOnNewToken
  <1> QED
    BY <1>2, <1>4, <1>5 DEF IInv

LEMMA StutterKeeps == ASSUME IInv, UNCHANGED vars PROVE IInv'
  BY DEF vars, IInv, TypeOK, TokensIssued, RequestsFormed, AnswersAreNew,
         NoSpentTokenKept, RetryOnNewToken, Issuable

-----------------------------------------------------------------------------
(* Two kinds of steps.                                                     *)

\* One call moves; with it a refresh may begin, with the stored token.
LEMMA CallMoves ==
    ASSUME IInv, NEW c \in Callers, NEW k \in Call,
           call' = [call EXCEPT ![c] = k],
           UNCHANGED <<rows, stored, login, logout, hist>>,
           store' \in Stores, overlapped' \in BOOLEAN,
           \/ refresh' = refresh
           \/ /\ refresh.at = "none" /\ stored # 0
              /\ refresh' = [NoRequest EXCEPT !.at = "sent", !.token = stored],
           k.token \in {0, stored, call[c].token},
           k.refused \in {0, call[c].token, call[c].refused},
           k.at \in {"sent", "answered"} => k.token # 0 /\ k.token # k.refused
    PROVE  IInv'
  <1>0. /\ TypeOK /\ TokensIssued /\ RequestsFormed /\ AnswersAreNew
        /\ NoSpentTokenKept /\ RetryOnNewToken
    BY DEF IInv
  <1>1. /\ call' \in [Callers -> Call] /\ call'[c] = k
        /\ \A b \in Callers \ {c} : call'[b] = call[b]
    BY <1>0 DEF TypeOK
  <1>2. /\ rows' = rows /\ stored' = stored /\ login' = login
        /\ logout' = logout /\ hist' = hist
    OBVIOUS
  <1>3. /\ refresh' \in Request
        /\ refresh'.token \in {refresh.token, stored}
        /\ refresh'.answer = refresh.answer
        /\ refresh' = refresh \/ (refresh.at = "none" /\ refresh'.at = "sent"
                                  /\ refresh'.token = stored /\ stored # 0)
    <2>1. CASE refresh' = refresh
      BY <2>1, <1>0 DEF TypeOK
    <2>2. CASE /\ refresh.at = "none" /\ stored # 0
               /\ refresh' = [NoRequest EXCEPT !.at = "sent", !.token = stored]
      <3>1. stored \in Numbers /\ refresh.answer = 0
        BY <2>2, <1>0, LimitAssumption DEF TypeOK, RequestsFormed, Numbers
      <3> QED
        BY <2>2, <3>1, NothingFact DEF Request, Stages
    <2> QED
      BY <2>1, <2>2
  <1>4. TypeOK'
    BY <1>0, <1>1, <1>2, <1>3 DEF TypeOK, Stores
  <1>5. stored \in Issuable /\ 0 \in Issuable
    BY <1>0 DEF TypeOK, Issuable
  <1>6. TokensIssued'
    BY <1>0, <1>1, <1>2, <1>3, <1>5 DEF TokensIssued, Issuable
  <1>7. RequestsFormed'
    BY <1>0, <1>1, <1>2, <1>3 DEF RequestsFormed
  <1>8. AnswersAreNew'
    <2>1. refresh.answer # 0 =>
             refresh.answer \notin {k.token, k.refused}
      BY <1>0 DEF AnswersAreNew
    <2> QED
      BY <2>1, <1>0, <1>1, <1>2, <1>3 DEF AnswersAreNew
  <1>9. NoSpentTokenKept'
    BY <1>0, <1>2, <1>3 DEF NoSpentTokenKept
  <1>10. RetryOnNewToken'
    BY <1>0, <1>1 DEF RetryOnNewToken
  <1> QED
    BY <1>4, <1>6, <1>7, <1>8, <1>9, <1>10 DEF IInv

\* Rows change, a sign-in or a sign-out goes on, the session may be cleared:
\* no token is issued or exchanged.
LEMMA RowsMove ==
    ASSUME IInv, UNCHANGED <<call, refresh>>, hist'.cut = hist.cut,
           rows' \in Seq(Row), Len(rows') = Len(rows),
           \A i \in 1 .. Len(rows) : rows'[i].exchanged = rows[i].exchanged,
           stored' \in {0, stored},
           login' \in Request, login'.answer \in {0, login.answer},
           login'.at # "answered" => login'.answer = 0,
           logout' \in Request, logout'.token \in Issuable,
           logout'.at # "none" => logout'.token # 0,
           store' \in Stores, overlapped' \in BOOLEAN,
           hist' \in [root: Numbers, signed_out: BOOLEAN, unheard: BOOLEAN,
                      cut: BOOLEAN]
    PROVE  IInv'
  <1>0. /\ TypeOK /\ TokensIssued /\ RequestsFormed /\ AnswersAreNew
        /\ NoSpentTokenKept /\ RetryOnNewToken
    BY DEF IInv
  <1>1. call' = call /\ refresh' = refresh /\ hist'.cut = hist.cut
    OBVIOUS
  <1>2. Issuable' = Issuable /\ 0 \in Issuable /\ Len(rows) \in Nat
    BY <1>0 DEF Issuable, TypeOK
  <1>3. TypeOK'
    BY <1>0, <1>1, <1>2 DEF TypeOK, Stores
  <1>4. TokensIssued'
    BY <1>0, <1>1, <1>2 DEF TokensIssued
  <1>5. RequestsFormed'
    BY <1>0, <1>1 DEF RequestsFormed
  <1>6. \A n \in Issuable : n # 0 => rows'[n].exchanged = rows[n].exchanged
    BY <1>2 DEF Issuable
  <1>7. AnswersAreNew'
    BY <1>0, <1>1, <1>6 DEF AnswersAreNew, TokensIssued
  <1>8. NoSpentTokenKept'
    <2>1. stored \in Issuable
      BY <1>0 DEF TypeOK, Issuable
    <2> QED
      BY <2>1, <1>0, <1>1, <1>6 DEF NoSpentTokenKept
  <1>9. RetryOnNewToken'
    BY <1>0, <1>1 DEF RetryOnNewToken
  <1> QED
    BY <1>3, <1>4, <1>5, <1>7, <1>8, <1>9 DEF IInv

-----------------------------------------------------------------------------
(* The calls.                                                              *)

\* What a failed or finished call leaves of the store.
LEMMA StoreFact ==
    ASSUME IInv, NEW c \in Callers, NEW unauthorized \in BOOLEAN
    PROVE  AfterFailure(c, unauthorized) \in Stores /\ AfterSuccess(c) \in Stores
  <1>1. store \in Stores
    BY DEF IInv, TypeOK, Stores
  <1>2. NotRestored \in Stores
    BY DEF NotRestored, Stores
  <1>3. ASSUME NEW b \in BOOLEAN
        PROVE  [store EXCEPT !.authenticated = b] \in Stores
    BY <1>1 DEF Stores
  <1>4. (store.authenticated /\ ~(unauthorized /\ c \in WorkspaceCalls)) \in BOOLEAN
    OBVIOUS
  <1>5. AfterFailure(c, unauthorized) \in Stores
    BY <1>2, <1>3, <1>4 DEF AfterFailure
  <1>6. AfterSuccess(c) \in Stores
    BY <1>1 DEF AfterSuccess, Stores
  <1> QED
    BY <1>5, <1>6

\* A call that fails, and one that waits for the refresh of its token.
LEMMA FailsKeeps ==
    ASSUME IInv, NEW c \in Callers, NEW unauthorized \in BOOLEAN,
           Fails(c, unauthorized),
           UNCHANGED <<rows, stored, login, logout, hist>>,
           overlapped' \in BOOLEAN
    PROVE  IInv'
  <1>1. /\ call' = [call EXCEPT ![c] = NoCall]
        /\ store' \in Stores /\ refresh' = refresh
    BY StoreFact DEF Fails
  <1> QED
    BY <1>1, NothingFact, CallMoves

LEMMA RotateKeeps ==
    ASSUME IInv, NEW c \in Callers, NEW refused \in {0, call[c].token},
           Rotate(c, refused),
           UNCHANGED <<rows, stored, login, logout, hist>>,
           overlapped' \in BOOLEAN
    PROVE  IInv'
  <1> DEFINE k == [NoCall EXCEPT !.at = "waiting", !.refused = refused]
  <1>1. CASE Fails(c, TRUE)
    BY <1>1, FailsKeeps
  <1>2. CASE /\ ~(refresh.at = "none" /\ stored = 0)
             /\ call' = [call EXCEPT ![c] = k]
             /\ refresh' = IF refresh.at # "none" THEN refresh
                           ELSE [NoRequest EXCEPT !.at = "sent", !.token = stored]
             /\ store' = store
    <2>1. refused \in Numbers
      BY LimitAssumption DEF IInv, TypeOK, Call, Numbers
    <2>2. /\ k \in Call /\ k.at = "waiting" /\ k.token = 0
          /\ k.refused = refused
      BY <2>1, NothingFact DEF Call, Stages
    <2>3. store \in Stores
      BY DEF IInv, TypeOK, Stores
    <2> HIDE DEF k
    <2> QED
      BY <1>2, <2>2, <2>3, CallMoves
  <1> QED
    BY <1>1, <1>2 DEF Rotate

LEMMA StartCallKeeps ==
    ASSUME IInv, NEW c \in Callers, StartCall(c), overlapped' \in BOOLEAN
    PROVE  IInv'
  <1> DEFINE k == [NoCall EXCEPT !.at = "sent", !.token = stored]
  <1>1. UNCHANGED <<rows, stored, login, logout, hist>> /\ Begin(c)
    BY DEF StartCall
  <1>2. CASE Fails(c, TRUE)
    BY <1>1, <1>2, FailsKeeps
  <1>3. CASE Rotate(c, 0)
    BY <1>1, <1>3, RotateKeeps
  <1>4. CASE /\ stored # 0
             /\ call' = [call EXCEPT ![c] = k]
             /\ refresh' = refresh /\ store' = store
    <2>1. stored \in Numbers /\ store \in Stores
      BY LimitAssumption DEF IInv, TypeOK, Stores, Numbers
    <2>2. k \in Call /\ k.at = "sent" /\ k.token = stored /\ k.refused = 0
      BY <2>1, NothingFact DEF Call, Stages
    <2> HIDE DEF k
    <2> QED
      BY <1>1, <1>4, <2>1, <2>2, CallMoves
  <1> QED
    BY <1>1, <1>2, <1>3, <1>4 DEF Begin

LEMMA ServerCallKeeps ==
    ASSUME IInv, NEW c \in Callers, ServerCall(c), overlapped' \in BOOLEAN
    PROVE  IInv'
  <1> DEFINE ok == rows[call[c].token].access = "accepted"
             k == [call[c] EXCEPT !.at = "answered", !.ok = ok]
  <1>1. call[c] \in Call /\ store \in Stores /\ ok \in BOOLEAN
    BY DEF IInv, TypeOK, Stores
  <1>2. /\ call[c].at = "sent" /\ call' = [call EXCEPT ![c] = k]
        /\ UNCHANGED <<rows, stored, refresh, login, logout, store, hist>>
    BY DEF ServerCall, IInv, TypeOK, Call
  <1> HIDE DEF ok
  <1>3. /\ k \in Call /\ k.token = call[c].token
        /\ k.refused = call[c].refused
    BY <1>1 DEF Call, Stages
  <1>4. call[c].token # 0 /\ call[c].token # call[c].refused
    BY <1>2 DEF IInv, RequestsFormed, RetryOnNewToken
  <1> HIDE DEF k
  <1> QED
    BY <1>1, <1>2, <1>3, <1>4, CallMoves

LEMMA CallReturnsKeeps ==
    ASSUME IInv, NEW c \in Callers, CallReturns(c) \/ CallIsLost(c),
           overlapped' \in BOOLEAN
    PROVE  IInv'
  <1>1. UNCHANGED <<rows, stored, login, logout, hist>>
    BY DEF CallReturns, CallIsLost, SessionReadAgain
  <1>2. CASE /\ call' = [call EXCEPT ![c] = NoCall]
             /\ store' = AfterSuccess(c) /\ refresh' = refresh
    <2>1. store' \in Stores
      BY <1>2, StoreFact
    <2> QED
      BY <1>1, <1>2, <2>1, NothingFact, CallMoves
  <1>3. CASE Rotate(c, call[c].token)
    BY <1>1, <1>3, RotateKeeps
  <1>4. CASE Fails(c, TRUE) \/ Fails(c, FALSE)
    BY <1>1, <1>4, FailsKeeps
  <1> QED
    BY <1>2, <1>3, <1>4 DEF CallReturns, CallIsLost, RotateAndTryAgain

\* The call of restoreSession, when there is a session to restore.
LEMMA RestoreSessionKeeps ==
    ASSUME IInv, RestoreSession, overlapped' \in BOOLEAN PROVE IInv'
  <1> DEFINE waits == [NoCall EXCEPT !.at = "waiting"]
             sends == [NoCall EXCEPT !.at = "sent", !.token = stored]
  <1>0. /\ "me" \in Callers /\ stored \in Numbers /\ store \in Stores
        /\ call \in [Callers -> Call]
    BY LimitAssumption DEF Callers, IInv, TypeOK, Stores, Numbers
  <1>1. /\ waits \in Call /\ waits.at = "waiting" /\ waits.token = 0
        /\ waits.refused = 0
        /\ sends \in Call /\ sends.at = "sent" /\ sends.token = stored
        /\ sends.refused = 0
    BY <1>0, NothingFact DEF Call, Stages
  <1>2. UNCHANGED <<rows, stored, login, logout, hist>>
    BY DEF RestoreSession
  <1>3. store' \in Stores
    BY <1>0 DEF RestoreSession, Stores
  <1>4. CASE call' = call /\ refresh' = refresh
    <2>1. call' = [call EXCEPT !["me"] = call["me"]] /\ call["me"] \in Call
      BY <1>0, <1>4
    <2>2. call["me"].at \in {"sent", "answered"} =>
             call["me"].token # 0 /\ call["me"].token # call["me"].refused
      BY <1>0 DEF IInv, RequestsFormed, RetryOnNewToken
    <2> QED
      BY <1>0, <1>2, <1>3, <1>4, <2>1, <2>2, CallMoves
  <1>5. CASE /\ stored # 0 /\ call' = [call EXCEPT !["me"] = waits]
             /\ refresh' = IF refresh.at # "none" THEN refresh
                           ELSE [NoRequest EXCEPT !.at = "sent",
                                                  !.token = stored]
    <2> HIDE DEF waits
    <2> QED
      BY <1>0, <1>1, <1>2, <1>3, <1>5, CallMoves
  <1>6. CASE /\ stored # 0 /\ call' = [call EXCEPT !["me"] = sends]
             /\ refresh' = refresh
    <2> HIDE DEF sends
    <2> QED
      BY <1>0, <1>1, <1>2, <1>3, <1>6, CallMoves
  <1> QED
    BY <1>4, <1>5, <1>6 DEF RestoreSession

-----------------------------------------------------------------------------
(* Steps that issue, exchange and store nothing.                           *)

\* Revoking and expiring.
LEMMA RowsAgeKeeps ==
    ASSUME IInv, overlapped' \in BOOLEAN,
           \/ ServerLogout \/ SessionsEnd
           \/ \E i \in 1 .. Len(rows) : Expire(i)
    PROVE  IInv'
  <1>0. /\ rows \in Seq(Row) /\ store \in Stores /\ Len(rows) \in Nat
        /\ login \in Request /\ logout \in Request
        /\ logout.token \in Issuable
        /\ hist \in [root: Numbers, signed_out: BOOLEAN, unheard: BOOLEAN,
                     cut: BOOLEAN]
    BY DEF IInv, TypeOK, TokensIssued, Stores
  <1>1. \A i \in 1 .. Len(rows) : rows[i] \in Row
    BY <1>0
  <1>2. /\ UNCHANGED <<stored, refresh, call, login, store, hist>>
        /\ logout' \in Request /\ logout'.token = logout.token
        /\ logout'.at # "none" => logout.at # "none"
    BY <1>0 DEF ServerLogout, SessionsEnd, Expire, Request, Stages
  <1>3. /\ rows' \in Seq(Row) /\ Len(rows') = Len(rows)
        /\ \A i \in 1 .. Len(rows) : rows'[i].exchanged = rows[i].exchanged
    <2>1. CASE ServerLogout
      <3>1. logout.token \in 1 .. Len(rows)
        BY <2>1, <1>0 DEF ServerLogout, IInv, RequestsFormed, Issuable
      <3>2. [rows[logout.token] EXCEPT !.revoked = TRUE] \in Row
        BY <1>1, <3>1 DEF Row
      <3>3. rows' = [rows EXCEPT ![logout.token] =
                       [rows[logout.token] EXCEPT !.revoked = TRUE]]
        BY <2>1 DEF ServerLogout
      <3> QED
        BY <1>0, <1>1, <3>1, <3>2, <3>3 DEF Row
    <2>2. CASE SessionsEnd
      <3> DEFINE ended(i) == [rows[i] EXCEPT !.revoked = TRUE,
                                !.access = IF @ = "accepted" THEN "refused"
                                                             ELSE @]
      <3>1. \A i \in 1 .. Len(rows) :
               ended(i) \in Row /\ ended(i).exchanged = rows[i].exchanged
        BY <1>1 DEF Row
      <3>2. rows' = [i \in 1 .. Len(rows) |-> ended(i)]
        BY <2>2 DEF SessionsEnd
      <3> HIDE DEF ended
      <3> QED
        BY <1>0, <3>1, <3>2
    <2>3. CASE \E i \in 1 .. Len(rows) : Expire(i)
      <3>1. PICK i \in 1 .. Len(rows) : Expire(i)
        BY <2>3
      <3> DEFINE older == [rows[i] EXCEPT !.access =
                             IF @ = "accepted" THEN "refused" ELSE "expired"]
      <3>2. older \in Row /\ older.exchanged = rows[i].exchanged
        BY <1>1 DEF Row
      <3>3. rows' = [rows EXCEPT ![i] = older]
        BY <3>1 DEF Expire
      <3> HIDE DEF older
      <3> QED
        BY <1>0, <3>2, <3>3
    <2> QED
      BY <2>1, <2>2, <2>3
  <1>4. /\ login.at # "answered" => login.answer = 0
        /\ logout.at # "none" => logout.token # 0
    BY DEF IInv, RequestsFormed
  <1> QED
    BY <1>0, <1>2, <1>3, <1>4, RowsMove

\* The sign-in is asked for or fails; the sign-out is asked for or ends.
LEMMA SignsKeep ==
    ASSUME IInv, overlapped' \in BOOLEAN,
           Authenticate \/ AuthenticateFails \/ Logout \/ LogoutReturns
    PROVE  IInv'
  <1>0. /\ rows \in Seq(Row) /\ store \in Stores /\ stored \in Issuable
        /\ login \in Request /\ logout \in Request
        /\ logout.token \in Issuable /\ 0 \in Issuable /\ stored \in Numbers
        /\ hist \in [root: Numbers, signed_out: BOOLEAN, unheard: BOOLEAN,
                     cut: BOOLEAN]
        /\ login.at # "answered" => login.answer = 0
        /\ logout.at # "none" => logout.token # 0
    BY LimitAssumption
    DEF IInv, TypeOK, TokensIssued, RequestsFormed, Stores, Issuable, Numbers
  <1>1. UNCHANGED <<call, refresh, rows>>
    BY DEF Authenticate, AuthenticateFails, Logout, LogoutReturns
  <1>2. /\ login' \in Request /\ login'.answer \in {0, login.answer}
        /\ login'.at # "answered" => login'.answer = 0
    BY <1>0, NothingFact
    DEF Authenticate, AuthenticateFails, Logout, LogoutReturns, Request, Stages
  <1>3. /\ logout' \in Request /\ logout'.token \in Issuable
        /\ logout'.at # "none" => logout'.token # 0
    <2>1. CASE Authenticate \/ AuthenticateFails
      BY <2>1, <1>0 DEF Authenticate, AuthenticateFails
    <2>2. CASE Logout
      <3>1. /\ [NoRequest EXCEPT !.at = "sent", !.token = stored] \in Request
            /\ [NoRequest EXCEPT !.at = "sent", !.token = stored].token = stored
        BY <1>0, NothingFact DEF Request, Stages
      <3> QED
        BY <2>2, <3>1, <1>0 DEF Logout
    <2>3. CASE LogoutReturns
      BY <2>3, <1>0, NothingFact DEF LogoutReturns
    <2> QED
      BY <2>1, <2>2, <2>3
  <1>4. stored' \in {0, stored}
    BY DEF Authenticate, AuthenticateFails, Logout, LogoutReturns, ClearedAnyway
  <1>5. store' \in Stores
    BY <1>0
    DEF Authenticate, AuthenticateFails, Logout, LogoutReturns, SignedOut, Stores
  <1>6. /\ hist'.cut = hist.cut
        /\ hist' \in [root: Numbers, signed_out: BOOLEAN, unheard: BOOLEAN,
                      cut: BOOLEAN]
    <2>1. CASE Authenticate \/ AuthenticateFails
      BY <2>1, <1>0 DEF Authenticate, AuthenticateFails
    <2>2. CASE Logout
      BY <2>2, <1>0 DEF Logout
    <2>3. CASE LogoutReturns
      <3>1. (hist.unheard \/ logout.at = "sent") \in BOOLEAN
        BY <1>0
      <3> QED
        BY <2>3, <3>1, <1>0 DEF LogoutReturns
    <2> QED
      BY <2>1, <2>2, <2>3
  <1>7. /\ rows' \in Seq(Row) /\ Len(rows') = Len(rows)
        /\ \A i \in 1 .. Len(rows) : rows'[i].exchanged = rows[i].exchanged
    BY <1>0, <1>1
  <1> QED
    BY <1>1, <1>2, <1>3, <1>4, <1>5, <1>6, <1>7, RowsMove

-----------------------------------------------------------------------------
(* Steps that issue a token.                                               *)

\* The new row is the last one, and nobody holds its number.
LEMMA NewRowFact ==
    ASSUME IInv, Len(rows) < MaxRows, NEW old \in Seq(Row),
           Len(old) = Len(rows), rows' = Append(old, NewRow)
    PROVE  /\ rows' \in Seq(Row) /\ Len(rows') = Len(rows) + 1
           /\ Len(rows') <= MaxRows /\ Len(rows') \in Numbers
           /\ Len(rows') \notin Issuable /\ Len(rows') # 0
           /\ ~rows'[Len(rows')].exchanged
           /\ \A i \in 1 .. Len(rows) : rows'[i] = old[i]
           /\ Issuable \subseteq Issuable' /\ Len(rows') \in Issuable'
  <1>1. Len(rows) \in Nat /\ MaxRows \in Nat
    BY LimitAssumption DEF IInv, TypeOK
  <1> QED
    BY <1>1, NothingFact DEF Issuable, Numbers

LEMMA ServerLoginKeeps ==
    ASSUME IInv, ServerLogin, overlapped' \in BOOLEAN PROVE IInv'
  <1> DEFINE n == Len(rows) + 1
  <1>0. /\ TypeOK /\ TokensIssued /\ RequestsFormed /\ AnswersAreNew
        /\ NoSpentTokenKept /\ RetryOnNewToken
    BY DEF IInv
  <1>1. /\ login.at = "sent" /\ Len(rows) < MaxRows
        /\ rows' = Append(rows, NewRow)
        /\ login' = [login EXCEPT !.at = "answered", !.answer = n]
        /\ stored' = stored /\ refresh' = refresh /\ call' = call
        /\ logout' = logout /\ store' = store /\ hist' = hist
    BY DEF ServerLogin, Issued
  <1>2. /\ rows' \in Seq(Row) /\ Len(rows') = n
        /\ n <= MaxRows /\ n \in Numbers
        /\ n \notin Issuable /\ n # 0
        /\ ~rows'[n].exchanged
        /\ \A i \in 1 .. Len(rows) : rows'[i] = rows[i]
        /\ Issuable \subseteq Issuable' /\ n \in Issuable'
    BY <1>0, <1>1, NewRowFact DEF TypeOK
  <1>3. login' \in Request /\ login'.at = "answered" /\ login'.answer = n
    BY <1>0, <1>1, <1>2 DEF TypeOK, Request, Stages
  <1> HIDE DEF n
  <1>4. TypeOK'
    <2>1. stored' \in 0 .. Len(rows')
      BY <1>0, <1>1, <1>2 DEF TypeOK, Issuable
    <2> QED
      BY <2>1, <1>0, <1>1, <1>2, <1>3 DEF TypeOK
  <1>5. TokensIssued'
    BY <1>0, <1>1, <1>2, <1>3 DEF TokensIssued
  <1>6. RequestsFormed'
    BY <1>0, <1>1, <1>3 DEF RequestsFormed
  <1>7. \A m \in Issuable : m # 0 => rows'[m].exchanged = rows[m].exchanged
    BY <1>0, <1>2 DEF Issuable, TypeOK
  <1>8. stored \in Issuable
    BY <1>0 DEF TypeOK, Issuable
  <1>9. AnswersAreNew'
    BY <1>0, <1>1, <1>2, <1>3, <1>7, <1>8 DEF AnswersAreNew, TokensIssued
  <1>10. NoSpentTokenKept'
    BY <1>0, <1>1, <1>7, <1>8 DEF NoSpentTokenKept
  <1>11. RetryOnNewToken'
    BY <1>0, <1>1 DEF RetryOnNewToken
  <1> QED
    BY <1>4, <1>5, <1>6, <1>9, <1>10, <1>11 DEF IInv

LEMMA ServerRefreshKeeps ==
    ASSUME IInv, ServerRefresh, overlapped' \in BOOLEAN PROVE IInv'
  <1>0. /\ TypeOK /\ TokensIssued /\ RequestsFormed /\ AnswersAreNew
        /\ NoSpentTokenKept /\ RetryOnNewToken
    BY DEF IInv
  <1>1. /\ refresh.at = "sent"
        /\ stored' = stored /\ call' = call /\ login' = login
        /\ logout' = logout /\ store' = store /\ hist' = hist
    BY DEF ServerRefresh
  <1>2. CASE rows' = rows /\ refresh' = [refresh EXCEPT !.at = "answered"]
    <2>1. /\ refresh' \in Request /\ refresh'.at = "answered"
          /\ refresh'.token = refresh.token
          /\ refresh'.answer = refresh.answer /\ refresh.answer = 0
      BY <1>0, <1>1, <1>2 DEF TypeOK, Request, Stages, RequestsFormed
    <2>2. TypeOK'
      BY <1>0, <1>1, <1>2, <2>1 DEF TypeOK
    <2>3. TokensIssued' /\ RequestsFormed'
      BY <1>0, <1>1, <1>2, <2>1 DEF TokensIssued, RequestsFormed, Issuable
    <2>4. AnswersAreNew' /\ NoSpentTokenKept' /\ RetryOnNewToken'
      BY <1>0, <1>1, <1>2, <2>1
      DEF AnswersAreNew, NoSpentTokenKept, RetryOnNewToken
    <2> QED
      BY <2>2, <2>3, <2>4 DEF IInv
  <1>3. CASE /\ Len(rows) < MaxRows
             /\ rows' = Append([rows EXCEPT ![refresh.token].revoked = TRUE,
                                            ![refresh.token].exchanged = TRUE],
                               NewRow)
             /\ refresh' = [refresh EXCEPT !.at = "answered",
                                           !.answer = Len(rows) + 1]
    <2> DEFINE n == Len(rows) + 1
               spent == [rows EXCEPT ![refresh.token].revoked = TRUE,
                                     ![refresh.token].exchanged = TRUE]
    <2>1. refresh.token \in 1 .. Len(rows) /\ Len(rows) \in Nat
      BY <1>0, <1>1 DEF TokensIssued, RequestsFormed, Issuable, TypeOK
    <2>2. /\ spent \in Seq(Row) /\ Len(spent) = Len(rows)
          /\ \A i \in 1 .. Len(rows) :
                i # refresh.token => spent[i] = rows[i]
      <3>1. \A i \in 1 .. Len(rows) : rows[i] \in Row
        BY <1>0 DEF TypeOK
      <3> DEFINE row1 == [rows[refresh.token] EXCEPT !.revoked = TRUE,
                                                     !.exchanged = TRUE]
      <3>2. row1 \in Row
        BY <3>1, <2>1 DEF Row
      <3>3. spent = [rows EXCEPT ![refresh.token] = row1]
        BY <1>0, <2>1, <3>1 DEF TypeOK, Row
      <3> HIDE DEF spent, row1
      <3> QED
        BY <1>0, <2>1, <3>2, <3>3 DEF TypeOK
    <2> HIDE DEF spent
    <2>3. rows' = Append(spent, NewRow)
      BY <1>3 DEF spent
    <2>4. /\ rows' \in Seq(Row) /\ Len(rows') = n
          /\ n <= MaxRows /\ n \in Numbers
          /\ n \notin Issuable /\ n # 0
          /\ ~rows'[n].exchanged
          /\ \A i \in 1 .. Len(rows) : rows'[i] = spent[i]
          /\ Issuable \subseteq Issuable' /\ n \in Issuable'
      BY <1>3, <2>2, <2>3, NewRowFact
    <2>5. /\ refresh' \in Request /\ refresh'.at = "answered"
          /\ refresh'.token = refresh.token /\ refresh'.answer = n
      BY <1>0, <1>3, <2>4 DEF TypeOK, Request, Stages
    <2> HIDE DEF n
    <2>6. TypeOK'
      <3>1. stored' \in 0 .. Len(rows')
        BY <1>0, <1>1, <2>4 DEF TypeOK, Issuable
      <3> QED
        BY <3>1, <1>0, <1>1, <2>4, <2>5 DEF TypeOK
    <2>7. TokensIssued'
      BY <1>0, <1>1, <2>4, <2>5 DEF TokensIssued
    <2>8. RequestsFormed'
      BY <1>0, <1>1, <2>5 DEF RequestsFormed
    <2>9. \A m \in Issuable : m \notin {0, refresh.token} =>
             rows'[m].exchanged = rows[m].exchanged
      BY <2>1, <2>2, <2>4 DEF Issuable
    <2>10. stored \in Issuable
      BY <1>0 DEF TypeOK, Issuable
    <2>11. AnswersAreNew'
      <3>1. login.answer # 0 =>
               /\ ~rows'[login.answer].exchanged
               /\ login.answer \notin {stored, refresh.token, n}
        BY <1>0, <2>4, <2>9 DEF AnswersAreNew, TokensIssued
      <3>2. /\ n \notin {stored, refresh.token}
            /\ \A c \in Callers : n \notin {call[c].token, call[c].refused}
        BY <1>0, <2>4, <2>10 DEF TokensIssued
      <3> QED
        BY <3>1, <3>2, <1>1, <2>4, <2>5 DEF AnswersAreNew
    <2>12. NoSpentTokenKept'
      BY <1>0, <1>1, <2>5, <2>9, <2>10 DEF NoSpentTokenKept
    <2>13. RetryOnNewToken'
      BY <1>0, <1>1 DEF RetryOnNewToken
    <2> QED
      BY <2>6, <2>7, <2>8, <2>11, <2>12, <2>13 DEF IInv
  <1> QED
    BY <1>2, <1>3 DEF ServerRefresh

-----------------------------------------------------------------------------
(* Steps that store a token, and the reload.                               *)

\* The row of a token that the tab receives is known from then on.
LEMMA RowFact ==
    ASSUME rows \in Seq(Row), NEW n \in 1 .. Len(rows), NEW known \in Row,
           known.exchanged = rows[n].exchanged,
           rows' = [rows EXCEPT ![n] = known]
    PROVE  /\ rows' \in Seq(Row) /\ Len(rows') = Len(rows)
           /\ \A i \in 1 .. Len(rows) : rows'[i].exchanged = rows[i].exchanged
  OBVIOUS

LEMMA KnownFact ==
    ASSUME TypeOK, NEW n \in 1 .. Len(rows),
           rows' = [rows EXCEPT ![n].known = TRUE]
    PROVE  /\ rows' \in Seq(Row) /\ Len(rows') = Len(rows)
           /\ \A i \in 1 .. Len(rows) : rows'[i].exchanged = rows[i].exchanged
  <1> DEFINE known == [rows[n] EXCEPT !.known = TRUE]
  <1>1. rows[n] \in Row /\ rows \in Seq(Row)
    BY DEF TypeOK
  <1>2. known \in Row /\ known.exchanged = rows[n].exchanged
    BY <1>1 DEF Row
  <1>3. rows' = [rows EXCEPT ![n] = known]
    OBVIOUS
  <1> HIDE DEF known
  <1> QED
    BY <1>1, <1>2, <1>3, RowFact, Zenon

LEMMA RefreshReturnsKeeps ==
    ASSUME IInv, RefreshReturns, overlapped' \in BOOLEAN PROVE IInv'
  <1> DEFINE n == refresh.answer
             sent(c) == [call[c] EXCEPT !.at = "sent", !.token = n]
  <1>0. /\ TypeOK /\ TokensIssued /\ RequestsFormed /\ AnswersAreNew
        /\ NoSpentTokenKept /\ RetryOnNewToken
    BY DEF IInv
  <1>1. /\ refresh.at = "answered" /\ n # 0 /\ stored' = n
        /\ rows' = [rows EXCEPT ![n].known = TRUE]
        /\ call' = [c \in Callers |-> IF call[c].at = "waiting" THEN sent(c)
                                                                ELSE call[c]]
        /\ refresh' = NoRequest
        /\ login' = login /\ logout' = logout /\ store' = store /\ hist' = hist
    BY DEF RefreshReturns, Resumed
  <1>2. n \in 1 .. Len(rows) /\ n \in Numbers /\ n \in Issuable /\ 0 \in Issuable
    <2>1. n \in Issuable
      BY <1>0 DEF TokensIssued
    <2>2. /\ Len(rows) \in Nat /\ MaxRows \in Nat /\ Len(rows) <= MaxRows
      BY <1>0, LimitAssumption DEF TypeOK
    <2>3. n # 0
      BY <1>1
    <2> HIDE DEF n
    <2> QED
      BY <2>1, <2>2, <2>3 DEF Issuable, Numbers
  <1>3. /\ rows' \in Seq(Row) /\ Len(rows') = Len(rows)
        /\ \A i \in 1 .. Len(rows) : rows'[i].exchanged = rows[i].exchanged
        /\ Issuable' = Issuable
    BY <1>0, <1>1, <1>2, KnownFact DEF Issuable
  <1>4. \A c \in Callers :
           /\ sent(c) \in Call /\ sent(c).at = "sent" /\ sent(c).token = n
           /\ sent(c).refused = call[c].refused
    BY <1>0, <1>2 DEF TypeOK, Call, Stages
  <1> HIDE DEF sent
  <1>5. /\ call' \in [Callers -> Call]
        /\ \A c \in Callers : \/ call'[c] = call[c]
                              \/ call'[c] = sent(c)
    BY <1>0, <1>1, <1>4 DEF TypeOK
  <1>6. TypeOK'
    BY <1>0, <1>1, <1>2, <1>3, <1>5, NothingFact DEF TypeOK
  <1>7. TokensIssued'
    BY <1>0, <1>1, <1>2, <1>3, <1>4, <1>5, NothingFact DEF TokensIssued
  <1>8. RequestsFormed'
    BY <1>0, <1>1, <1>4, <1>5, NothingFact DEF RequestsFormed
  <1>9. \A m \in Issuable : m # 0 => rows'[m].exchanged = rows[m].exchanged
    BY <1>3 DEF Issuable
  <1>10. AnswersAreNew'
    BY <1>0, <1>1, <1>9, NothingFact DEF AnswersAreNew, TokensIssued
  <1>11. NoSpentTokenKept'
    BY <1>0, <1>1, <1>2, <1>9 DEF NoSpentTokenKept, AnswersAreNew
  <1>12. RetryOnNewToken'
    BY <1>0, <1>1, <1>4, <1>5 DEF RetryOnNewToken, AnswersAreNew
  <1> QED
    BY <1>6, <1>7, <1>8, <1>10, <1>11, <1>12 DEF IInv

LEMMA AuthenticateReturnsKeeps ==
    ASSUME IInv, AuthenticateReturns, overlapped' \in BOOLEAN PROVE IInv'
  <1> DEFINE n == login.answer
  <1>0. /\ TypeOK /\ TokensIssued /\ RequestsFormed /\ AnswersAreNew
        /\ NoSpentTokenKept /\ RetryOnNewToken
    BY DEF IInv
  <1>1. /\ login.at = "answered" /\ stored' = n
        /\ rows' = [rows EXCEPT ![n].known = TRUE]
        /\ store' = [authenticated |-> TRUE, restored |-> TRUE,
                     restoring |-> FALSE]
        /\ hist' = [hist EXCEPT !.root = n, !.signed_out = FALSE,
                                !.unheard = FALSE]
        /\ login' = NoRequest
        /\ refresh' = refresh /\ call' = call /\ logout' = logout
    BY DEF AuthenticateReturns
  <1>2. n \in Numbers /\ n \in Issuable /\ 0 \in Issuable
    BY <1>0, LimitAssumption DEF TokensIssued, Issuable, TypeOK, Numbers
  <1>3. /\ rows' \in Seq(Row) /\ Len(rows') = Len(rows)
        /\ \A i \in 1 .. Len(rows) : rows'[i].exchanged = rows[i].exchanged
        /\ Issuable' = Issuable
    <2>1. CASE n \in 1 .. Len(rows)
      BY <2>1, <1>0, <1>1, KnownFact DEF Issuable
    <2>2. CASE n = 0
      <3>1. rows' = rows
        BY <2>2, <1>0, <1>1 DEF TypeOK
      <3> QED
        BY <3>1, <1>0 DEF TypeOK, Issuable
    <2> QED
      BY <2>1, <2>2, <1>2 DEF Issuable
  <1>4. TypeOK'
    <2>1. store' \in Stores
      BY <1>1 DEF Stores
    <2>2. hist' \in [root: Numbers, signed_out: BOOLEAN, unheard: BOOLEAN,
                     cut: BOOLEAN]
      BY <1>0, <1>1, <1>2 DEF TypeOK
    <2>3. stored' \in 0 .. Len(rows')
      BY <1>1, <1>2, <1>3 DEF Issuable
    <2> QED
      BY <2>1, <2>2, <2>3, <1>0, <1>1, <1>3, NothingFact DEF TypeOK, Stores
  <1>5. TokensIssued'
    BY <1>0, <1>1, <1>2, <1>3, NothingFact DEF TokensIssued
  <1>6. RequestsFormed'
    BY <1>0, <1>1, NothingFact DEF RequestsFormed
  <1>7. \A m \in Issuable : m # 0 => rows'[m].exchanged = rows[m].exchanged
    BY <1>3 DEF Issuable
  <1>8. hist'.cut = hist.cut
    BY <1>0, <1>1 DEF TypeOK
  <1>9. AnswersAreNew'
    BY <1>0, <1>1, <1>7, NothingFact DEF AnswersAreNew, TokensIssued
  <1>10. NoSpentTokenKept'
    BY <1>0, <1>1, <1>2, <1>7, <1>8 DEF NoSpentTokenKept, AnswersAreNew
  <1>11. RetryOnNewToken'
    BY <1>0, <1>1 DEF RetryOnNewToken
  <1> QED
    BY <1>4, <1>5, <1>6, <1>9, <1>10, <1>11 DEF IInv

\* A refresh ends without a token: the session is cleared, or the page is
\* loaded anew.
LEMMA RefreshEnds ==
    ASSUME IInv, refresh' = NoRequest, rows' = rows,
           login' \in {login, NoRequest}, logout' \in {logout, NoRequest},
           \/ stored' = 0
           \/ stored' = stored /\ hist'.cut = (hist.cut \/ refresh.at # "none"),
           hist' \in [root: Numbers, signed_out: BOOLEAN, unheard: BOOLEAN,
                      cut: BOOLEAN],
           \A c \in Callers : call'[c] \in {call[c], NoCall},
           call' \in [Callers -> Call], store' \in Stores,
           overlapped' \in BOOLEAN
    PROVE  IInv'
  <1>0. /\ TypeOK /\ TokensIssued /\ RequestsFormed /\ AnswersAreNew
        /\ NoSpentTokenKept /\ RetryOnNewToken
    BY DEF IInv
  <1>1. /\ rows' = rows /\ Issuable' = Issuable
        /\ logout' \in Request /\ logout'.token \in {0, logout.token}
        /\ logout'.at # "none" => logout' = logout
    BY <1>0, NothingFact DEF Issuable, TypeOK
  <1>2. /\ login' \in Request /\ login'.answer \in {0, login.answer}
        /\ login'.at # "answered" => login'.answer = 0
    BY <1>0, NothingFact DEF TypeOK, RequestsFormed
  <1>3. stored' \in {0, stored} /\ 0 \in Issuable /\ stored \in Issuable
    BY <1>0 DEF TypeOK, Issuable
  <1>4. TypeOK'
    BY <1>0, <1>1, <1>2, <1>3, NothingFact DEF TypeOK, Stores, Issuable
  <1>5. TokensIssued'
    BY <1>0, <1>1, <1>2, <1>3, NothingFact DEF TokensIssued
  <1>6. RequestsFormed'
    BY <1>0, <1>1, <1>2, NothingFact DEF RequestsFormed
  <1>7. AnswersAreNew'
    BY <1>0, <1>1, <1>2, <1>3, NothingFact DEF AnswersAreNew
  <1>8. NoSpentTokenKept'
    BY <1>0, <1>1 DEF NoSpentTokenKept
  <1>9. RetryOnNewToken'
    BY <1>0, NothingFact DEF RetryOnNewToken
  <1> QED
    BY <1>4, <1>5, <1>6, <1>7, <1>8, <1>9 DEF IInv

LEMMA RefreshFailsKeeps ==
    ASSUME IInv, RefreshFails, overlapped' \in BOOLEAN PROVE IInv'
  <1>0. TypeOK
    BY DEF IInv
  <1>1. /\ stored' = 0 /\ refresh' = NoRequest
        /\ rows' = rows /\ login' = login /\ logout' = logout /\ hist' = hist
        /\ call' = [c \in Callers |->
                      IF call[c].at = "waiting" THEN NoCall ELSE call[c]]
        /\ store' = SignedOutToo
    BY DEF RefreshFails, Cleared
  <1>2. SignedOutToo \in Stores
    <2>1. (store.restoring /\ call["me"].at # "waiting") \in BOOLEAN
      BY <1>0 DEF TypeOK
    <2> QED
      BY <2>1 DEF SignedOutToo, Stores
  <1>3. /\ call' \in [Callers -> Call]
        /\ \A c \in Callers : call'[c] \in {call[c], NoCall}
    BY <1>0, <1>1, NothingFact DEF TypeOK
  <1> QED
    BY <1>0, <1>1, <1>2, <1>3, RefreshEnds DEF TypeOK

LEMMA ReloadKeeps ==
    ASSUME IInv, Reload, overlapped' \in BOOLEAN PROVE IInv'
  <1> DEFINE cut == hist.cut \/ refresh.at # "none"
  <1>0. TypeOK
    BY DEF IInv
  <1>1. /\ refresh' = NoRequest /\ login' = NoRequest /\ logout' = NoRequest
        /\ call' = [c \in Callers |-> NoCall]
        /\ store' = FreshStore /\ rows' = rows /\ stored' = stored
        /\ hist' = [hist EXCEPT !.cut = cut]
    BY DEF Reload
  <1>2. cut \in BOOLEAN
    BY <1>0 DEF TypeOK
  <1>3. /\ hist' \in [root: Numbers, signed_out: BOOLEAN, unheard: BOOLEAN,
                      cut: BOOLEAN]
        /\ hist'.cut = cut
    <2> HIDE DEF cut
    <2> QED
      BY <1>0, <1>1, <1>2 DEF TypeOK
  <1> QED
    BY <1>1, <1>3, NothingFact, RefreshEnds

-----------------------------------------------------------------------------
(* The theorems.                                                           *)

\* Every step keeps the invariant.
LEMMA NextKeeps == ASSUME IInv, Next PROVE IInv'
  <1>1. Step /\ overlapped' = (overlapped \/ Overlaps')
    BY DEF Next, Noted
  <1>2. overlapped' \in BOOLEAN
    BY <1>1 DEF IInv, TypeOK
  <1> QED
    BY <1>1, <1>2, ServerRefreshKeeps, ServerLoginKeeps, RowsAgeKeeps,
       ServerCallKeeps, StartCallKeeps, CallReturnsKeeps, RefreshReturnsKeeps,
       RefreshFailsKeeps, RestoreSessionKeeps, SignsKeep,
       AuthenticateReturnsKeeps, ReloadKeeps DEF Step

\* The invariant holds in every execution.
THEOREM Invariance == Spec => []IInv
  <1>1. IInv /\ [Next]_vars => IInv'
    BY NextKeeps, StutterKeeps
  <1> QED
    BY <1>1, InitIInv, PTL DEF Spec

\* A tab keeps no refresh token that has been exchanged, but for a reload.
THEOREM NothingSpent == Spec => []NoSpentTokenKept
  <1>1. IInv => NoSpentTokenKept
    BY DEF IInv
  <1> QED
    BY <1>1, Invariance, PTL

\* A second attempt never repeats the token of the first.
THEOREM RetriesAreNew == Spec => []RetryOnNewToken
  <1>1. IInv => RetryOnNewToken
    BY DEF IInv
  <1> QED
    BY <1>1, Invariance, PTL

-----------------------------------------------------------------------------
(* Without overlaps.                                                       *)

\* A refresh is of the stored token, which its answer replaces.
RefreshOfStored ==
    /\ refresh.at # "none" => refresh.token = stored
    /\ refresh.answer # 0 => rows[refresh.token].revoked

\* A sign-out is of the stored token.
LogoutOfStored ==
    /\ logout.at # "none" => logout.token = stored
    /\ logout.at = "answered" => rows[logout.token].revoked

\* The answer to a sign-in is newer than any session the tab has known.
LoginIsNewest ==
    /\ login.at = "answered" => login.answer # 0
    /\ login.answer # 0 => \A i \in 1 .. Len(rows) :
                              rows[i].known => i < login.answer

\* Until the session is restored nothing else goes on.
RestoringFirst ==
    /\ ~store.restored =>
          /\ ~store.authenticated
          /\ refresh.at # "none" => call["me"].at = "waiting"
          /\ \A c \in Calls : call[c].at = "none"
    /\ call["me"].at # "none" =>
          ~store.restored /\ store.restoring /\ stored # 0

\* Of the sessions known since the sign-in only the stored one may be left.
OthersEnded ==
    /\ hist.signed_out => stored = 0
    /\ (stored # 0 \/ hist.signed_out) /\ ~hist.unheard =>
          \A i \in 1 .. Len(rows) :
             rows[i].known /\ i >= hist.root /\ i # stored => rows[i].revoked

ShownIsStored == store.authenticated => stored # 0

OneAtATime == /\ RefreshOfStored /\ LogoutOfStored /\ LoginIsNewest
              /\ RestoringFirst /\ OthersEnded /\ ShownIsStored

Undisturbed == /\ Overlaps => overlapped
               /\ ~overlapped => OneAtATime

USE DEF OneAtATime

LEMMA InitUndisturbed == Init => Undisturbed
  <1> SUFFICES ASSUME Init PROVE Undisturbed
    OBVIOUS
  <1>1. /\ Len(rows) = 0 /\ "me" \in Callers /\ Calls \subseteq Callers
        /\ \A c \in Callers : call[c].at = "none"
        /\ refresh.at = "none" /\ refresh.answer = 0
        /\ login.at = "none" /\ login.answer = 0 /\ logout.at = "none"
        /\ ~hist.signed_out /\ stored = 0
        /\ ~store.authenticated
    BY NothingFact DEF Init, Callers, FreshStore
  <1> QED
    BY <1>1 DEF Undisturbed, Overlaps, RefreshOfStored, LogoutOfStored,
                LoginIsNewest, RestoringFirst, OthersEnded, ShownIsStored

\* The types of what the steps below read.
LEMMA Formed ==
    ASSUME IInv
    PROVE  /\ rows \in Seq(Row) /\ Len(rows) \in Nat
           /\ \A i \in 1 .. Len(rows) : rows[i] \in Row
           /\ stored \in 0 .. Len(rows)
           /\ refresh \in Request /\ login \in Request /\ logout \in Request
           /\ call \in [Callers -> Call] /\ store \in Stores
           /\ "me" \in Callers /\ Calls \subseteq Callers /\ "me" \notin Calls
           /\ refresh.at # "none" => refresh.token \in 1 .. Len(rows)
           /\ refresh.answer \in 0 .. Len(rows)
           /\ login.answer \in 0 .. Len(rows)
           /\ logout.at # "none" => logout.token \in 1 .. Len(rows)
           /\ refresh.at # "answered" => refresh.answer = 0
           /\ login.at # "answered" => login.answer = 0
           /\ hist \in [root: Numbers, signed_out: BOOLEAN, unheard: BOOLEAN,
                        cut: BOOLEAN]
  BY CallsAssumption
     DEF IInv, TypeOK, TokensIssued, RequestsFormed, Issuable, Stores, Callers

\* One call goes on: one of a restored session, or the one that restores it.
LEMMA CallAlone ==
    ASSUME IInv, OneAtATime, NEW c \in Callers, NEW k \in Call,
           call' = [call EXCEPT ![c] = k], store' \in Stores,
           UNCHANGED <<rows, stored, login, logout, hist>>,
           \/ refresh' = refresh
           \/ /\ refresh.at = "none" /\ stored # 0
              /\ refresh' = [NoRequest EXCEPT !.at = "sent", !.token = stored],
           \/ /\ c # "me" /\ store.restored /\ store'.restored
              /\ store'.authenticated => store.authenticated
           \/ /\ c = "me" /\ ~store.restored /\ ~store'.restored
              /\ store'.restoring /\ ~store'.authenticated /\ stored # 0
              /\ refresh'.at # "none" => k.at = "waiting"
           \/ /\ c = "me" /\ k.at = "none" /\ store'.restored
              /\ store'.authenticated => stored # 0
    PROVE  OneAtATime'
  <1>0. /\ call' \in [Callers -> Call] /\ call'[c] = k
        /\ \A b \in Callers \ {c} : call'[b] = call[b]
        /\ "me" \in Callers /\ Calls \subseteq Callers /\ "me" \notin Calls
    BY Formed
  <1>1. /\ refresh'.at # "none" => refresh'.token = stored
        /\ refresh'.answer # 0 => refresh' = refresh
    <2>1. CASE refresh' = refresh
      BY <2>1 DEF RefreshOfStored
    <2>2. CASE refresh' = [NoRequest EXCEPT !.at = "sent", !.token = stored]
      BY <2>2 DEF NoRequest
    <2> QED
      BY <2>1, <2>2
  <1>2. RefreshOfStored'
    BY <1>1 DEF RefreshOfStored
  <1>3. LogoutOfStored' /\ LoginIsNewest' /\ OthersEnded'
    BY DEF LogoutOfStored, LoginIsNewest, OthersEnded
  <1>4. RestoringFirst'
    BY <1>0 DEF RestoringFirst
  <1>5. ShownIsStored'
    BY DEF ShownIsStored
  <1> QED
    BY <1>2, <1>3, <1>4, <1>5

LEMMA FailsAlone ==
    ASSUME IInv, OneAtATime, NEW c \in Callers, NEW unauthorized \in BOOLEAN,
           Fails(c, unauthorized), c # "me" => store.restored,
           UNCHANGED <<rows, stored, login, logout, hist>>
    PROVE  OneAtATime'
  <1>1. /\ call' = [call EXCEPT ![c] = NoCall] /\ refresh' = refresh
        /\ store' = AfterFailure(c, unauthorized) /\ store' \in Stores
    BY StoreFact DEF Fails
  <1>2. CASE c = "me"
    BY <1>1, <1>2, NothingFact, CallAlone DEF AfterFailure, NotRestored
  <1>3. CASE c # "me"
    <2>1. store'.restored /\ (store'.authenticated => store.authenticated)
      BY <1>1, <1>3, Formed DEF AfterFailure, Stores
    <2> QED
      BY <1>1, <1>3, <2>1, NothingFact, CallAlone
  <1> QED
    BY <1>2, <1>3

LEMMA RotateAlone ==
    ASSUME IInv, OneAtATime, NEW c \in Callers, NEW refused \in {0, call[c].token},
           Rotate(c, refused),
           \/ c # "me" /\ store.restored
           \/ c = "me" /\ call[c].at # "none",
           UNCHANGED <<rows, stored, login, logout, hist>>
    PROVE  OneAtATime'
  <1> DEFINE k == [NoCall EXCEPT !.at = "waiting", !.refused = refused]
  <1>1. CASE Fails(c, TRUE)
    BY <1>1, FailsAlone
  <1>2. CASE /\ ~(refresh.at = "none" /\ stored = 0)
             /\ call' = [call EXCEPT ![c] = k]
             /\ refresh' = IF refresh.at # "none" THEN refresh
                           ELSE [NoRequest EXCEPT !.at = "sent", !.token = stored]
             /\ store' = store
    <2>1. refused \in Numbers
      BY LimitAssumption DEF IInv, TypeOK, Call, Numbers
    <2>2. k \in Call /\ k.at = "waiting"
      BY <2>1, NothingFact DEF Call, Stages
    <2>3. store' \in Stores
      BY <1>2, Formed
    <2>4. \/ refresh' = refresh
          \/ /\ refresh.at = "none" /\ stored # 0
             /\ refresh' = [NoRequest EXCEPT !.at = "sent", !.token = stored]
      BY <1>2
    <2>5. c = "me" => ~store.restored /\ store.restoring /\ stored # 0
                      /\ ~store.authenticated
      BY DEF RestoringFirst
    <2> HIDE DEF k
    <2> QED
      BY <1>2, <2>2, <2>3, <2>4, <2>5, CallAlone
  <1> QED
    BY <1>1, <1>2 DEF Rotate

\* A call that is under way belongs to a restored session or restores it.
LEMMA CallsAlone ==
    ASSUME IInv, OneAtATime, NEW c \in Callers,
           StartCall(c) \/ ServerCall(c) \/ CallReturns(c) \/ CallIsLost(c)
    PROVE  OneAtATime'
  <1>0. /\ call \in [Callers -> Call] /\ call[c] \in Call /\ store \in Stores
        /\ stored \in Numbers
    BY Formed, LimitAssumption DEF IInv, TypeOK, Numbers
  <1>1. CASE StartCall(c)
    <2> DEFINE k == [NoCall EXCEPT !.at = "sent", !.token = stored]
    <2>1. /\ UNCHANGED <<rows, stored, login, logout, hist>> /\ Begin(c)
          /\ c # "me" /\ store.restored
      BY <1>1, CallsAssumption DEF StartCall, RestoringFirst
    <2>2. CASE Fails(c, TRUE)
      BY <2>1, <2>2, FailsAlone
    <2>3. CASE Rotate(c, 0)
      BY <2>1, <2>3, RotateAlone
    <2>4. CASE call' = [call EXCEPT ![c] = k] /\ UNCHANGED <<refresh, store>>
      <3>1. k \in Call
        BY <1>0, NothingFact DEF Call, Stages
      <3> HIDE DEF k
      <3> QED
        BY <1>0, <2>1, <2>4, <3>1, CallAlone
    <2> QED
      BY <2>1, <2>2, <2>3, <2>4 DEF Begin
  <1>2. CASE ServerCall(c)
    <2> DEFINE ok == rows[call[c].token].access = "accepted"
               k  == [call[c] EXCEPT !.at = "answered", !.ok = ok]
    <2>1. /\ call[c].at = "sent" /\ call' = [call EXCEPT ![c] = k]
          /\ UNCHANGED <<rows, stored, refresh, login, logout, store, hist>>
      BY <1>0, <1>2 DEF ServerCall, Call
    <2>2. ok \in BOOLEAN
      OBVIOUS
    <2> HIDE DEF ok
    <2>3. k \in Call /\ k.at = "answered"
      BY <1>0, <2>2 DEF Call, Stages
    <2>4. \/ c # "me" /\ store.restored
          \/ /\ c = "me" /\ ~store.restored /\ store.restoring
             /\ ~store.authenticated /\ stored # 0 /\ refresh.at = "none"
      BY <2>1 DEF RestoringFirst, Callers
    <2> HIDE DEF k
    <2> QED
      BY <1>0, <2>1, <2>3, <2>4, CallAlone
  <1>3. CASE CallReturns(c) \/ CallIsLost(c)
    <2>1. /\ UNCHANGED <<rows, stored, login, logout, hist>>
          /\ call[c].at \in {"sent", "answered"}
      BY <1>3 DEF CallReturns, CallIsLost, SessionReadAgain
    <2>2. \/ c # "me" /\ store.restored
          \/ /\ c = "me" /\ ~store.restored /\ stored # 0
      BY <2>1 DEF RestoringFirst, Callers
    <2>3. CASE /\ call' = [call EXCEPT ![c] = NoCall]
               /\ store' = AfterSuccess(c) /\ refresh' = refresh
      <3>1. store' \in Stores
        BY <2>3, StoreFact
      <3>2. CASE c = "me"
        <4>1. store'.restored
          BY <2>3, <3>2 DEF AfterSuccess
        <4> QED
          BY <2>1, <2>2, <2>3, <3>1, <3>2, <4>1, NothingFact, CallAlone
      <3>3. CASE c # "me"
        <4>1. store' = store
          BY <2>3, <3>3 DEF AfterSuccess
        <4> QED
          BY <2>1, <2>2, <2>3, <3>1, <3>3, <4>1, NothingFact, CallAlone
      <3> QED
        BY <3>2, <3>3
    <2>4. CASE Rotate(c, call[c].token)
      BY <2>1, <2>2, <2>4, RotateAlone
    <2>5. CASE Fails(c, TRUE) \/ Fails(c, FALSE)
      BY <2>1, <2>2, <2>5, FailsAlone
    <2> QED
      BY <1>3, <2>3, <2>4, <2>5 DEF CallReturns, CallIsLost, RotateAndTryAgain
  <1> QED
    BY <1>1, <1>2, <1>3

LEMMA RestoreSessionAlone ==
    ASSUME IInv, OneAtATime, RestoreSession
    PROVE  OneAtATime'
  <1> DEFINE waits == [NoCall EXCEPT !.at = "waiting"]
             sends == [NoCall EXCEPT !.at = "sent", !.token = stored]
  <1>0. /\ "me" \in Callers /\ stored \in Numbers /\ store \in Stores
        /\ ~store.restored /\ ~store.restoring /\ ~store.authenticated
        /\ UNCHANGED <<rows, stored, login, logout, hist>>
        /\ call["me"].at = "none" /\ refresh.at = "none"
    BY Formed, LimitAssumption
       DEF RestoreSession, IInv, TypeOK, Numbers, RestoringFirst
  <1>1. CASE stored = 0
    <2>1. /\ store' = [store EXCEPT !.restored = TRUE]
          /\ UNCHANGED <<call, refresh>>
      BY <1>1 DEF RestoreSession
    <2> QED
      BY <1>0, <1>1, <2>1
         DEF Stores, RefreshOfStored, LogoutOfStored, LoginIsNewest,
             RestoringFirst, OthersEnded, ShownIsStored
  <1>2. CASE stored # 0
    <2>1. /\ waits \in Call /\ waits.at = "waiting"
          /\ sends \in Call /\ sends.at = "sent"
      BY <1>0, NothingFact DEF Call, Stages
    <2> DEFINE restoring == [store EXCEPT !.restoring = TRUE]
    <2>2. /\ restoring \in Stores /\ restoring.restoring
          /\ ~restoring.restored /\ ~restoring.authenticated
      BY <1>0 DEF Stores
    <2>3. /\ store' = restoring
          /\ \/ /\ call' = [call EXCEPT !["me"] = waits]
                /\ refresh' = [NoRequest EXCEPT !.at = "sent", !.token = stored]
             \/ /\ call' = [call EXCEPT !["me"] = sends]
                /\ refresh' = refresh
      BY <1>0, <1>2 DEF RestoreSession
    <2> HIDE DEF waits, sends, restoring
    <2>4. CASE call' = [call EXCEPT !["me"] = sends] /\ refresh' = refresh
      BY <1>0, <1>2, <2>1, <2>2, <2>3, <2>4, CallAlone
    <2>5. CASE /\ call' = [call EXCEPT !["me"] = waits]
               /\ refresh' = [NoRequest EXCEPT !.at = "sent", !.token = stored]
      BY <1>0, <1>2, <2>1, <2>2, <2>3, <2>5, CallAlone
    <2> QED
      BY <2>3, <2>4, <2>5
  <1> QED
    BY <1>1, <1>2

\* Rows may be revoked, and no others become known.
RowsStay == /\ Len(rows') = Len(rows)
            /\ \A i \in 1 .. Len(rows) :
                  /\ rows'[i].known = rows[i].known
                  /\ rows[i].revoked => rows'[i].revoked

LEMMA RowsAgeAlone ==
    ASSUME IInv, OneAtATime,
           \/ ServerLogout \/ SessionsEnd
           \/ \E i \in 1 .. Len(rows) : Expire(i)
    PROVE  OneAtATime'
  <1>0. /\ rows \in Seq(Row) /\ Len(rows) \in Nat
        /\ \A i \in 1 .. Len(rows) : rows[i] \in Row
        /\ logout \in Request
    BY Formed
  <1>1. /\ UNCHANGED <<stored, refresh, call, login, store, hist>>
        /\ logout'.at # "none" => logout.at # "none" /\ logout'.token = logout.token
    BY <1>0 DEF ServerLogout, SessionsEnd, Expire, Request
  <1>2. RowsStay /\ (ServerLogout => rows'[logout.token].revoked)
    <2>1. CASE ServerLogout
      <3>1. logout.token \in 1 .. Len(rows)
        BY <2>1, Formed DEF ServerLogout
      <3> DEFINE ended == [rows[logout.token] EXCEPT !.revoked = TRUE]
      <3>2. ended.revoked /\ ended.known = rows[logout.token].known
        BY <1>0, <3>1 DEF Row
      <3>3. rows' = [rows EXCEPT ![logout.token] = ended]
        BY <2>1 DEF ServerLogout
      <3> HIDE DEF ended
      <3> QED
        BY <1>0, <3>1, <3>2, <3>3 DEF RowsStay
    <2>2. CASE SessionsEnd /\ ~ServerLogout
      <3> DEFINE ended(i) == [rows[i] EXCEPT !.revoked = TRUE,
                                !.access = IF @ = "accepted" THEN "refused"
                                                             ELSE @]
      <3>1. \A i \in 1 .. Len(rows) :
               ended(i).revoked /\ ended(i).known = rows[i].known
        BY <1>0 DEF Row
      <3>2. rows' = [i \in 1 .. Len(rows) |-> ended(i)]
        BY <2>2 DEF SessionsEnd
      <3> HIDE DEF ended
      <3> QED
        BY <1>0, <2>2, <3>1, <3>2 DEF RowsStay
    <2>3. CASE (\E i \in 1 .. Len(rows) : Expire(i)) /\ ~ServerLogout
      <3>1. PICK i \in 1 .. Len(rows) : Expire(i)
        BY <2>3
      <3> DEFINE older == [rows[i] EXCEPT !.access =
                             IF @ = "accepted" THEN "refused" ELSE "expired"]
      <3>2. older.known = rows[i].known /\ older.revoked = rows[i].revoked
        BY <1>0 DEF Row
      <3>3. rows' = [rows EXCEPT ![i] = older]
        BY <3>1 DEF Expire
      <3> HIDE DEF older
      <3> QED
        BY <1>0, <2>3, <3>2, <3>3 DEF RowsStay
    <2> QED
      BY <2>1, <2>2, <2>3
  <1>3. RefreshOfStored'
    BY <1>1, <1>2, Formed DEF RefreshOfStored, RowsStay
  <1>4. LogoutOfStored'
    <2>1. logout'.at = "answered" => ServerLogout \/ logout' = logout
      BY DEF SessionsEnd, Expire
    <2> QED
      BY <1>1, <1>2, <2>1, Formed DEF LogoutOfStored, RowsStay
  <1>5. LoginIsNewest'
    BY <1>1, <1>2 DEF LoginIsNewest, RowsStay
  <1>6. RestoringFirst' /\ ShownIsStored'
    BY <1>1 DEF RestoringFirst, ShownIsStored
  <1>7. OthersEnded'
    BY <1>1, <1>2 DEF OthersEnded, RowsStay
  <1> QED
    BY <1>3, <1>4, <1>5, <1>6, <1>7

\* The server issues a session nobody knows yet.
LEMMA ServerIssuesAlone ==
    ASSUME IInv, OneAtATime, ~Overlaps, ServerRefresh \/ ServerLogin
    PROVE  OneAtATime'
  <1>0. /\ rows \in Seq(Row) /\ Len(rows) \in Nat
        /\ \A i \in 1 .. Len(rows) : rows[i] \in Row
        /\ refresh \in Request /\ login \in Request
        /\ stored \in 0 .. Len(rows)
    BY Formed
  <1>1. UNCHANGED <<stored, call, logout, store, hist>>
    BY DEF ServerRefresh, ServerLogin
  <1>2. CASE ServerRefresh
    <2>1. /\ refresh.at = "sent" /\ refresh.token \in 1 .. Len(rows)
          /\ login' = login /\ login.at = "none" /\ logout.at = "none"
          /\ login.answer = 0 /\ refresh.answer = 0
      BY <1>2, Formed DEF ServerRefresh, Overlaps, Request, Stages
    <2>2. CASE rows[refresh.token].revoked
      <3>1. /\ refresh' = [refresh EXCEPT !.at = "answered"] /\ rows' = rows
        BY <1>2, <2>2 DEF ServerRefresh
      <3>2. refresh'.token = refresh.token /\ refresh'.answer = 0 /\ refresh'.at # "none"
        BY <1>0, <2>1, <3>1 DEF Request
      <3> QED
        BY <1>1, <2>1, <3>1, <3>2
           DEF RefreshOfStored, LogoutOfStored, LoginIsNewest,
               RestoringFirst, OthersEnded, ShownIsStored
    <2>3. CASE ~rows[refresh.token].revoked
      <3> DEFINE spent == [rows[refresh.token] EXCEPT !.revoked = TRUE, !.exchanged = TRUE]
                 old == [rows EXCEPT ![refresh.token] = spent]
      <3>1. /\ spent \in Row /\ spent.revoked
            /\ spent.known = rows[refresh.token].known
        BY <1>0, <2>1 DEF Row
      <3>2. /\ rows' = Append(old, NewRow)
            /\ refresh' = [refresh EXCEPT !.at = "answered",
                                          !.answer = Len(rows) + 1]
        BY <1>2, <2>3 DEF ServerRefresh
      <3>3. refresh'.token = refresh.token /\ refresh'.at # "none"
        BY <1>0, <3>2 DEF Request
      <3> HIDE DEF spent
      <3>4. /\ Len(rows') = Len(rows) + 1 /\ ~rows'[Len(rows) + 1].known
            /\ rows'[refresh.token].revoked
            /\ \A i \in 1 .. Len(rows) :
                  /\ rows'[i].known = rows[i].known
                  /\ rows[i].revoked => rows'[i].revoked
        BY <1>0, <2>1, <3>1, <3>2, NothingFact DEF NewRow
      <3>5. OthersEnded'
        BY <1>0, <1>1, <3>4 DEF OthersEnded
      <3> QED
        BY <1>1, <2>1, <3>3, <3>4, <3>5
           DEF RefreshOfStored, LogoutOfStored, LoginIsNewest,
               RestoringFirst, ShownIsStored
    <2> QED
      BY <2>2, <2>3
  <1>3. CASE ServerLogin
    <2> DEFINE n == Len(rows) + 1
    <2>1. /\ rows' = Append(rows, NewRow)
          /\ login' = [login EXCEPT !.at = "answered", !.answer = n]
          /\ refresh' = refresh /\ refresh.at = "none" /\ logout.at = "none"
          /\ refresh.answer = 0
      BY <1>3, Formed DEF ServerLogin, Issued, Overlaps
    <2>2. /\ Len(rows') = n /\ ~rows'[n].known
          /\ \A i \in 1 .. Len(rows) : rows'[i] = rows[i]
      BY <1>0, <2>1, NothingFact DEF NewRow
    <2>3. login'.answer = n /\ n # 0
      BY <1>0, <2>1 DEF Request
    <2>4. LoginIsNewest'
      BY <1>0, <2>2, <2>3 DEF LoginIsNewest
    <2>5. OthersEnded'
      BY <1>0, <1>1, <2>2 DEF OthersEnded
    <2> QED
      BY <1>1, <2>1, <2>4, <2>5
         DEF RefreshOfStored, LogoutOfStored, RestoringFirst, ShownIsStored
  <1> QED
    BY <1>2, <1>3

\* The answer to a refresh takes the place of the token that has ended.
LEMMA RefreshReturnsAlone ==
    ASSUME IInv, OneAtATime, ~Overlaps, RefreshReturns
    PROVE  OneAtATime'
  <1> DEFINE n == refresh.answer
             k == [rows[n] EXCEPT !.known = TRUE]
  <1>0. /\ rows \in Seq(Row) /\ Len(rows) \in Nat
        /\ \A i \in 1 .. Len(rows) : rows[i] \in Row
        /\ stored \in 0 .. Len(rows) /\ store \in Stores
        /\ call \in [Callers -> Call] /\ "me" \in Callers
        /\ Calls \subseteq Callers
    BY Formed
  <1>1. /\ refresh.at = "answered" /\ n \in 1 .. Len(rows)
        /\ stored # 0 /\ rows[stored].revoked /\ refresh.token = stored
        /\ login.at = "none" /\ logout.at = "none" /\ login.answer = 0
    BY Formed DEF RefreshReturns, Overlaps, RefreshOfStored
  <1>2. /\ stored' = n /\ rows' = [rows EXCEPT ![n] = k]
        /\ refresh' = NoRequest
        /\ call' = [c \in Callers |-> Resumed(c)]
        /\ UNCHANGED <<login, logout, store, hist>>
    BY DEF RefreshReturns
  <1>3. k.revoked = rows[n].revoked
    BY <1>0, <1>1 DEF Row
  <1> HIDE DEF k
  <1>4. /\ Len(rows') = Len(rows)
        /\ \A i \in 1 .. Len(rows) :
              /\ rows'[i].revoked = rows[i].revoked
              /\ i # n => rows'[i] = rows[i]
    BY <1>0, <1>1, <1>2, <1>3
  <1> HIDE DEF n
  <1>5. RefreshOfStored' /\ LogoutOfStored' /\ LoginIsNewest'
    BY <1>1, <1>2, NothingFact DEF RefreshOfStored, LogoutOfStored, LoginIsNewest
  <1>6. RestoringFirst'
    <2>1. \A c \in Callers : call'[c].at = "none" <=> call[c].at = "none"
      BY <1>0, <1>2 DEF Resumed, Call
    <2> QED
      BY <1>0, <1>1, <1>2, <2>1, NothingFact DEF RestoringFirst
  <1>7. OthersEnded'
    BY <1>0, <1>1, <1>2, <1>4 DEF OthersEnded
  <1>8. ShownIsStored'
    BY <1>1, <1>2 DEF ShownIsStored
  <1> QED
    BY <1>5, <1>6, <1>7, <1>8

LEMMA RefreshFailsAlone ==
    ASSUME IInv, OneAtATime, ~Overlaps, RefreshFails
    PROVE  OneAtATime'
  <1>0. /\ stored \in 0 .. Len(rows) /\ store \in Stores
        /\ call \in [Callers -> Call] /\ "me" \in Callers
        /\ Calls \subseteq Callers
    BY Formed
  <1>1. /\ refresh.at # "none" /\ stored # 0 /\ ~hist.signed_out
        /\ login.at = "none" /\ logout.at = "none" /\ login.answer = 0
    BY Formed DEF RefreshFails, Overlaps, RefreshOfStored, OthersEnded
  <1>2. /\ stored' = 0 /\ rows' = rows /\ refresh' = NoRequest
        /\ store' = SignedOutToo
        /\ call' = [c \in Callers |->
                      IF call[c].at = "waiting" THEN NoCall ELSE call[c]]
        /\ UNCHANGED <<login, logout, hist>>
    BY DEF RefreshFails, Cleared
  <1>3. call'["me"].at = "none"
    BY <1>0, <1>1, <1>2, NothingFact DEF RestoringFirst
  <1> QED
    BY <1>1, <1>2, <1>3, NothingFact
       DEF SignedOutToo, RefreshOfStored, LogoutOfStored, LoginIsNewest,
           RestoringFirst, OthersEnded, ShownIsStored

\* Signing in and out.
LEMMA AuthenticateAlone ==
    ASSUME IInv, OneAtATime, Authenticate \/ AuthenticateFails
    PROVE  OneAtATime'
  <1>1. /\ UNCHANGED <<rows, stored, refresh, call, logout, store, hist>>
        /\ login'.at # "answered" /\ login'.answer = 0
    BY Formed, NothingFact DEF Authenticate, AuthenticateFails, Request
  <1> QED
    BY <1>1 DEF RefreshOfStored, LogoutOfStored, LoginIsNewest,
                RestoringFirst, OthersEnded, ShownIsStored

LEMMA AuthenticateReturnsAlone ==
    ASSUME IInv, OneAtATime, ~Overlaps, AuthenticateReturns
    PROVE  OneAtATime'
  <1> DEFINE n == login.answer
             k == [rows[n] EXCEPT !.known = TRUE]
  <1>0. /\ rows \in Seq(Row) /\ Len(rows) \in Nat
        /\ \A i \in 1 .. Len(rows) : rows[i] \in Row
        /\ n \in 1 .. Len(rows)
        /\ \A i \in 1 .. Len(rows) : rows[i].known => i < n
    BY Formed DEF LoginIsNewest, AuthenticateReturns
  <1>1. /\ refresh.at = "none" /\ refresh.answer = 0 /\ logout.at = "none"
        /\ call["me"].at = "none"
    BY Formed DEF AuthenticateReturns, Overlaps
  <1>2. /\ stored' = n /\ rows' = [rows EXCEPT ![n] = k]
        /\ store' = [authenticated |-> TRUE, restored |-> TRUE,
                     restoring |-> FALSE]
        /\ login' = NoRequest /\ UNCHANGED <<refresh, call, logout>>
    BY DEF AuthenticateReturns
  <1>3. hist'.root = n /\ ~hist'.signed_out
    BY Formed DEF AuthenticateReturns
  <1>4. Len(rows') = Len(rows) /\ \A i \in 1 .. Len(rows) : i # n => rows'[i] = rows[i]
    BY <1>0, <1>2
  <1> HIDE DEF n, k
  <1>5. OthersEnded'
    BY <1>0, <1>2, <1>3, <1>4 DEF OthersEnded
  <1> QED
    BY <1>0, <1>1, <1>2, <1>5, NothingFact
       DEF RefreshOfStored, LogoutOfStored, LoginIsNewest, RestoringFirst,
           ShownIsStored

LEMMA LogoutAlone ==
    ASSUME IInv, OneAtATime, Logout
    PROVE  OneAtATime'
  <1>1. /\ stored # 0 /\ UNCHANGED <<rows, stored, refresh, call, login, store, hist>>
        /\ logout' = [NoRequest EXCEPT !.at = "sent", !.token = stored]
    BY DEF Logout, ShownIsStored
  <1>2. logout'.at = "sent" /\ logout'.token = stored
    BY <1>1 DEF NoRequest
  <1> QED
    BY <1>1, <1>2 DEF RefreshOfStored, LogoutOfStored, LoginIsNewest,
                      RestoringFirst, OthersEnded, ShownIsStored

LEMMA LogoutReturnsAlone ==
    ASSUME IInv, OneAtATime, ~Overlaps, LogoutReturns
    PROVE  OneAtATime'
  <1>1. /\ refresh.at = "none" /\ refresh.answer = 0 /\ login.at = "none"
        /\ login.answer = 0 /\ call["me"].at = "none"
        /\ logout.at \in {"sent", "answered"} /\ logout.token = stored
        /\ stored # 0
    BY Formed DEF LogoutReturns, Overlaps, LogoutOfStored, Request, Stages
  <1>2. /\ stored' = 0 /\ store' = SignedOut /\ logout' = NoRequest
        /\ UNCHANGED <<rows, refresh, call, login>>
    BY DEF LogoutReturns, ClearedAnyway
  <1>3. /\ hist'.signed_out /\ hist'.root = hist.root
        /\ hist'.unheard = (hist.unheard \/ logout.at = "sent")
    BY Formed DEF LogoutReturns
  <1>4. store'.restored /\ ~store'.authenticated
    BY <1>2, Formed DEF SignedOut, Stores
  <1>5. OthersEnded'
    BY <1>1, <1>2, <1>3 DEF OthersEnded, LogoutOfStored
  <1> QED
    BY <1>1, <1>2, <1>4, <1>5, NothingFact
       DEF RefreshOfStored, LogoutOfStored, LoginIsNewest, RestoringFirst,
           ShownIsStored

\* A reload keeps the stored session and what is known of it.
LEMMA ReloadAlone ==
    ASSUME IInv, OneAtATime, Reload
    PROVE  OneAtATime'
  <1>1. /\ refresh' = NoRequest /\ login' = NoRequest /\ logout' = NoRequest
        /\ call' = [c \in Callers |-> NoCall] /\ store' = FreshStore
        /\ UNCHANGED <<rows, stored>>
    BY DEF Reload
  <1>2. /\ hist'.signed_out = hist.signed_out /\ hist'.root = hist.root
        /\ hist'.unheard = hist.unheard
    BY Formed DEF Reload
  <1>3. /\ "me" \in Callers /\ Calls \subseteq Callers
        /\ ~FreshStore.authenticated
    BY Formed DEF FreshStore
  <1> QED
    BY <1>1, <1>2, <1>3, NothingFact
       DEF RefreshOfStored, LogoutOfStored, LoginIsNewest, RestoringFirst,
           OthersEnded, ShownIsStored

\* What overlaps nothing stays so, or the history notes it.
LEMMA NextUndisturbed ==
    ASSUME IInv, Undisturbed, [Next]_vars
    PROVE  Undisturbed'
  <1>1. CASE UNCHANGED vars
    BY <1>1 DEF vars, Undisturbed, Overlaps, RefreshOfStored, LogoutOfStored,
                LoginIsNewest, RestoringFirst, OthersEnded, ShownIsStored
  <1>2. CASE Next
    <2>1. Step /\ overlapped' = (overlapped \/ Overlaps')
      BY <1>2 DEF Next, Noted
    <2>2. ASSUME ~overlapped' PROVE OneAtATime'
      <3>1. OneAtATime /\ ~Overlaps
        BY <2>1, <2>2 DEF Undisturbed
      <3> HIDE DEF OneAtATime
      <3> QED
        BY <2>1, <3>1, ServerIssuesAlone, RowsAgeAlone, CallsAlone,
           RefreshReturnsAlone, RefreshFailsAlone, RestoreSessionAlone,
           AuthenticateAlone, AuthenticateReturnsAlone, LogoutAlone,
           LogoutReturnsAlone, ReloadAlone DEF Step
    <2> QED
      BY <2>1, <2>2 DEF Undisturbed
  <1> QED
    BY <1>1, <1>2

\* While sign-ins and sign-outs overlap nothing, the steps of a session come
\* one at a time.
THEOREM StaysUndisturbed == Spec => []Undisturbed
  BY InitUndisturbed, Invariance, NextUndisturbed, PTL DEF Spec

\* A sign-out that overlaps nothing leaves no session, in the tab or on the
\* server (logout, rotateRefreshToken).
THEOREM SignOutsAreFinal == Spec => []SignOutIsFinal
  <1>1. IInv /\ Undisturbed => SignOutIsFinal
    BY Formed DEF Undisturbed, OthersEnded, SignOutIsFinal
  <1> QED
    BY <1>1, Invariance, StaysUndisturbed, PTL

\* The workspace is shown with a stored session (authenticate, logout,
\* clearSession, restoreSession).
THEOREM ShownOnlyWithSession == Spec => []ShownWithSession
  <1>1. Undisturbed => ShownWithSession
    BY DEF Undisturbed, ShownIsStored, ShownWithSession
  <1> QED
    BY <1>1, StaysUndisturbed, PTL
=============================================================================
