------------------------ MODULE AuthSessions_proofs ------------------------
(***************************************************************************)
(* Proofs about AuthSessions, for every set of users, passwords, sessions, *)
(* tokens and requests.                                                    *)
(***************************************************************************)
EXTENDS AuthSessions, FiniteSetTheorems, TLAPS

\* What a waiting request still knows: the row it has read exists, and the row
\* it replaces has been revoked and belongs to the same user.
HandlersBacked ==
    \A r \in Requests :
        /\ handler[r].next \in {"rotate", "logout"} => Granted(handler[r].session)
        /\ handler[r].next = "reset" => token[handler[r].token].user # NoUser
        /\ (handler[r].next = "issue" /\ handler[r].parent # NoSession) =>
               /\ session[handler[r].parent].revoked
               /\ session[handler[r].parent].user = handler[r].user

\* Rows that do not exist yet are blank.
BlankRows == \A s \in SessionIds : ~Granted(s) => session[s] = NoSessionRow

IInv ==
    /\ TypeOK
    /\ BlankRows
    /\ HandlersBacked
    /\ RotationChain
    /\ NoActiveSessionPredatesReset

-----------------------------------------------------------------------------
(* The invariant.                                                          *)

LEMMA InitIInv == Init => IInv
<1> SUFFICES ASSUME Init PROVE IInv
    OBVIOUS
<1> USE NoUserAssumption, NoSessionAssumption, MaxResetsAssumption DEF Init
<1>1. TypeOK
    BY DEF TypeOK, SessionRow, TokenRow, NoSessionRow, NoTokenRow, Continuation
<1>2. BlankRows
    BY DEF BlankRows, Granted
<1>3. HandlersBacked
    BY DEF HandlersBacked, Idle
<1>4. RotationChain
    BY DEF RotationChain, NoSessionRow
<1>5. NoActiveSessionPredatesReset
    BY DEF NoActiveSessionPredatesReset, Active, Granted, NoSessionRow
<1>6. QED
    BY <1>1, <1>2, <1>3, <1>4, <1>5 DEF IInv

\* A step that only moves one request, without touching a row.
LEMMA ReadStepIInv ==
    ASSUME IInv, NEW r \in Requests, NEW c \in Continuation,
           handler' = [handler EXCEPT ![r] = c],
           UNCHANGED <<password, session, token, resets>>,
           c.next \in {"rotate", "logout"} => Granted(c.session),
           c.next = "reset" => token[c.token].user # NoUser,
           c.next = "issue" => c.parent = NoSession
    PROVE  IInv'
<1> USE NoUserAssumption, NoSessionAssumption DEF IInv
<1>1. TypeOK'
    BY DEF TypeOK
<1>2. BlankRows'
    BY DEF BlankRows, Granted
<1>3. HandlersBacked'
    BY DEF HandlersBacked, Granted, TypeOK
<1>4. RotationChain'
    BY DEF RotationChain
<1>5. NoActiveSessionPredatesReset'
    BY DEF NoActiveSessionPredatesReset, Active, Granted
<1>6. QED
    BY <1>1, <1>2, <1>3, <1>4, <1>5

LEMMA IssueIInv ==
    ASSUME IInv, NEW r \in Requests, NEW s \in SessionIds, IssueSession(r, s)
    PROVE  IInv'
<1> USE NoUserAssumption, NoSessionAssumption, MaxResetsAssumption DEF IInv
<1> DEFINE row == [user |-> handler[r].user, parent |-> handler[r].parent,
                   revoked |-> FALSE, expired |-> FALSE,
                   born |-> resets[handler[r].user]]
<1>1. /\ handler[r] \in [next: {"issue"}, user: Users,
                         parent: SessionIds \cup {NoSession}, seen: 0..MaxResets]
      /\ session' = [session EXCEPT ![s] = row]
      /\ handler' = [handler EXCEPT ![r] = Idle]
      /\ UNCHANGED <<password, token, resets>>
      /\ session[s] = NoSessionRow
    BY DEF IssueSession, TypeOK, Continuation, Idle, BlankRows
<1>2. row \in SessionRow /\ row.user \in Users
    BY <1>1 DEF SessionRow, TypeOK
<1> HIDE DEF row
<1>3. TypeOK'
    BY <1>1, <1>2 DEF TypeOK, Continuation
<1>4. BlankRows'
    BY <1>1, <1>2 DEF BlankRows, Granted, TypeOK
<1>5. HandlersBacked'
  <2> SUFFICES ASSUME NEW q \in Requests
               PROVE  /\ handler'[q].next \in {"rotate", "logout"} => Granted(handler[q].session)'
                      /\ handler'[q].next = "reset" => token'[handler'[q].token].user # NoUser
                      /\ (handler'[q].next = "issue" /\ handler'[q].parent # NoSession) =>
                             /\ session'[handler'[q].parent].revoked
                             /\ session'[handler'[q].parent].user = handler'[q].user
      BY DEF HandlersBacked
  <2>1. CASE q = r
      BY <1>1, <2>1 DEF TypeOK, Idle
  <2>2. CASE q # r
    <3>1. handler'[q] = handler[q] /\ handler[q] \in Continuation
        BY <1>1, <2>2 DEF TypeOK
    <3>2. \A p \in SessionIds : p # s => session'[p] = session[p]
        BY <1>1 DEF TypeOK
    <3>3. ~Granted(s) /\ ~session[s].revoked
        BY <1>1 DEF Granted, NoSessionRow
    <3>4. QED
        BY <1>1, <3>1, <3>2, <3>3 DEF HandlersBacked, Granted, Continuation, Idle
  <2>3. QED
      BY <2>1, <2>2
<1>6. RotationChain'
  <2> SUFFICES ASSUME NEW t \in SessionIds, session'[t].parent # NoSession
               PROVE  /\ session'[session'[t].parent].revoked
                      /\ session'[session'[t].parent].user = session'[t].user
      BY DEF RotationChain
  <2>1. \A p \in SessionIds : p # s => session'[p] = session[p]
      BY <1>1 DEF TypeOK
  <2>2. ~session[s].revoked
      BY <1>1 DEF NoSessionRow
  <2>3. CASE t = s
    <3>1. session'[t] = row
        BY <1>1, <2>3 DEF TypeOK
    <3>2. row.parent = handler[r].parent /\ row.user = handler[r].user
        BY DEF row
    <3>3. /\ session[handler[r].parent].revoked
          /\ session[handler[r].parent].user = handler[r].user
        BY <1>1, <3>1, <3>2 DEF HandlersBacked
    <3>4. QED
        BY <1>1, <2>1, <2>2, <3>1, <3>2, <3>3
  <2>4. CASE t # s
    <3>1. session'[t] = session[t] /\ session[t] \in SessionRow
        BY <2>1, <2>4 DEF TypeOK
    <3>2. session[session[t].parent].revoked /\ session[session[t].parent].user = session[t].user
        BY <3>1 DEF RotationChain
    <3>3. QED
        BY <2>1, <2>2, <3>1, <3>2 DEF SessionRow
  <2>5. QED
      BY <2>3, <2>4
<1>7. NoActiveSessionPredatesReset'
  <2> SUFFICES ASSUME NEW t \in SessionIds, Active(t)'
               PROVE  session'[t].born = resets'[session'[t].user]
      BY DEF NoActiveSessionPredatesReset
  <2>1. CASE t = s
      BY <1>1, <2>1 DEF row, TypeOK
  <2>2. CASE t # s
    <3>1. session'[t] = session[t]
        BY <1>1, <2>2 DEF TypeOK
    <3>2. Active(t)
        BY <3>1 DEF Active, Granted
    <3>3. QED
        BY <1>1, <3>1, <3>2 DEF NoActiveSessionPredatesReset
  <2>3. QED
      BY <2>1, <2>2
<1>8. QED
    BY <1>3, <1>4, <1>5, <1>6, <1>7

\* A step in which rows of sessions end and none begins keeps what the rows say
\* of each other, and a request that does not move keeps its backing.
LEMMA RowsEnd ==
    ASSUME IInv, session' \in [SessionIds -> SessionRow],
           \A s \in SessionIds :
               /\ session'[s].user = session[s].user
               /\ session'[s].parent = session[s].parent
               /\ session'[s].born = session[s].born
               /\ session[s].revoked => session'[s].revoked
               /\ Active(s)' => Active(s)
               /\ ~Granted(s) => session'[s] = session[s],
           \A t \in TokenIds : token'[t].user = token[t].user
    PROVE  /\ BlankRows'
           /\ RotationChain'
           /\ UNCHANGED resets => NoActiveSessionPredatesReset'
           /\ UNCHANGED handler => HandlersBacked'
           /\ \A r \in Requests :
                 handler' = [handler EXCEPT ![r] = Idle] => HandlersBacked'
<1> USE NoSessionAssumption DEF IInv
<1>1. BlankRows'
    BY DEF BlankRows, Granted
<1>2. RotationChain'
    BY DEF RotationChain, SessionRow, TypeOK
<1>3. UNCHANGED resets => NoActiveSessionPredatesReset'
    BY DEF NoActiveSessionPredatesReset
<1>4. \A q \in Requests : handler[q] \in Continuation
    BY DEF TypeOK
<1>5. UNCHANGED handler => HandlersBacked'
    BY <1>4 DEF HandlersBacked, Granted, Continuation, Idle
<1>6. ASSUME NEW r \in Requests, handler' = [handler EXCEPT ![r] = Idle]
      PROVE  HandlersBacked'
  <2>1. \A q \in Requests : handler'[q] = Idle \/ handler'[q] = handler[q]
      BY <1>6 DEF TypeOK
  <2>2. QED
      BY <1>4, <2>1 DEF HandlersBacked, Granted, Continuation, Idle
<1>7. QED
    BY <1>1, <1>2, <1>3, <1>5, <1>6

\* The revocation of one granted row, on behalf of whatever handler.
LEMMA RevokeRow ==
    ASSUME IInv, NEW s \in SessionIds, Granted(s), Revoke(s)
    PROVE  /\ session' \in [SessionIds -> SessionRow]
           /\ session'[s].revoked
           /\ \A q \in SessionIds :
                 /\ session'[q].user = session[q].user
                 /\ session'[q].parent = session[q].parent
                 /\ session'[q].born = session[q].born
                 /\ session[q].revoked => session'[q].revoked
                 /\ Active(q)' => Active(q)
                 /\ ~Granted(q) => session'[q] = session[q]
BY DEF IInv, TypeOK, Revoke, SessionRow, Granted, Active

LEMMA LogoutRevokeIInv ==
    ASSUME IInv, NEW r \in Requests, LogoutRevokeSession(r)
    PROVE  IInv'
<1> DEFINE s == handler[r].session
<1>1. s \in SessionIds /\ Granted(s) /\ Revoke(s)
    BY DEF IInv, TypeOK, LogoutRevokeSession, Continuation, Idle, HandlersBacked
<1>2. TypeOK'
    BY <1>1, RevokeRow DEF IInv, TypeOK, LogoutRevokeSession, Continuation
<1>3. UNCHANGED <<token, resets>> /\ handler' = [handler EXCEPT ![r] = Idle]
    BY DEF LogoutRevokeSession
<1>4. QED
    BY <1>1, <1>2, <1>3, RevokeRow, RowsEnd DEF IInv

LEMMA InvalidateIInv ==
    ASSUME IInv, NEW u \in Users, NEW s \in SessionIds, InvalidateSession(u, s)
    PROVE  IInv'
<1>1. Granted(s) /\ Revoke(s)
    BY NoUserAssumption DEF InvalidateSession, Granted, Revoke
<1>2. UNCHANGED <<password, token, handler, resets>>
    BY DEF InvalidateSession
<1>3. TypeOK'
    BY <1>1, <1>2, RevokeRow DEF IInv, TypeOK
<1>4. QED
    BY <1>1, <1>2, <1>3, RevokeRow, RowsEnd DEF IInv

LEMMA RefreshRevokeIInv ==
    ASSUME IInv, NEW r \in Requests, RefreshRevokeSession(r)
    PROVE  IInv'
<1> DEFINE s == handler[r].session
           c == [next |-> "issue", user |-> session[s].user, parent |-> s, seen |-> handler[r].seen]
<1>1. s \in SessionIds /\ handler[r].seen \in 0..MaxResets /\ Granted(s) /\ Revoke(s)
    BY DEF IInv, TypeOK, RefreshRevokeSession, Continuation, Idle, HandlersBacked
<1>2. UNCHANGED <<password, token, resets>> /\ handler' = [handler EXCEPT ![r] = c]
    BY DEF RefreshRevokeSession
<1>3. c \in Continuation
    BY <1>1 DEF IInv, TypeOK, SessionRow, Granted, Continuation
<1> HIDE DEF s
<1>4. TypeOK'
    BY <1>1, <1>2, <1>3, RevokeRow DEF IInv, TypeOK
<1>5. HandlersBacked'
  <2>1. \A q \in Requests : q # r => handler'[q] = handler[q] /\ handler[q] \in Continuation
      BY <1>2 DEF IInv, TypeOK
  <2>2. handler'[r] = c
      BY <1>2 DEF IInv, TypeOK
  <2>3. /\ session'[s].revoked
        /\ \A q \in SessionIds : /\ session'[q].user = session[q].user
                                 /\ session[q].revoked => session'[q].revoked
      BY <1>1, RevokeRow
  <2>4. QED
      BY <1>1, <1>2, <2>1, <2>2, <2>3, NoSessionAssumption
      DEF IInv, HandlersBacked, Granted, Continuation, Idle
<1>6. QED
    BY <1>1, <1>2, <1>4, <1>5, RevokeRow, RowsEnd DEF IInv

LEMMA CompleteTransactionIInv ==
    ASSUME IInv, NEW r \in Requests, CompleteTransaction(r)
    PROVE  IInv'
<1> USE MaxResetsAssumption
<1> DEFINE t == handler[r].token
           u == token[t].user
<1>1. t \in TokenIds /\ u \in Users /\ handler[r].password \in Passwords
    BY DEF IInv, TypeOK, CompleteTransaction, Continuation, Idle, HandlersBacked, TokenRow
<1>2. /\ resets[u] < MaxResets
      /\ token[t].applied < MaxResets
      /\ password' = [password EXCEPT ![u] = handler[r].password]
      /\ token' = [token EXCEPT ![t].used = TRUE, ![t].applied = @ + 1]
      /\ RevokeAllOf(u)
      /\ resets' = [resets EXCEPT ![u] = @ + 1]
      /\ handler' = [handler EXCEPT ![r] = Idle]
    BY DEF CompleteTransaction
<1> HIDE DEF u, t
<1>3. session' \in [SessionIds -> SessionRow]
    BY <1>2 DEF IInv, TypeOK, RevokeAllOf, SessionRow
<1>4. \A s \in SessionIds :
          /\ session'[s].user = session[s].user
          /\ session'[s].parent = session[s].parent
          /\ session'[s].born = session[s].born
          /\ session[s].revoked => session'[s].revoked
          /\ Active(s)' => Active(s) /\ session[s].user # u
          /\ ~Granted(s) => session'[s] = session[s]
    BY <1>1, <1>2, NoUserAssumption DEF IInv, TypeOK, RevokeAllOf, SessionRow, Granted, Active
<1>5. \A q \in TokenIds : token'[q].user = token[q].user
    BY <1>2 DEF IInv, TypeOK, TokenRow
<1>6. token' \in [TokenIds -> TokenRow]
    BY <1>1, <1>2 DEF IInv, TypeOK, TokenRow
<1>7. resets' \in [Users -> 0..MaxResets]
    BY <1>1, <1>2 DEF IInv, TypeOK
<1>8. TypeOK'
    BY <1>1, <1>2, <1>3, <1>6, <1>7 DEF IInv, TypeOK, Continuation
<1>9. NoActiveSessionPredatesReset'
    BY <1>1, <1>2, <1>4 DEF IInv, TypeOK, NoActiveSessionPredatesReset
<1>10. QED
    BY <1>2, <1>3, <1>4, <1>5, <1>8, <1>9, RowsEnd DEF IInv

LEMMA ExpiryIInv ==
    ASSUME IInv, NEW s \in SessionIds, SessionExpires(s)
    PROVE  IInv'
<1>1. UNCHANGED <<password, token, handler, resets>>
    BY DEF SessionExpires
<1>2. session' \in [SessionIds -> SessionRow]
    BY DEF IInv, TypeOK, SessionExpires, SessionRow
<1>3. \A q \in SessionIds :
          /\ session'[q].user = session[q].user
          /\ session'[q].parent = session[q].parent
          /\ session'[q].born = session[q].born
          /\ session[q].revoked => session'[q].revoked
          /\ Active(q)' => Active(q)
          /\ ~Granted(q) => session'[q] = session[q]
    BY DEF IInv, TypeOK, SessionExpires, SessionRow, Granted, Active
<1>4. TypeOK'
    BY <1>1, <1>2 DEF IInv, TypeOK
<1>5. QED
    BY <1>1, <1>2, <1>3, <1>4, RowsEnd DEF IInv

\* The steps that only touch tokens: a new one, or one that expires.
LEMMA TokenStepIInv ==
    ASSUME IInv, NEW t \in TokenIds,
           TokenExpires(t) \/ \E u \in Users : RequestPasswordReset(u, t)
    PROVE  IInv'
<1>1. UNCHANGED <<password, session, handler, resets>>
    BY DEF TokenExpires, RequestPasswordReset
<1>2. token' \in [TokenIds -> TokenRow]
    BY DEF IInv, TypeOK, TokenExpires, RequestPasswordReset, TokenRow
<1>3. \A q \in TokenIds : token[q].user # NoUser => token'[q].user # NoUser
    BY NoUserAssumption DEF IInv, TypeOK, TokenExpires, RequestPasswordReset, TokenRow
<1>4. TypeOK'
    BY <1>1, <1>2 DEF IInv, TypeOK
<1>5. HandlersBacked'
    BY <1>1, <1>3 DEF IInv, TypeOK, HandlersBacked, Granted, Continuation, Idle
<1>6. BlankRows' /\ RotationChain' /\ NoActiveSessionPredatesReset'
    BY <1>1 DEF IInv, BlankRows, RotationChain, NoActiveSessionPredatesReset, Granted, Active
<1>7. QED
    BY <1>4, <1>5, <1>6 DEF IInv

\* The steps in which a request starts or fails.
LEMMA RequestStepIInv ==
    ASSUME IInv, NEW r \in Requests,
           \/ \E u \in Users, guess \in Passwords : LoginFindUser(r, u, guess)
           \/ \E s \in SessionIds : RefreshFindSession(r, s) \/ LogoutFindSession(r, s)
           \/ \E t \in TokenIds, new \in Passwords : CompleteFindToken(r, t, new)
           \/ RequestFails(r)
    PROVE  IInv'
<1>1. CASE \E u \in Users, guess \in Passwords : LoginFindUser(r, u, guess)
  <2>1. PICK u \in Users, guess \in Passwords : LoginFindUser(r, u, guess)
      BY <1>1
  <2> DEFINE c == [next |-> "issue", user |-> u, parent |-> NoSession, seen |-> resets[u]]
  <2>2. c \in Continuation /\ c.next = "issue" /\ c.parent = NoSession
      BY DEF IInv, TypeOK, Continuation
  <2>3. handler' = [handler EXCEPT ![r] = c] /\ UNCHANGED <<password, session, token, resets>>
      BY <2>1 DEF LoginFindUser
  <2> HIDE DEF c
  <2>4. QED
      BY <2>2, <2>3, ReadStepIInv
<1>2. CASE \E s \in SessionIds : RefreshFindSession(r, s)
  <2>1. PICK s \in SessionIds : RefreshFindSession(r, s)
      BY <1>2
  <2> DEFINE c == [next |-> "rotate", session |-> s, seen |-> resets[session[s].user]]
  <2>2. Granted(s) /\ session[s].user \in Users
      BY <2>1 DEF RefreshFindSession, Active, Granted, IInv, TypeOK, SessionRow
  <2>3. c \in Continuation /\ c.next = "rotate" /\ c.session = s
      BY <2>2 DEF IInv, TypeOK, Continuation
  <2>4. handler' = [handler EXCEPT ![r] = c] /\ UNCHANGED <<password, session, token, resets>>
      BY <2>1 DEF RefreshFindSession
  <2> HIDE DEF c
  <2>5. QED
      BY <2>2, <2>3, <2>4, ReadStepIInv
<1>3. CASE \E s \in SessionIds : LogoutFindSession(r, s)
  <2>1. PICK s \in SessionIds : LogoutFindSession(r, s)
      BY <1>3
  <2> DEFINE c == [next |-> "logout", session |-> s]
  <2>2. Granted(s)
      BY <2>1 DEF LogoutFindSession, Active
  <2>3. c \in Continuation /\ c.next = "logout" /\ c.session = s
      BY DEF Continuation
  <2>4. handler' = [handler EXCEPT ![r] = c] /\ UNCHANGED <<password, session, token, resets>>
      BY <2>1 DEF LogoutFindSession
  <2> HIDE DEF c
  <2>5. QED
      BY <2>2, <2>3, <2>4, ReadStepIInv
<1>4. CASE \E t \in TokenIds, new \in Passwords : CompleteFindToken(r, t, new)
  <2>1. PICK t \in TokenIds, new \in Passwords : CompleteFindToken(r, t, new)
      BY <1>4
  <2> DEFINE c == [next |-> "reset", token |-> t, password |-> new]
  <2>2. token[t].user # NoUser
      BY <2>1 DEF CompleteFindToken, Redeemable
  <2>3. c \in Continuation /\ c.next = "reset" /\ c.token = t
      BY DEF Continuation
  <2>4. handler' = [handler EXCEPT ![r] = c] /\ UNCHANGED <<password, session, token, resets>>
      BY <2>1 DEF CompleteFindToken
  <2> HIDE DEF c
  <2>5. QED
      BY <2>2, <2>3, <2>4, ReadStepIInv
<1>5. CASE RequestFails(r)
  <2>1. Idle \in Continuation /\ Idle.next = "idle"
      BY DEF Idle, Continuation
  <2>2. handler' = [handler EXCEPT ![r] = Idle] /\ UNCHANGED <<password, session, token, resets>>
      BY <1>5 DEF RequestFails
  <2>3. QED
      BY <2>1, <2>2, ReadStepIInv
<1>6. QED
    BY <1>1, <1>2, <1>3, <1>4, <1>5

\* Every step of the service and of its environment keeps the invariant.
LEMMA StepIInv == IInv /\ [Next]_vars => IInv'
<1> SUFFICES ASSUME IInv, [Next]_vars PROVE IInv'
    OBVIOUS
<1>1. CASE UNCHANGED vars
    BY <1>1 DEF vars, IInv, TypeOK, BlankRows, HandlersBacked, RotationChain,
                NoActiveSessionPredatesReset, Granted, Active
<1>2. CASE Next
    BY <1>2, RequestStepIInv, IssueIInv, RefreshRevokeIInv, LogoutRevokeIInv, InvalidateIInv,
       CompleteTransactionIInv, ExpiryIInv, TokenStepIInv DEF Next
<1>3. QED
    BY <1>1, <1>2

\* The inductive invariant: the types, the blank rows, the backing of the
\* requests in flight and the two properties of the rows it supports.
THEOREM InvariantHolds == Spec => []IInv
BY InitIInv, StepIInv, PTL DEF Spec

-----------------------------------------------------------------------------
(* The properties.                                                         *)

\* The tables and the continuations always have the shape the code gives them.
THEOREM TypeCorrect == Spec => []TypeOK
<1>1. IInv => TypeOK
    BY DEF IInv
<1>2. QED
    BY <1>1, InvariantHolds, PTL

\* However refreshes, logouts, invalidations and password resets interleave,
\* what a session replaces has been revoked and stays so.
THEOREM RotationChainHolds == Spec => []RotationChain
<1>1. IInv => RotationChain
    BY DEF IInv
<1>2. QED
    BY <1>1, InvariantHolds, PTL

\* No session that existed at a password change is usable after it.
THEOREM NoActiveSessionPredatesResetHolds == Spec => []NoActiveSessionPredatesReset
<1>1. IInv => NoActiveSessionPredatesReset
    BY DEF IInv
<1>2. QED
    BY <1>1, InvariantHolds, PTL

\* A refresh that starts after an exchange of its token has completed is refused.
THEOREM ExchangedTokenRefusedHolds == Spec => ExchangedTokenRefused
<1> DEFINE Refused ==
        \A r \in Requests, s \in SessionIds :
            (handler[r] = Idle /\ handler'[r].next = "rotate" /\ handler'[r].session = s)
                => Successors(s) = {}
<1>1. IInv /\ [Next]_vars => [Refused]_vars
  <2> SUFFICES ASSUME IInv, Next, NEW r \in Requests, NEW s \in SessionIds,
                      handler[r] = Idle, handler'[r].next = "rotate", handler'[r].session = s
               PROVE  Successors(s) = {}
      OBVIOUS
  <2>1. Active(s)
    <3>1. handler'[r] # handler[r]
        BY DEF Idle
    <3>2. CASE \E q \in Requests, u \in Users, guess \in Passwords : LoginFindUser(q, u, guess)
        BY <3>1, <3>2 DEF LoginFindUser, IInv, TypeOK
    <3>3. CASE \E q \in Requests, p \in SessionIds : RefreshFindSession(q, p)
        BY <3>1, <3>3 DEF RefreshFindSession, IInv, TypeOK
    <3>4. CASE \E q \in Requests, p \in SessionIds : LogoutFindSession(q, p)
        BY <3>1, <3>4 DEF LogoutFindSession, IInv, TypeOK
    <3>5. CASE \E q \in Requests, t \in TokenIds, new \in Passwords : CompleteFindToken(q, t, new)
        BY <3>1, <3>5 DEF CompleteFindToken, IInv, TypeOK
    <3>6. CASE \E q \in Requests : RefreshRevokeSession(q)
        BY <3>1, <3>6 DEF RefreshRevokeSession, IInv, TypeOK, Idle
    <3>7. CASE \E q \in Requests :
                  \/ \E p \in SessionIds : IssueSession(q, p)
                  \/ LogoutRevokeSession(q)
                  \/ CompleteTransaction(q)
                  \/ RequestFails(q)
        BY <3>1, <3>7 DEF IssueSession, LogoutRevokeSession, CompleteTransaction, RequestFails,
                          IInv, TypeOK
    <3>8. CASE \/ \E u \in Users, p \in SessionIds : InvalidateSession(u, p)
               \/ \E u \in Users, t \in TokenIds : RequestPasswordReset(u, t)
               \/ \E p \in SessionIds : SessionExpires(p)
               \/ \E t \in TokenIds : TokenExpires(t)
        BY <3>1, <3>8 DEF InvalidateSession, RequestPasswordReset, SessionExpires, TokenExpires
    <3>9. QED
        BY <3>2, <3>3, <3>4, <3>5, <3>6, <3>7, <3>8 DEF Next
  <2>2. QED
      BY <2>1, NoSessionAssumption DEF Active, Successors, IInv, RotationChain
<1>2. QED
    BY <1>1, InvariantHolds, PTL DEF Spec, ExchangedTokenRefused

-----------------------------------------------------------------------------
(* The bounds on what overlapping requests can do with one token.          *)

\* The sessions that a refresh token has opened took the place of requests that
\* were going to open them; so they are finitely many.
Exchanges(s) ==
    /\ IsFiniteSet(Successors(s))
    /\ Cardinality(Successors(s)) + Cardinality(Refreshing(s)) <= Cardinality(Requests)

\* A token that was not used has changed no password.
UnusedChangesNothing == \A t \in TokenIds : ~token[t].used => token[t].applied = 0

Changes(t) == token[t].applied + Cardinality(Completing(t)) <= Cardinality(Requests)

FanOut ==
    /\ \A s \in SessionIds : Exchanges(s)
    /\ UnusedChangesNothing
    /\ \A t \in TokenIds : Changes(t)

\* Sets of requests are finite, and no larger than that of all requests.
LEMMA SetsOfRequests ==
    ASSUME NEW R \in SUBSET Requests
    PROVE  /\ IsFiniteSet(R)
           /\ Cardinality(R) \in Nat /\ Cardinality(Requests) \in Nat
           /\ Cardinality(R) <= Cardinality(Requests)
           /\ \A Q \in SUBSET R : IsFiniteSet(Q) /\ Cardinality(Q) \in Nat
                                  /\ Cardinality(Q) <= Cardinality(R)
           /\ \A r \in R : Cardinality(R \ {r}) = Cardinality(R) - 1
<1>1. IsFiniteSet(R) /\ Cardinality(R) <= Cardinality(Requests)
    BY RequestsAssumption, FS_Subset
<1>2. Cardinality(R) \in Nat /\ Cardinality(Requests) \in Nat
    BY <1>1, RequestsAssumption, FS_CardinalityType
<1>3. \A Q \in SUBSET R : IsFiniteSet(Q) /\ Cardinality(Q) <= Cardinality(R)
    BY <1>1, FS_Subset
<1>4. \A Q \in SUBSET R : Cardinality(Q) \in Nat
    BY <1>3, FS_CardinalityType
<1>5. \A r \in R : Cardinality(R \ {r}) = Cardinality(R) - 1
    BY <1>1, FS_RemoveElement
<1>6. QED
    BY <1>1, <1>2, <1>3, <1>4, <1>5

LEMMA UnderWay ==
    ASSUME NEW s, NEW t
    PROVE  /\ Refreshing(s) \in SUBSET Requests /\ Refreshing(s)' \in SUBSET Requests
           /\ Completing(t) \in SUBSET Requests /\ Completing(t)' \in SUBSET Requests
BY DEF Refreshing, Completing

\* Nothing is exchanged: fewer requests are under way, or all of them found a
\* token that was not exchanged before.
LEMMA ExchangesKept ==
    ASSUME NEW s \in SessionIds, Exchanges(s), Successors(s)' = Successors(s),
           Refreshing(s)' \subseteq Refreshing(s) \/ Successors(s) = {}
    PROVE  Exchanges(s)'
<1>1. Cardinality(Successors(s)) \in Nat /\ IsFiniteSet(Successors(s)')
    BY FS_CardinalityType DEF Exchanges
<1>2. CASE Refreshing(s)' \subseteq Refreshing(s)
  <2>1. /\ Cardinality(Refreshing(s)') \in Nat /\ Cardinality(Refreshing(s)) \in Nat
        /\ Cardinality(Requests) \in Nat
        /\ Cardinality(Refreshing(s)') <= Cardinality(Refreshing(s))
      BY <1>2, UnderWay, SetsOfRequests
  <2>2. Cardinality(Successors(s)') + Cardinality(Refreshing(s)') <= Cardinality(Requests)
      BY <1>1, <2>1 DEF Exchanges
  <2>3. QED
      BY <1>1, <2>2 DEF Exchanges
<1>3. CASE Successors(s) = {}
  <2>1. Cardinality(Successors(s)') = 0
      BY <1>3, FS_EmptySet
  <2>2. /\ Cardinality(Refreshing(s)') \in Nat /\ Cardinality(Requests) \in Nat
        /\ Cardinality(Refreshing(s)') <= Cardinality(Requests)
      BY UnderWay, SetsOfRequests
  <2>3. Cardinality(Successors(s)') + Cardinality(Refreshing(s)') <= Cardinality(Requests)
      BY <2>1, <2>2
  <2>4. QED
      BY <1>1, <2>3 DEF Exchanges
<1>4. QED
    BY <1>2, <1>3

LEMMA ChangesKept ==
    ASSUME NEW t \in TokenIds, Changes(t), token[t].applied \in Nat,
           token'[t].applied = token[t].applied,
           Completing(t)' \subseteq Completing(t) \/ token[t].applied = 0
    PROVE  Changes(t)'
<1>1. CASE Completing(t)' \subseteq Completing(t)
  <2>1. /\ Cardinality(Completing(t)') \in Nat /\ Cardinality(Completing(t)) \in Nat
        /\ Cardinality(Requests) \in Nat
        /\ Cardinality(Completing(t)') <= Cardinality(Completing(t))
      BY <1>1, UnderWay, SetsOfRequests
  <2>2. token'[t].applied + Cardinality(Completing(t)') <= Cardinality(Requests)
      BY <2>1 DEF Changes
  <2>3. QED
      BY <2>2 DEF Changes
<1>2. CASE token[t].applied = 0
  <2>1. /\ Cardinality(Completing(t)') \in Nat /\ Cardinality(Requests) \in Nat
        /\ Cardinality(Completing(t)') <= Cardinality(Requests)
      BY UnderWay, SetsOfRequests
  <2>2. token'[t].applied + Cardinality(Completing(t)') <= Cardinality(Requests)
      BY <1>2, <2>1
  <2>3. QED
      BY <2>2 DEF Changes
<1>3. QED
    BY <1>1, <1>2

\* A session takes the place of the request that opens it.
LEMMA IssueFanOut ==
    ASSUME IInv, FanOut, NEW r \in Requests, NEW q \in SessionIds, IssueSession(r, q)
    PROVE  FanOut'
<1>1. /\ handler[r].next = "issue" /\ handler[r].parent \in SessionIds \cup {NoSession}
      /\ handler' = [handler EXCEPT ![r] = Idle] /\ UNCHANGED token
      /\ session[q].parent = NoSession
      /\ \A p \in SessionIds : session'[p].parent =
            IF p = q THEN handler[r].parent ELSE session[p].parent
    BY DEF IssueSession, IInv, TypeOK, Continuation, Idle, BlankRows, NoSessionRow, SessionRow
<1>2. \A x \in Requests : handler'[x] = IF x = r THEN Idle ELSE handler[x]
    BY <1>1 DEF IInv, TypeOK
<1>3. ASSUME NEW s \in SessionIds PROVE Exchanges(s)'
  <2>1. s # NoSession /\ Exchanges(s)
      BY NoSessionAssumption DEF FanOut
  <2>2. CASE handler[r].parent = s
    <3>1. q \notin Successors(s) /\ Successors(s)' = Successors(s) \cup {q}
        BY <1>1, <2>1, <2>2 DEF Successors
    <3>2. r \in Refreshing(s) /\ Refreshing(s)' = Refreshing(s) \ {r}
        BY <1>1, <1>2, <2>2 DEF Refreshing, Idle
    <3>3. /\ IsFiniteSet(Successors(s)') /\ Cardinality(Successors(s)) \in Nat
          /\ Cardinality(Successors(s)') = Cardinality(Successors(s)) + 1
        BY <2>1, <3>1, FS_AddElement, FS_CardinalityType DEF Exchanges
    <3>4. /\ Cardinality(Refreshing(s)) \in Nat /\ Cardinality(Requests) \in Nat
          /\ Cardinality(Refreshing(s)') = Cardinality(Refreshing(s)) - 1
        BY <3>2, UnderWay, SetsOfRequests
    <3>5. Cardinality(Successors(s)') + Cardinality(Refreshing(s)') <= Cardinality(Requests)
        BY <2>1, <3>3, <3>4 DEF Exchanges
    <3>6. QED
        BY <3>3, <3>5 DEF Exchanges
  <2>3. CASE handler[r].parent # s
    <3>1. Successors(s)' = Successors(s)
        BY <1>1, <2>1, <2>3 DEF Successors
    <3>2. Refreshing(s)' \subseteq Refreshing(s)
        BY <1>2 DEF Refreshing, Idle
    <3>3. QED
        BY <2>1, <3>1, <3>2, ExchangesKept
  <2>4. QED
      BY <2>2, <2>3
<1>4. ASSUME NEW t \in TokenIds PROVE Changes(t)'
  <2>1. Completing(t)' \subseteq Completing(t)
      BY <1>2 DEF Completing, Idle
  <2>2. token[t].applied \in Nat
      BY MaxResetsAssumption DEF IInv, TypeOK, TokenRow
  <2>3. QED
      BY <1>1, <2>1, <2>2, ChangesKept DEF FanOut
<1>5. QED
    BY <1>1, <1>3, <1>4 DEF FanOut, UnusedChangesNothing

\* A password change takes the place of the request that makes it.
LEMMA CompleteFanOut ==
    ASSUME IInv, FanOut, NEW r \in Requests, CompleteTransaction(r)
    PROVE  FanOut'
<1> DEFINE d == handler[r].token
<1>1. /\ handler[r].next = "reset" /\ d \in TokenIds
      /\ handler' = [handler EXCEPT ![r] = Idle]
      /\ token' = [token EXCEPT ![d].used = TRUE, ![d].applied = @ + 1]
      /\ \A p \in SessionIds : session'[p].parent = session[p].parent
    BY DEF CompleteTransaction, RevokeAllOf, IInv, TypeOK, Continuation, Idle, SessionRow
<1>2. \A x \in Requests : handler'[x] = IF x = r THEN Idle ELSE handler[x]
    BY <1>1 DEF IInv, TypeOK
<1>3. /\ token'[d].used /\ token'[d].applied = token[d].applied + 1
      /\ \A t \in TokenIds : t # d => token'[t] = token[t]
      /\ \A t \in TokenIds : token[t].applied \in Nat
    BY <1>1, MaxResetsAssumption DEF IInv, TypeOK, TokenRow
<1>4. ASSUME NEW s \in SessionIds PROVE Exchanges(s)'
  <2>1. Successors(s)' = Successors(s) /\ Refreshing(s)' \subseteq Refreshing(s)
      BY <1>1, <1>2 DEF Successors, Refreshing, Idle
  <2>2. QED
      BY <2>1, ExchangesKept DEF FanOut
<1> HIDE DEF d
<1>5. ASSUME NEW t \in TokenIds PROVE Changes(t)'
  <2>1. CASE t = d
    <3>1. r \in Completing(t) /\ Completing(t)' = Completing(t) \ {r}
        BY <1>1, <1>2, <2>1 DEF Completing, Idle, d
    <3>2. /\ Cardinality(Completing(t)) \in Nat /\ Cardinality(Requests) \in Nat
          /\ Cardinality(Completing(t)') = Cardinality(Completing(t)) - 1
        BY <3>1, UnderWay, SetsOfRequests
    <3>3. token'[t].applied + Cardinality(Completing(t)') <= Cardinality(Requests)
        BY <1>3, <2>1, <3>2 DEF FanOut, Changes
    <3>4. QED
        BY <3>3 DEF Changes
  <2>2. CASE t # d
    <3>1. Completing(t)' \subseteq Completing(t) /\ token'[t] = token[t]
        BY <1>2, <1>3, <2>2 DEF Completing, Idle
    <3>2. QED
        BY <1>3, <3>1, ChangesKept DEF FanOut
  <2>3. QED
      BY <2>1, <2>2
<1>6. UnusedChangesNothing'
    BY <1>1, <1>3 DEF FanOut, UnusedChangesNothing
<1>7. QED
    BY <1>4, <1>5, <1>6 DEF FanOut

\* Any other step of a request: it finds what nobody has exchanged, or goes on.
LEMMA RequestFanOut ==
    ASSUME IInv, FanOut, NEW r \in Requests, NEW c,
           handler' = [handler EXCEPT ![r] = c], UNCHANGED token,
           \A p \in SessionIds : session'[p].parent = session[p].parent,
           c.next = "rotate" => Successors(c.session) = {},
           (c.next = "issue" /\ c.parent \in SessionIds) => r \in Refreshing(c.parent),
           c.next = "reset" => token[c.token].applied = 0
    PROVE  FanOut'
<1>1. \A x \in Requests : handler'[x] = IF x = r THEN c ELSE handler[x]
    BY DEF IInv, TypeOK
<1>2. ASSUME NEW s \in SessionIds PROVE Exchanges(s)'
  <2>1. Successors(s)' = Successors(s)
      BY DEF Successors
  <2>2. Refreshing(s)' \subseteq Refreshing(s) \/ Successors(s) = {}
      BY <1>1 DEF Refreshing
  <2>3. QED
      BY <2>1, <2>2, ExchangesKept DEF FanOut
<1>3. ASSUME NEW t \in TokenIds PROVE Changes(t)'
  <2>1. Completing(t)' \subseteq Completing(t) \/ token[t].applied = 0
      BY <1>1 DEF Completing
  <2>2. token[t].applied \in Nat
      BY MaxResetsAssumption DEF IInv, TypeOK, TokenRow
  <2>3. QED
      BY <2>1, <2>2, ChangesKept DEF FanOut
<1>4. QED
    BY <1>2, <1>3 DEF FanOut, UnusedChangesNothing

\* A step that no request makes.
LEMMA RowFanOut ==
    ASSUME IInv, FanOut, UNCHANGED handler,
           \A p \in SessionIds : session'[p].parent = session[p].parent,
           \A t \in TokenIds : /\ token'[t].applied = token[t].applied
                               /\ token'[t].used = token[t].used
    PROVE  FanOut'
<1>1. ASSUME NEW s \in SessionIds PROVE Exchanges(s)'
  <2>1. Successors(s)' = Successors(s) /\ Refreshing(s)' = Refreshing(s)
      BY DEF Successors, Refreshing
  <2>2. QED
      BY <2>1, ExchangesKept DEF FanOut
<1>2. ASSUME NEW t \in TokenIds PROVE Changes(t)'
  <2>1. Completing(t)' = Completing(t)
      BY DEF Completing
  <2>2. QED
      BY <2>1 DEF FanOut, Changes
<1>3. QED
    BY <1>1, <1>2 DEF FanOut, UnusedChangesNothing

LEMMA StepFanOut == IInv /\ FanOut /\ [Next]_vars => FanOut'
<1> SUFFICES ASSUME IInv, FanOut, [Next]_vars PROVE FanOut'
    OBVIOUS
<1>1. CASE UNCHANGED vars
    BY <1>1, RowFanOut DEF vars
<1>2. CASE \E r \in Requests, u \in Users, guess \in Passwords : LoginFindUser(r, u, guess)
  <2>1. PICK r \in Requests, u \in Users, guess \in Passwords : LoginFindUser(r, u, guess)
      BY <1>2
  <2> DEFINE c == [next |-> "issue", user |-> u, parent |-> NoSession, seen |-> resets[u]]
  <2>2. handler' = [handler EXCEPT ![r] = c] /\ UNCHANGED <<session, token>>
      BY <2>1 DEF LoginFindUser
  <2>3. c.next = "issue" /\ c.parent \notin SessionIds
      BY NoSessionAssumption
  <2> HIDE DEF c
  <2>4. QED
      BY <2>2, <2>3, RequestFanOut
<1>3. CASE \E r \in Requests, s \in SessionIds : RefreshFindSession(r, s)
  <2>1. PICK r \in Requests, s \in SessionIds : RefreshFindSession(r, s)
      BY <1>3
  <2> DEFINE c == [next |-> "rotate", session |-> s, seen |-> resets[session[s].user]]
  <2>2. handler' = [handler EXCEPT ![r] = c] /\ UNCHANGED <<session, token>>
      BY <2>1 DEF RefreshFindSession
  <2>3. Successors(s) = {}
      BY <2>1, NoSessionAssumption DEF RefreshFindSession, Active, Successors, IInv, RotationChain
  <2>4. c.next = "rotate" /\ c.session = s
      OBVIOUS
  <2> HIDE DEF c
  <2>5. QED
      BY <2>2, <2>3, <2>4, RequestFanOut
<1>4. CASE \E r \in Requests : RefreshRevokeSession(r)
  <2>1. PICK r \in Requests : RefreshRevokeSession(r)
      BY <1>4
  <2> DEFINE s == handler[r].session
             c == [next |-> "issue", user |-> session[s].user, parent |-> s, seen |-> handler[r].seen]
  <2>2. handler' = [handler EXCEPT ![r] = c] /\ UNCHANGED token
      BY <2>1 DEF RefreshRevokeSession
  <2>3. s \in SessionIds /\ \A p \in SessionIds : session'[p].parent = session[p].parent
      BY <2>1 DEF RefreshRevokeSession, Revoke, IInv, TypeOK, Continuation, Idle, SessionRow
  <2>4. c.next = "issue" /\ c.parent = s /\ r \in Refreshing(s)
      BY <2>1 DEF RefreshRevokeSession, Refreshing
  <2> HIDE DEF c, s
  <2>5. QED
      BY <2>2, <2>3, <2>4, RequestFanOut
<1>5. CASE \E r \in Requests, s \in SessionIds : LogoutFindSession(r, s)
  <2>1. PICK r \in Requests, s \in SessionIds : LogoutFindSession(r, s)
      BY <1>5
  <2> DEFINE c == [next |-> "logout", session |-> s]
  <2>2. c.next = "logout" /\ handler' = [handler EXCEPT ![r] = c] /\ UNCHANGED <<session, token>>
      BY <2>1 DEF LogoutFindSession
  <2> HIDE DEF c
  <2>3. QED
      BY <2>2, RequestFanOut
<1>6. CASE \E r \in Requests, t \in TokenIds, new \in Passwords : CompleteFindToken(r, t, new)
  <2>1. PICK r \in Requests, t \in TokenIds, new \in Passwords : CompleteFindToken(r, t, new)
      BY <1>6
  <2> DEFINE c == [next |-> "reset", token |-> t, password |-> new]
  <2>2. c.next = "reset" /\ c.token = t /\ handler' = [handler EXCEPT ![r] = c]
        /\ UNCHANGED <<session, token>>
      BY <2>1 DEF CompleteFindToken
  <2>3. token[t].applied = 0
      BY <2>1 DEF CompleteFindToken, Redeemable, FanOut, UnusedChangesNothing
  <2> HIDE DEF c
  <2>4. QED
      BY <2>2, <2>3, RequestFanOut
<1>7. CASE \E r \in Requests : LogoutRevokeSession(r) \/ RequestFails(r)
  <2>1. PICK r \in Requests : LogoutRevokeSession(r) \/ RequestFails(r)
      BY <1>7
  <2>2. handler' = [handler EXCEPT ![r] = Idle] /\ UNCHANGED token /\ Idle.next = "idle"
      BY <2>1 DEF LogoutRevokeSession, RequestFails, Idle
  <2>3. \A p \in SessionIds : session'[p].parent = session[p].parent
      BY <2>1 DEF LogoutRevokeSession, RequestFails, Revoke, IInv, TypeOK, SessionRow
  <2>4. QED
      BY <2>2, <2>3, RequestFanOut
<1>8. CASE \/ \E u \in Users, s \in SessionIds : InvalidateSession(u, s)
           \/ \E u \in Users, t \in TokenIds : RequestPasswordReset(u, t)
           \/ \E s \in SessionIds : SessionExpires(s)
           \/ \E t \in TokenIds : TokenExpires(t)
  <2>1. UNCHANGED handler
      BY <1>8 DEF InvalidateSession, RequestPasswordReset, SessionExpires, TokenExpires
  <2>2. \A p \in SessionIds : session'[p].parent = session[p].parent
      BY <1>8 DEF InvalidateSession, RequestPasswordReset, SessionExpires, TokenExpires,
                  IInv, TypeOK, SessionRow
  <2>3. \A t \in TokenIds : token'[t].applied = token[t].applied /\ token'[t].used = token[t].used
      BY <1>8 DEF InvalidateSession, RequestPasswordReset, SessionExpires, TokenExpires,
                  IInv, TypeOK, TokenRow
  <2>4. QED
      BY <2>1, <2>2, <2>3, RowFanOut
<1>9. QED
    BY <1>1, <1>2, <1>3, <1>4, <1>5, <1>6, <1>7, <1>8, IssueFanOut, CompleteFanOut DEF Next

LEMMA InitFanOut == Init => FanOut
<1> SUFFICES ASSUME Init PROVE FanOut
    OBVIOUS
<1>1. ASSUME NEW s \in SessionIds PROVE Exchanges(s)
  <2>1. Successors(s) = {} /\ Refreshing(s) = {}
      BY NoSessionAssumption DEF Init, Successors, Refreshing, NoSessionRow, Idle
  <2>2. Cardinality(Requests) \in Nat
      BY RequestsAssumption, FS_CardinalityType
  <2>3. QED
      BY <2>1, <2>2, FS_EmptySet DEF Exchanges
<1>2. ASSUME NEW t \in TokenIds PROVE Changes(t)
  <2>1. token[t].applied = 0 /\ Completing(t) = {}
      BY DEF Init, Completing, NoTokenRow, Idle
  <2>2. Cardinality(Requests) \in Nat
      BY RequestsAssumption, FS_CardinalityType
  <2>3. QED
      BY <2>1, <2>2, FS_EmptySet DEF Changes
<1>3. UnusedChangesNothing
    BY DEF Init, UnusedChangesNothing, NoTokenRow
<1>4. QED
    BY <1>1, <1>2, <1>3 DEF FanOut

\* The bounds, with what they rest on.
THEOREM FanOutHolds == Spec => []FanOut
BY InitFanOut, StepFanOut, InvariantHolds, PTL DEF Spec

\* However many refreshes of one token overlap, and however their successors are
\* logged out or reset, it is exchanged at most once per request served at a time.
THEOREM RotationFanOutHolds == Spec => []RotationFanOut
<1>1. FanOut => RotationFanOut
    BY DEF FanOut, Exchanges, RotationFanOut
<1>2. QED
    BY <1>1, FanOutHolds, PTL

\* A reset token changes at most one password per request served at a time.
THEOREM ResetFanOutHolds == Spec => []ResetFanOut
<1>1. FanOut => ResetFanOut
    BY DEF FanOut, Changes, ResetFanOut
<1>2. QED
    BY <1>1, FanOutHolds, PTL

\* A completion that starts after its token has changed a password is refused: the
\* first change marks the token, and nothing takes the mark away.
THEOREM UsedTokenRefusedHolds == Spec => UsedTokenRefused
<1> DEFINE Refused ==
        \A r \in Requests, t \in TokenIds :
            (handler[r] = Idle /\ handler'[r].next = "reset" /\ handler'[r].token = t)
                => token[t].applied = 0
<1>1. IInv /\ FanOut /\ [Next]_vars => [Refused]_vars
  <2> SUFFICES ASSUME IInv, FanOut, Next, NEW r \in Requests, NEW t \in TokenIds,
                      handler[r] = Idle, handler'[r].next = "reset", handler'[r].token = t
               PROVE  token[t].applied = 0
      OBVIOUS
  <2>1. Redeemable(t)
    <3>1. handler'[r] # handler[r]
        BY DEF Idle
    <3>2. CASE \E q \in Requests, u \in Users, guess \in Passwords : LoginFindUser(q, u, guess)
        BY <3>1, <3>2 DEF LoginFindUser, IInv, TypeOK
    <3>3. CASE \E q \in Requests, p \in SessionIds :
                   RefreshFindSession(q, p) \/ LogoutFindSession(q, p)
        BY <3>1, <3>3 DEF RefreshFindSession, LogoutFindSession, IInv, TypeOK
    <3>4. CASE \E q \in Requests, d \in TokenIds, new \in Passwords : CompleteFindToken(q, d, new)
        BY <3>1, <3>4 DEF CompleteFindToken, IInv, TypeOK
    <3>5. CASE \E q \in Requests : RefreshRevokeSession(q)
        BY <3>1, <3>5 DEF RefreshRevokeSession, IInv, TypeOK, Idle
    <3>6. CASE \E q \in Requests :
                  \/ \E p \in SessionIds : IssueSession(q, p)
                  \/ LogoutRevokeSession(q)
                  \/ CompleteTransaction(q)
                  \/ RequestFails(q)
        BY <3>1, <3>6 DEF IssueSession, LogoutRevokeSession, CompleteTransaction, RequestFails,
                          IInv, TypeOK
    <3>7. CASE \/ \E u \in Users, p \in SessionIds : InvalidateSession(u, p)
               \/ \E u \in Users, d \in TokenIds : RequestPasswordReset(u, d)
               \/ \E p \in SessionIds : SessionExpires(p)
               \/ \E d \in TokenIds : TokenExpires(d)
        BY <3>1, <3>7 DEF InvalidateSession, RequestPasswordReset, SessionExpires, TokenExpires
    <3>8. QED
        BY <3>2, <3>3, <3>4, <3>5, <3>6, <3>7 DEF Next
  <2>2. QED
      BY <2>1 DEF Redeemable, FanOut, UnusedChangesNothing
<1>2. QED
    BY <1>1, InvariantHolds, FanOutHolds, PTL DEF Spec, UsedTokenRefused

-----------------------------------------------------------------------------
(* AuthSessions implements SessionRegistry.                                *)

\* The service implements the abstract registry: sessions end for good, a
\* successor follows an ended session of the same user, and a password change
\* ends all live sessions of that user and of nobody else.
THEOREM Implementation == Spec => ImplementsRegistry
<1>1. Init => Registry!RegistryInit
    BY DEF Init, Registry!RegistryInit, Granted, NoSessionRow
<1>2. IInv /\ [Next]_vars => [Registry!RegistryNext]_(Registry!registryVars)
  <2> SUFFICES ASSUME IInv, [Next]_vars
               PROVE  Registry!RegistryNext \/ UNCHANGED Registry!registryVars
      OBVIOUS
  <2> USE NoUserAssumption, NoSessionAssumption DEF IInv
  <2>1. ASSUME UNCHANGED <<session, resets>>
        PROVE  UNCHANGED Registry!registryVars
      BY <2>1 DEF Registry!registryVars, Granted, Active
  <2>2. ASSUME NEW s \in SessionIds, Granted(s), UNCHANGED resets,
               \/ Revoke(s)
               \/ session' = [session EXCEPT ![s].expired = TRUE]
        PROVE  Registry!End(s) \/ UNCHANGED Registry!registryVars
    <3>1. \A q \in SessionIds : session[q] \in SessionRow
        BY DEF TypeOK
    <3>2. CASE Active(s)
      <4>1. \A q \in SessionIds : q # s => session'[q] = session[q]
          BY <2>2 DEF Revoke, TypeOK
      <4>2. /\ session'[s].user = session[s].user
            /\ session'[s].parent = session[s].parent
            /\ ~Active(s)' /\ Granted(s)'
          BY <2>2, <3>1 DEF Revoke, Active, Granted, TypeOK, SessionRow
      <4>3. QED
          BY <2>2, <3>2, <4>1, <4>2 DEF Registry!End, Granted, Active
    <3>3. CASE ~Active(s)
      <4>1. UNCHANGED Registry!registryVars
          BY <2>2, <3>1, <3>3 DEF Registry!registryVars, Revoke, Granted, Active, TypeOK, SessionRow
      <4>2. QED
          BY <4>1
    <3>4. QED
        BY <3>2, <3>3
  <2>3. ASSUME NEW r \in Requests, NEW s \in SessionIds, IssueSession(r, s)
        PROVE  \E u \in Users, p \in SessionIds \cup {NoSession} : Registry!Grant(s, u, p)
    <3> DEFINE u == handler[r].user
               p == handler[r].parent
    <3>1. handler[r] \in [next: {"issue"}, user: Users,
                          parent: SessionIds \cup {NoSession}, seen: 0..MaxResets]
        BY <2>3 DEF IssueSession, TypeOK, Continuation, Idle
    <3>2. u \in Users /\ p \in SessionIds \cup {NoSession}
        BY <3>1
    <3>3. p # NoSession => Granted(p) /\ ~Active(p) /\ session[p].user = u
        BY <2>3, <3>1, <3>2 DEF IssueSession, HandlersBacked, Active, Granted
    <3>4. session' = [session EXCEPT ![s] = [user |-> u, parent |-> p, revoked |-> FALSE,
                                             expired |-> FALSE, born |-> resets[u]]]
        BY <2>3 DEF IssueSession
    <3>5. ~Granted(s) /\ UNCHANGED resets
        BY <2>3 DEF IssueSession
    <3> HIDE DEF u, p
    <3>6. Registry!Grant(s, u, p)
        BY <3>2, <3>3, <3>4, <3>5 DEF Registry!Grant, Granted, Active, TypeOK
    <3>7. QED
        BY <3>2, <3>6, Zenon DEF Registry!Grant
  <2>4. ASSUME NEW r \in Requests, CompleteTransaction(r)
        PROVE  \E u \in Users : Registry!ChangePassword(u)
    <3> DEFINE u == token[handler[r].token].user
    <3>1. u \in Users
        BY <2>4 DEF TypeOK, CompleteTransaction, Continuation, Idle, HandlersBacked, TokenRow
    <3>2. RevokeAllOf(u) /\ resets' = [resets EXCEPT ![u] = @ + 1]
        BY <2>4 DEF CompleteTransaction
    <3> HIDE DEF u
    <3>3. Registry!ChangePassword(u)
        BY <3>1, <3>2 DEF Registry!ChangePassword, RevokeAllOf, Granted, Active, TypeOK, SessionRow
    <3>4. QED
        BY <3>1, <3>3
  <2>5. ASSUME NEW r \in Requests, RefreshRevokeSession(r) \/ LogoutRevokeSession(r)
        PROVE  Registry!RegistryNext \/ UNCHANGED Registry!registryVars
    <3>1. /\ handler[r].session \in SessionIds
          /\ Granted(handler[r].session)
          /\ Revoke(handler[r].session)
          /\ UNCHANGED resets
        BY <2>5 DEF TypeOK, RefreshRevokeSession, LogoutRevokeSession, Continuation, Idle,
                    HandlersBacked
    <3>2. QED
        BY <2>2, <3>1 DEF Registry!RegistryNext
  <2>6. ASSUME NEW s \in SessionIds,
               SessionExpires(s) \/ \E u \in Users : InvalidateSession(u, s)
        PROVE  Registry!RegistryNext \/ UNCHANGED Registry!registryVars
    <3>1. /\ Granted(s)
          /\ UNCHANGED resets
          /\ Revoke(s) \/ session' = [session EXCEPT ![s].expired = TRUE]
        BY <2>6 DEF SessionExpires, InvalidateSession, Active, Granted, Revoke
    <3>2. QED
        BY <2>2, <3>1 DEF Registry!RegistryNext
  <2>7. ASSUME \/ \E r \in Requests :
                    \/ \E u \in Users, guess \in Passwords : LoginFindUser(r, u, guess)
                    \/ \E s \in SessionIds : RefreshFindSession(r, s) \/ LogoutFindSession(r, s)
                    \/ \E t \in TokenIds, new \in Passwords : CompleteFindToken(r, t, new)
                    \/ RequestFails(r)
               \/ \E u \in Users, t \in TokenIds : RequestPasswordReset(u, t)
               \/ \E t \in TokenIds : TokenExpires(t)
               \/ UNCHANGED vars
        PROVE  UNCHANGED <<session, resets>>
      BY <2>7 DEF LoginFindUser, RefreshFindSession, LogoutFindSession, CompleteFindToken,
                  RequestFails, RequestPasswordReset, TokenExpires, vars
  <2>8. QED
      BY <2>1, <2>3, <2>4, <2>5, <2>6, <2>7 DEF Next, Registry!RegistryNext
<1>3. QED
    BY <1>1, <1>2, InvariantHolds, PTL DEF Spec, ImplementsRegistry, Registry!RegistrySpec

=============================================================================
