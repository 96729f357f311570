---------------------------- MODULE AuthSessions ----------------------------
(***************************************************************************)
(* The session side of AuthService (modules/auth/auth.service.ts) as it    *)
(* runs against the database.                                              *)
(*                                                                         *)
(* A handler runs without interruption between two awaits and every await  *)
(* on Prisma lets the other requests run.  A request that waits is a       *)
(* continuation: a record of what it has read and of what it does next.    *)
(* Awaits on bcrypt and on the JWT library touch no shared state and are   *)
(* joined to the database step before them.  A call that throws or returns *)
(* early changes nothing and is a stuttering step.                         *)
(*                                                                         *)
(* A refresh token is named by the session it opens: tokens are random and *)
(* the sessions table holds their hashes.                                  *)
(***************************************************************************)
EXTENDS Naturals, FiniteSets

CONSTANTS
    Users,          \* rows of users
    Passwords,      \* what a user may choose (12 characters or more)
    SessionIds,     \* rows of sessions that can come to exist
    TokenIds,       \* rows of password_reset_tokens that can come to exist
    Requests,       \* HTTP requests the process can serve at the same time
    MaxResets,      \* bound: password changes counted per user
    NoUser, NoSession

ASSUME RequestsAssumption == IsFiniteSet(Requests)
ASSUME NoUserAssumption == NoUser \notin Users
ASSUME NoSessionAssumption == NoSession \notin SessionIds
ASSUME MaxResetsAssumption == MaxResets \in Nat

VARIABLES
    password,   \* users.passwordHash
    session,    \* sessions
    token,      \* password_reset_tokens
    handler,    \* the continuation of each request
    resets      \* history: committed password changes of each user

vars == <<password, session, token, handler, resets>>

(***************************************************************************)
(* Rows.  revoked stands for revokedAt being set (rotatedAt, which         *)
(* revokeSession sets with it, is never read by a handler), expired for    *)
(* expiresAt being past.  parent and born are history: the session this    *)
(* one replaced, and resets[user] when the row was created; so is applied, *)
(* the number of password changes made with a token, and seen in a         *)
(* continuation, resets[user] when the request checked its authority.      *)
(***************************************************************************)
SessionRow ==
    [user: Users \cup {NoUser}, parent: SessionIds \cup {NoSession},
     revoked: BOOLEAN, expired: BOOLEAN, born: 0..MaxResets]

TokenRow == [user: Users \cup {NoUser}, used: BOOLEAN, expired: BOOLEAN, applied: 0..MaxResets]

NoSessionRow ==
    [user |-> NoUser, parent |-> NoSession, revoked |-> FALSE, expired |-> FALSE, born |-> 0]

NoTokenRow == [user |-> NoUser, used |-> FALSE, expired |-> FALSE, applied |-> 0]

Idle == [next |-> "idle"]

Continuation ==
    {Idle}
    \cup [next: {"issue"}, user: Users, parent: SessionIds \cup {NoSession}, seen: 0..MaxResets]
    \cup [next: {"rotate"}, session: SessionIds, seen: 0..MaxResets]
    \cup [next: {"logout"}, session: SessionIds]
    \cup [next: {"reset"}, token: TokenIds, password: Passwords]

TypeOK ==
    /\ password \in [Users -> Passwords]
    /\ session \in [SessionIds -> SessionRow]
    /\ token \in [TokenIds -> TokenRow]
    /\ handler \in [Requests -> Continuation]
    /\ resets \in [Users -> 0..MaxResets]

Granted(s) == session[s].user # NoUser

\* Mutant: the where clause forgets revokedAt.
ActiveIfUnexpired(s) == Granted(s) /\ ~session[s].expired

\* findActiveSession, the where clause: a row that is not revoked and not expired.
Active(s) == Granted(s) /\ ~session[s].revoked /\ ~session[s].expired

\* Mutant: the where clause forgets usedAt.
RedeemableIfUnexpired(t) == token[t].user # NoUser /\ ~token[t].expired

\* The where clause of completePasswordReset.
Redeemable(t) == token[t].user # NoUser /\ ~token[t].used /\ ~token[t].expired

Init ==
    /\ password \in [Users -> Passwords]
    /\ session = [s \in SessionIds |-> NoSessionRow]
    /\ token = [t \in TokenIds |-> NoTokenRow]
    /\ handler = [r \in Requests |-> Idle]
    /\ resets = [u \in Users |-> 0]

-----------------------------------------------------------------------------
(* login: findUser, compare with the hash of the row read, sign, create.   *)

\* A user with 2FA on is asked for a code, and any code is let through.
LoginFindUser(r, u, guess) ==
    /\ handler[r] = Idle
    /\ guess = password[u]
    /\ handler' = [handler EXCEPT ![r] =
                      [next |-> "issue", user |-> u, parent |-> NoSession, seen |-> resets[u]]]
    /\ UNCHANGED <<password, session, token, resets>>

\* issueTokens and createSession: the row of the new refresh token.
IssueSession(r, s) ==
    /\ handler[r].next = "issue"
    /\ ~Granted(s)
    /\ session' = [session EXCEPT ![s] =
                      [user |-> handler[r].user, parent |-> handler[r].parent,
                       revoked |-> FALSE, expired |-> FALSE,
                       born |-> resets[handler[r].user]]]
    /\ handler' = [handler EXCEPT ![r] = Idle]
    /\ UNCHANGED <<password, token, resets>>

-----------------------------------------------------------------------------
(* refresh: findActiveSession, findUserById (reads a row that is never     *)
(* deleted), revokeSession, issueTokens.                                   *)

RefreshFindSession(r, s) ==
    /\ handler[r] = Idle
    /\ Active(s)
    /\ handler' = [handler EXCEPT ![r] =
                      [next |-> "rotate", session |-> s, seen |-> resets[session[s].user]]]
    /\ UNCHANGED <<password, session, token, resets>>

\* Mutant: the update records rotatedAt and forgets revokedAt.
RotatedOnly(s) == session' = session

\* revokeSession updates by id: whatever happened to the row since it was read.
Revoke(s) == session' = [session EXCEPT ![s].revoked = TRUE]

\* Mutant: the tokens are issued for the session's id, not for its user.
RefreshIssuesForSession(r) ==
    /\ handler[r].next = "rotate"
    /\ LET s == handler[r].session
       IN  /\ Revoke(s)
           /\ handler' = [handler EXCEPT ![r] =
                             [next |-> "issue", user |-> s, parent |-> s,
                              seen |-> handler[r].seen]]
    /\ UNCHANGED <<password, token, resets>>

RefreshRevokeSession(r) ==
    /\ handler[r].next = "rotate"
    /\ LET s == handler[r].session
       IN  /\ Revoke(s)
           /\ handler' = [handler EXCEPT ![r] =
                             [next |-> "issue", user |-> session[s].user, parent |-> s,
                              seen |-> handler[r].seen]]
    /\ UNCHANGED <<password, token, resets>>

-----------------------------------------------------------------------------
(* logout and invalidateSession.                                           *)

LogoutFindSession(r, s) ==
    /\ handler[r] = Idle
    /\ Active(s)
    /\ handler' = [handler EXCEPT ![r] = [next |-> "logout", session |-> s]]
    /\ UNCHANGED <<password, session, token, resets>>

LogoutRevokeSession(r) ==
    /\ handler[r].next = "logout"
    /\ Revoke(handler[r].session)
    /\ handler' = [handler EXCEPT ![r] = Idle]
    /\ UNCHANGED <<password, token, resets>>

\* One updateMany on id and userId: a session of another user is not matched.
InvalidateSession(u, s) ==
    /\ session[s].user = u
    /\ session' = [session EXCEPT ![s].revoked = TRUE]
    /\ UNCHANGED <<password, token, handler, resets>>

-----------------------------------------------------------------------------
(* requestPasswordReset and completePasswordReset.                         *)

\* Earlier tokens of the user stay valid.
RequestPasswordReset(u, t) ==
    /\ token[t].user = NoUser
    /\ token' = [token EXCEPT ![t].user = u]
    /\ UNCHANGED <<password, session, handler, resets>>

CompleteFindToken(r, t, new) ==
    /\ handler[r] = Idle
    /\ Redeemable(t)
    /\ handler' = [handler EXCEPT ![r] = [next |-> "reset", token |-> t, password |-> new]]
    /\ UNCHANGED <<password, session, token, resets>>

\* Mutant: the update misses the sessions a refresh has opened.
RevokeSignIns(u) ==
    session' = [s \in SessionIds |->
                   IF session[s].user = u /\ session[s].parent = NoSession
                   THEN [session[s] EXCEPT !.revoked = TRUE]
                   ELSE session[s]]

\* Mutant: the where clause loses the user and the update hits the whole table.
RevokeAll(u) ==
    session' = [s \in SessionIds |->
                   IF Granted(s) THEN [session[s] EXCEPT !.revoked = TRUE] ELSE session[s]]

\* The third statement of the transaction: revoke what is not revoked yet.
RevokeAllOf(u) ==
    session' = [s \in SessionIds |->
                   IF session[s].user = u /\ ~session[s].revoked
                   THEN [session[s] EXCEPT !.revoked = TRUE]
                   ELSE session[s]]

\* The transaction runs after bcrypt has hashed the new password; it updates
\* the token by id and does not look at usedAt again.
CompleteTransaction(r) ==
    /\ handler[r].next = "reset"
    /\ LET t == handler[r].token
           u == token[t].user
       IN  /\ resets[u] < MaxResets
           /\ token[t].applied < MaxResets
           /\ password' = [password EXCEPT ![u] = handler[r].password]
           /\ token' = [token EXCEPT ![t].used = TRUE, ![t].applied = @ + 1]
           /\ RevokeAllOf(u)
           /\ resets' = [resets EXCEPT ![u] = @ + 1]
    /\ handler' = [handler EXCEPT ![r] = Idle]

-----------------------------------------------------------------------------
(* The environment: time passes, the database rejects a call or the        *)
(* process dies.  What was committed stays; the rest of a handler is lost. *)
(* Expiry is only told apart for the rows a where clause can still match.  *)

SessionExpires(s) ==
    /\ Active(s)
    /\ session' = [session EXCEPT ![s].expired = TRUE]
    /\ UNCHANGED <<password, token, handler, resets>>

TokenExpires(t) ==
    /\ Redeemable(t)
    /\ token' = [token EXCEPT ![t].expired = TRUE]
    /\ UNCHANGED <<password, session, handler, resets>>

RequestFails(r) ==
    /\ handler[r] # Idle
    /\ handler' = [handler EXCEPT ![r] = Idle]
    /\ UNCHANGED <<password, session, token, resets>>

-----------------------------------------------------------------------------
Next ==
    \/ \E r \in Requests :
         \/ \E u \in Users, guess \in Passwords : LoginFindUser(r, u, guess)
         \/ \E s \in SessionIds :
              \/ IssueSession(r, s)
              \/ RefreshFindSession(r, s)
              \/ LogoutFindSession(r, s)
         \/ RefreshRevokeSession(r)
         \/ LogoutRevokeSession(r)
         \/ \E t \in TokenIds, new \in Passwords : CompleteFindToken(r, t, new)
         \/ CompleteTransaction(r)
         \/ RequestFails(r)
    \/ \E u \in Users, s \in SessionIds : InvalidateSession(u, s)
    \/ \E u \in Users, t \in TokenIds : RequestPasswordReset(u, t)
    \/ \E s \in SessionIds : SessionExpires(s)
    \/ \E t \in TokenIds : TokenExpires(t)

Spec == Init /\ [][Next]_vars

-----------------------------------------------------------------------------
(* Properties.                                                             *)

Successors(s) == {t \in SessionIds : session[t].parent = s}

\* A session that replaces another is of the same user and its predecessor
\* can no longer be used: refresh revokes before it issues, and no later
\* handler brings the predecessor back.
RotationChain ==
    \A s \in SessionIds :
        LET p == session[s].parent
        IN  p # NoSession => /\ session[p].revoked
                             /\ session[p].user = session[s].user

\* A session that was there when the user's password changed cannot be used
\* any more, however the session came to be and whatever handlers were under
\* way: a usable session was born after the last change.
NoActiveSessionPredatesReset ==
    \A s \in SessionIds : Active(s) => session[s].born = resets[session[s].user]

\* The refreshes under way that will open a session in place of s.
Refreshing(s) ==
    {r \in Requests : \/ handler[r].next = "rotate" /\ handler[r].session = s
                      \/ handler[r].next = "issue" /\ handler[r].parent = s}

\* The completions under way that will change a password on the strength of t.
Completing(t) == {r \in Requests : handler[r].next = "reset" /\ handler[r].token = t}

\* The sessions a token has opened and those it can still open are together at
\* most as many as requests are served at the same time: only refreshes that
\* all read the row before the first of them revoked it can succeed.
RotationFanOut ==
    \A s \in SessionIds :
        Cardinality(Successors(s)) + Cardinality(Refreshing(s)) <= Cardinality(Requests)

\* docs/AUTH_SECURITY.md:15 promises one-time use of a reset token.  The code marks the
\* token used in the transaction but checks it before (auth.service.ts:150-159): every
\* completion that read usedAt = null is applied.  What does hold is the same bound:
\* only completions served at the same time share a token, none that comes later.
ResetFanOut ==
    \A t \in TokenIds : token[t].applied + Cardinality(Completing(t)) <= Cardinality(Requests)

\* A refresh that starts when the token has already been exchanged is refused.
ExchangedTokenRefused ==
    [][\A r \in Requests, s \in SessionIds :
          (handler[r] = Idle /\ handler'[r].next = "rotate" /\ handler'[r].session = s)
              => Successors(s) = {}]_vars

\* A completion that starts when the token has already changed a password is refused
\* (src/test/milestone5-readiness.spec.ts:46, "one-time-use behavior").
UsedTokenRefused ==
    [][\A r \in Requests, t \in TokenIds :
          (handler[r] = Idle /\ handler'[r].next = "reset" /\ handler'[r].token = t)
              => token[t].applied = 0]_vars

\* The service keeps the promises of SessionRegistry: a row without user is an
\* unused session, an active row is a live one and any other row has ended.
Registry ==
    INSTANCE SessionRegistry WITH
        state <- [s \in SessionIds |->
                     IF ~Granted(s) THEN "unused" ELSE IF Active(s) THEN "live" ELSE "ended"],
        owner <- [s \in SessionIds |-> session[s].user],
        parent <- [s \in SessionIds |-> session[s].parent],
        generation <- resets

ImplementsRegistry == Registry!RegistrySpec

\* "Password reset completion enforces expiry, one-time use, and active-session
\* invalidation" (docs/AUTH_SECURITY.md:15): no session is opened on the strength
\* of a password or a session that a password change has made void.
ResetInvalidatesSessions ==
    [][\A r \in Requests, s \in SessionIds :
          IssueSession(r, s) => handler[r].seen = resets[handler[r].user]]_vars

=============================================================================
