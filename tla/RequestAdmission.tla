-------------------------- MODULE RequestAdmission --------------------------
(***************************************************************************)
(* A request on its way to a handler: RateLimitGuard, JwtAuthGuard and     *)
(* RolesGuard in the order of app.module.ts, and the handlers of Auth-     *)
(* Controller that open and end sessions, with the access tokens that      *)
(* issueTokens signs.                                                      *)
(*                                                                         *)
(* An access token is checked by its signature and its age alone: it stays *)
(* good when its session ends.  The sessions are those of one user; what   *)
(* the requests do to each other's sessions, and a password reset to all   *)
(* of them, is in AuthSessions.                                            *)
(***************************************************************************)
EXTENDS RateLimiter, Permissions

CONSTANTS
    Arrivals,       \* requests that clients send
    SessionIds,
    Lifetime,       \* ticks an access token is good for
    TheUser,        \* the user the sessions belong to
    NoActor, NoSession

(***************************************************************************)
(* actor, roles and permissions are the x-actor headers, address the first *)
(* of x-forwarded-for or the ip, bearer the session whose access token the *)
(* request carries, and names the session its body or path is about.       *)
(***************************************************************************)
Paths == {"login", "refresh", "logout", "sessions", "tracking"}

ASSUME LifetimeAssumption == Lifetime \in Nat \ {0}
ASSUME ArrivalsAssumption ==
    \A a \in Arrivals : /\ a.path \in Paths
                        /\ {a.bearer, a.names} \subseteq SessionIds \cup {NoSession}

VARIABLES
    phase,      \* of the sessions: unused, found, signed, live, ended
    replaces,   \* the session a refresh is to revoke, while it is found
    left,       \* ticks the access token has left, 0 for an expired one
    ago         \* history: ticks since the session was last live

sessionVars == <<phase, replaces, left, ago>>
admissionVars == <<vars, sessionVars>>

AdmissionTypeOK ==
    /\ TypeOK
    /\ phase \in [SessionIds -> {"unused", "found", "signed", "live", "ended"}]
    /\ replaces \in [SessionIds -> SessionIds \cup {NoSession}]
    /\ left \in [SessionIds -> 0 .. Lifetime]
    /\ ago \in [SessionIds -> 0 .. Lifetime]

AdmissionInit ==
    /\ Init
    /\ phase = [s \in SessionIds |-> "unused"]
    /\ replaces = [s \in SessionIds |-> NoSession]
    /\ left = [s \in SessionIds |-> 0]
    /\ ago = [s \in SessionIds |-> 0]

-----------------------------------------------------------------------------
(* The guards.                                                             *)

\* policyFor: the policy of the decorator, or one for the path, or none.
KeyPrefix(path) ==
    CASE path = "login" -> "auth-login"
      [] path = "refresh" -> "auth-refresh"
      [] path = "tracking" -> "tracking"
      [] OTHER -> "none"

\* identityFor: the limiter is asked before anyone has set the user of the request.
Identity(a) == IF a.actor # NoActor THEN <<"actor", a.actor>> ELSE <<"ip", a.address>>

Key(a) == <<KeyPrefix(a.path), Identity(a)>>

ASSUME KeysAssumption == \A a \in Arrivals : KeyPrefix(a.path) # "none" => Key(a) \in Keys

RateLimitPasses(a) ==
    IF KeyPrefix(a.path) = "none" THEN UNCHANGED vars ELSE OpenWindow(Key(a)) \/ Count(Key(a))

Public == {"login", "refresh"}

\* Mutant: verifyAsync is told to ignore the expiration.
UsableForever(s) == s # NoSession /\ phase[s] \in {"live", "ended"}

\* verifyAsync: the token was delivered and is not expired.
Usable(s) == s # NoSession /\ phase[s] \in {"live", "ended"} /\ left[s] > 0

JwtAuthPasses(a) == a.path \in Public \/ a.actor # NoActor \/ Usable(a.bearer)

\* The user of the request: of the headers, or of the token.
UserOf(a) == IF a.actor # NoActor THEN a.actor ELSE TheUser

RolesPass(a) ==
    LET asked == IF a.path = "tracking"
                 THEN {"customer", "merchant", "logistic_disponent", "support_agent", "super_admin"}
                 ELSE {}
    IN  RolesGuardPasses(asked, IF a.actor # NoActor THEN ParseRoles(a.roles) ELSE a.roles,
                         a.permissions)

\* The limiter counts a request before it is known whether the others let it in.
TurnAway(a) ==
    /\ RateLimitPasses(a)
    /\ ~(JwtAuthPasses(a) /\ RolesPass(a))
    /\ UNCHANGED sessionVars

TooMany(a) ==
    /\ KeyPrefix(a.path) # "none"
    /\ Refuse(Key(a))
    /\ UNCHANGED sessionVars

-----------------------------------------------------------------------------
(* The handlers of AuthController.                                         *)

End(s) == phase' = [phase EXCEPT ![s] = IF @ = "live" THEN "ended" ELSE @]

\* login and refresh, up to the user they have found.
Find(s, old) ==
    /\ phase[s] = "unused"
    /\ phase' = [phase EXCEPT ![s] = "found"]
    /\ replaces' = [replaces EXCEPT ![s] = old]
    /\ UNCHANGED <<left, ago>>

Handle(a) ==
    \/ a.path = "login" /\ \E s \in SessionIds : Find(s, NoSession)
    \/ /\ a.path = "refresh"
       /\ a.names # NoSession /\ phase[a.names] = "live"
       /\ \E s \in SessionIds : Find(s, a.names)
    \/ /\ \/ a.path = "logout"
          \/ a.path = "sessions" /\ UserOf(a) = TheUser
       /\ a.names # NoSession
       /\ End(a.names)
       /\ UNCHANGED <<replaces, left, ago>>
    \/ UNCHANGED sessionVars

\* A handler of another route, or one that throws, changes no session.
Serve(a) ==
    /\ RateLimitPasses(a)
    /\ JwtAuthPasses(a) /\ RolesPass(a)
    /\ Handle(a)

\* A refresh revokes what it replaces, by id; then the access token is signed.
SignToken(s) ==
    /\ phase[s] = "found"
    /\ phase' = [t \in SessionIds |->
                    IF t = s THEN "signed"
                    ELSE IF t = replaces[s] /\ phase[t] = "live" THEN "ended" ELSE phase[t]]
    /\ replaces' = [replaces EXCEPT ![s] = NoSession]
    /\ left' = [left EXCEPT ![s] = Lifetime]
    /\ UNCHANGED <<vars, ago>>

\* createSession, and the answer with the token.
CreateSession(s) ==
    /\ phase[s] = "signed"
    /\ phase' = [phase EXCEPT ![s] = "live"]
    /\ UNCHANGED <<vars, replaces, left, ago>>

\* A handler that has not created its session fails: nobody gets the token.
HandlerFails(s) ==
    /\ phase[s] \in {"found", "signed"}
    /\ phase' = [phase EXCEPT ![s] = "unused"]
    /\ replaces' = [replaces EXCEPT ![s] = NoSession]
    /\ left' = [left EXCEPT ![s] = 0]
    /\ UNCHANGED <<vars, ago>>

-----------------------------------------------------------------------------
\* Nothing but time takes an access token away.
TokensAge == left' = [s \in SessionIds |-> IF left[s] > 0 THEN left[s] - 1 ELSE 0]

AdmissionTick ==
    /\ Tick
    /\ TokensAge
    /\ ago' = [s \in SessionIds |->
                  IF phase[s] = "ended" /\ ago[s] < Lifetime THEN ago[s] + 1 ELSE ago[s]]
    /\ UNCHANGED <<phase, replaces>>

\* The buckets and the handlers under way are lost; sessions and tokens stay.
AdmissionRestart ==
    /\ Restart
    /\ phase' = [s \in SessionIds |-> IF phase[s] \in {"found", "signed"} THEN "unused" ELSE phase[s]]
    /\ replaces' = [s \in SessionIds |-> NoSession]
    /\ left' = [s \in SessionIds |-> IF phase[s] \in {"found", "signed"} THEN 0 ELSE left[s]]
    /\ UNCHANGED ago

AdmissionNext ==
    \/ \E a \in Arrivals : TurnAway(a) \/ TooMany(a) \/ Serve(a)
    \/ \E s \in SessionIds : SignToken(s) \/ CreateSession(s) \/ HandlerFails(s)
    \/ AdmissionTick
    \/ AdmissionRestart

\* Time passes; nothing is assumed of the clients.
AdmissionSpec ==
    AdmissionInit /\ [][AdmissionNext]_admissionVars /\ WF_admissionVars(AdmissionTick)

-----------------------------------------------------------------------------
(* Properties.                                                             *)

\* Who gets past JwtAuthGuard with an access token had the session of the token
\* less than a lifetime ago: a token may wait for its session row, or outlive a
\* logout, a refresh and a password reset, but not by more.
AccessBounded == \A s \in SessionIds : Usable(s) => ago[s] < Lifetime

=============================================================================
