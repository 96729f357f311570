-------------------------- MODULE SessionRegistry --------------------------
(***************************************************************************)
(* What the authentication service promises about refresh sessions, with   *)
(* no handlers, no requests in flight and no tokens:                       *)
(*                                                                         *)
(*   - a session is granted once and ends once, for good;                  *)
(*   - a session granted by rotation succeeds an ended session of the same *)
(*     user;                                                               *)
(*   - a password change ends every live session of the user in one step.  *)
(*                                                                         *)
(* AuthSessions implements this module.                                    *)
(***************************************************************************)
EXTENDS Naturals

CONSTANTS Users, SessionIds, NoUser, NoSession

VARIABLES
    state,        \* state[s]: "unused", "live" or "ended"
    owner,        \* owner[s]: the user of a granted session
    parent,       \* parent[s]: the session a rotation replaced, or NoSession
    generation    \* generation[u]: password changes of the user so far

registryVars == <<state, owner, parent, generation>>

RegistryInit ==
    /\ state = [s \in SessionIds |-> "unused"]
    /\ owner = [s \in SessionIds |-> NoUser]
    /\ parent = [s \in SessionIds |-> NoSession]
    /\ generation = [u \in Users |-> 0]

\* The session s is granted to u, at sign-in (p = NoSession) or in place of p.
Grant(s, u, p) ==
    /\ state[s] = "unused"
    /\ p # NoSession => /\ state[p] = "ended"
                        /\ owner[p] = u
    /\ state' = [state EXCEPT ![s] = "live"]
    /\ owner' = [owner EXCEPT ![s] = u]
    /\ parent' = [parent EXCEPT ![s] = p]
    /\ UNCHANGED generation

\* A live session ends: rotation, logout, invalidation or expiry.
End(s) ==
    /\ state[s] = "live"
    /\ state' = [state EXCEPT ![s] = "ended"]
    /\ UNCHANGED <<owner, parent, generation>>

\* The password of u changes and every live session of u ends with it.
ChangePassword(u) ==
    /\ generation' = [generation EXCEPT ![u] = @ + 1]
    /\ state' = [s \in SessionIds |->
                    IF owner[s] = u /\ state[s] = "live" THEN "ended" ELSE state[s]]
    /\ UNCHANGED <<owner, parent>>

RegistryNext ==
    \/ \E s \in SessionIds, u \in Users, p \in SessionIds \cup {NoSession} : Grant(s, u, p)
    \/ \E s \in SessionIds : End(s)
    \/ \E u \in Users : ChangePassword(u)

RegistrySpec == RegistryInit /\ [][RegistryNext]_registryVars

=============================================================================
