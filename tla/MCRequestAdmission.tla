------------------------- MODULE MCRequestAdmission -------------------------
(* A small instance of RequestAdmission: two sessions, and requests that     *)
(* carry the headers of an actor, an access token or neither.                *)
EXTENDS RequestAdmission, TLC

CONSTANTS s1, s2, client, actor

ASSUME RolesAssumption == FurtherRolesOnlyAdd /\ PermissionsMatchRoles

MCSessionIds == {s1, s2}
Request(path, who, roles, bearer, names) ==
    [path |-> path, actor |-> who, roles |-> roles, permissions |-> {},
     address |-> client, bearer |-> bearer, names |-> names]

MCArrivals ==
    {Request("login", NoActor, {}, NoSession, NoSession),
     Request("tracking", actor, {"dispatcher"}, NoSession, NoSession),
     Request("tracking", actor, {"driver", "clerk"}, NoSession, NoSession),
     Request("sessions", TheUser, {}, NoSession, s2)}
    \cup {Request("refresh", NoActor, {}, NoSession, s) : s \in MCSessionIds}
    \cup {Request(path, NoActor, {}, s1, s1) : path \in {"logout", "sessions"}}

MCKeys == {Key(a) : a \in {b \in MCArrivals : KeyPrefix(b.path) # "none"}}
MCLimit == [k \in MCKeys |-> IF k[1] = "auth-login" THEN 2 ELSE 1]
MCWindow == [k \in MCKeys |-> IF k[1] = "auth-login" THEN 3 ELSE 1]

=============================================================================
