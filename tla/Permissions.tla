---------------------------- MODULE Permissions ----------------------------
(***************************************************************************)
(* Roles and permissions: the map of modules/rbac, RbacService, the check  *)
(* of RolesGuard and the spellings of roles that JwtAuthGuard knows.       *)
(*                                                                         *)
(* A permission "area:action" is the pair <<area, action>>; the permission *)
(* "*" is <<"*", "*">>.  Role texts are spelled as trim, toLowerCase and   *)
(* the replacement of blanks and dashes leave them.                        *)
(***************************************************************************)
EXTENDS Naturals, FiniteSets

RoleCode ==
    {"customer", "merchant", "shipper", "warehouse_staff", "warehouse_manager", "driver",
     "fleet_manager", "carrier", "freight_forwarder", "logistic_disponent", "support_agent",
     "finance_admin", "compliance_admin", "super_admin", "ai_agent"}

NoRole == "none"

Everything == <<"*", "*">>

ROLE_PERMISSIONS ==
    [role \in RoleCode |->
       CASE role = "customer" ->
              {<<"orders", "create">>, <<"orders", "read:own">>, <<"returns", "create">>,
               <<"disputes", "create">>, <<"tracking", "read:own">>}
         [] role = "merchant" ->
              {<<"orders", "read:merchant">>, <<"shipments", "prepare">>,
               <<"warehouse", "handoff">>, <<"inventory", "manage:own">>}
         [] role = "shipper" -> {"shipments"} \X {"read", "update_operational"}
         [] role = "warehouse_staff" ->
              {"warehouse"} \X {"pick", "scan", "pack"} \cup {<<"packages", "stage">>}
         [] role = "warehouse_manager" ->
              {"warehouse", "inventory"} \X {"*"} \cup {<<"packages", "ready_for_dispatch">>}
         [] role = "driver" ->
              {"driver"} \X {"jobs", "location"} \cup {"delivery"} \X {"attempt", "complete"}
              \cup {<<"pickup", "complete">>}
         [] role = "fleet_manager" ->
              {<<"fleet", "*">>, <<"drivers", "assignable">>, <<"vehicles", "manage">>}
         [] role = "carrier" -> {"carrier"} \X {"jobs", "assignments"}
         [] role = "freight_forwarder" ->
              {<<"routes", "international">>, <<"carrier", "compare">>, <<"shipments", "handover">>}
         [] role = "logistic_disponent" ->
              {"disponent"} \X {"queue", "tour_plan", "assign_driver", "assign_vehicle",
                                "assign_carrier", "route_correct", "exceptions", "live_monitor"}
              \cup {<<"approvals", "operational">>}
         [] role = "support_agent" ->
              {<<"support", "cases">>, <<"disputes", "evidence">>, <<"notifications", "send">>}
         [] role = "finance_admin" ->
              {"payments", "ledger"} \X {"read"} \cup {"refunds", "payouts"} \X {"approve"}
              \cup {<<"escrow", "release">>, <<"finance_rules", "manage">>}
         [] role = "compliance_admin" ->
              {<<"compliance", "*">>, <<"audit", "read">>, <<"security_events", "read">>,
               <<"privacy", "export">>}
         [] role = "super_admin" -> {Everything}
         [] role = "ai_agent" -> {"ai"} \X {"recommend", "execute_l1", "request_approval"}]

DISPONENT_FORBIDDEN_PERMISSIONS ==
    {<<"ledger", "edit">>, <<"escrow", "release_disputed">>, <<"roles", "change">>,
     <<"audit", "delete">>, <<"users", "delete">>, <<"finance_rules", "manage">>}

-----------------------------------------------------------------------------
\* RbacService: the exclusions of the disponent go before what other roles have.
HasPermission(roles, permission) ==
    /\ ~("logistic_disponent" \in roles /\ permission \in DISPONENT_FORBIDDEN_PERMISSIONS)
    /\ \E role \in roles : {Everything, permission} \cap ROLE_PERMISSIONS[role] # {}

\* permissionsSatisfyRole: one permission of the role is enough, and one of the
\* area where the role has them all; the bare "*" of super_admin is no area.
PermissionsSatisfyRole(permissions, role) ==
    \/ Everything \in permissions
    \/ \E p \in ROLE_PERMISSIONS[role] :
         \/ p \in permissions
         \/ p # Everything /\ p[2] = "*" /\ \E q \in permissions : q[1] = p[1]

\* RolesGuard: a route that asks for no role is open to every actor.
RolesGuardPasses(asked, roles, permissions) ==
    \/ asked = {}
    \/ \E role \in asked : role \in roles \/ PermissionsSatisfyRole(permissions, role)

\* normalizeRole: an alias, a role, or a text that is dropped.
NormalizeRole(text) ==
    CASE text \in {"admin", "superadmin", "super", "platform_admin", "platformadmin"} ->
           "super_admin"
      [] text \in {"logistics_disponent", "logistics_dispatcher", "logistics_manager",
                   "logistic_dispatcher", "disponent", "dispatcher"} -> "logistic_disponent"
      [] text \in {"warehouse", "warehouse_worker", "warehouse_operator"} -> "warehouse_staff"
      [] text \in {"warehouse_admin", "warehouse_supervisor", "warehouse_lead"} ->
           "warehouse_manager"
      [] text \in {"support", "support_admin", "customer_support"} -> "support_agent"
      [] text \in {"compliance", "compliance_officer"} -> "compliance_admin"
      [] text \in {"finance", "finance_manager", "finance_officer"} -> "finance_admin"
      [] text = "ai" -> "ai_agent"
      [] text \in RoleCode -> text
      [] OTHER -> NoRole

\* parseRoles of the header.
ParseRoles(texts) == {NormalizeRole(text) : text \in texts} \ {NoRole}

-----------------------------------------------------------------------------
(* What they promise; constant, so that an ASSUME of MCRequestAdmission    *)
(* has them evaluated.                                                     *)

AllPermissions ==
    DISPONENT_FORBIDDEN_PERMISSIONS \cup UNION {ROLE_PERMISSIONS[role] : role \in RoleCode}

RoleSets == {roles \in SUBSET RoleCode : Cardinality(roles) <= 2}

\* A further role takes nothing away but the exclusions of the disponent, and no
\* combination of roles has those.
FurtherRolesOnlyAdd ==
    \A roles \in RoleSets, role \in RoleCode, p \in AllPermissions :
        HasPermission(roles, p) /\ ~HasPermission(roles \cup {role}, p)
            => role = "logistic_disponent" /\ p \in DISPONENT_FORBIDDEN_PERMISSIONS

\* Named permissions, however many, do not amount to super_admin; those of a role
\* open the routes of this role; a role keeps its name when it is read as a text.
PermissionsMatchRoles ==
    /\ ~PermissionsSatisfyRole(AllPermissions \ {Everything}, "super_admin")
    /\ \A role \in RoleCode : /\ PermissionsSatisfyRole(ROLE_PERMISSIONS[role], role)
                              /\ NormalizeRole(role) = role

=============================================================================
