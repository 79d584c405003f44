---------------------------- MODULE Authorization ----------------------------
(***************************************************************************)
(* Who may do what in an organization                                      *)
(* (internal/modules/tenancy/authorization.go).                            *)
(***************************************************************************)

Roles == {"owner", "admin", "member"}

Permissions == {"organization:read", "organization:manage",
                "product:read", "product:manage"}

Reading == {"organization:read", "product:read"}

\* A variant that lets whoever may read also manage.
EveryRoleAllowed(role, permission) ==
    role \in Roles /\ permission \in Permissions

RoleAllowsPermission(role, permission) ==
    \/ permission \in Reading /\ role \in Roles
    \/ permission \in Permissions \ Reading /\ role \in {"owner", "admin"}
=============================================================================
