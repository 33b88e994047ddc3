----------------------------- MODULE Permissions -----------------------------
(***************************************************************************)
(* The role-based access policy (domains/identity/permissions.py): which   *)
(* role may do what, deny by default.                                      *)
(***************************************************************************)

ReadOnly == {"finance:read", "crm:read", "inventory:read", "intelligence:read"}

Operator == ReadOnly \cup
    {"finance:write", "crm:write", "inventory:write", "intelligence:act"}

Manager == Operator \cup
    {"finance:reconcile", "finance:approve", "audit:read", "inventory:adjust"}

Admin == Manager \cup {"user:manage"}

RolePermissions ==
    [viewer |-> ReadOnly, accountant |-> Operator, manager |-> Manager,
     admin |-> Admin, owner |-> Admin]

UserRole == DOMAIN RolePermissions

HasPermission(role, permission) ==
    role \in UserRole /\ permission \in RolePermissions[role]

RolesWithPermission(permission) == {r \in UserRole : HasPermission(r, permission)}
=============================================================================
