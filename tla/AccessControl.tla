---------------------------- MODULE AccessControl ----------------------------
(***************************************************************************)
(* Who may call what: the permission rows and role links of the seed, the  *)
(* ability CaslAbilityFactory builds from a token, the routes' decorators  *)
(* and the decision of RbacPermissionGuard.  No state of its own: Sessions *)
(* applies these tables to the tokens that exist.                          *)
(***************************************************************************)
EXTENDS Naturals

-----------------------------------------------------------------------------
(* Permission rows and role links (packages/db/prisma/seed.ts) *)

\* <<action, resource>> rows.  The first set is the legacy vocabulary.
legacyPermissions ==
  {"read", "write"} \X {"branch", "menu", "order", "kds", "customer", "billing"}
    \cup {<<"read", "analytics">>, <<"write", "tenant">>}

\* Mutant: the rows of the catalogue CRUD have not been added.
permissionRowsWithoutCatalogue ==
  legacyPermissions
    \cup {"create", "read", "update", "delete"} \X {"user", "customer"}
    \cup {"create", "read"} \X {"product", "table", "branch"}
    \cup {"create", "update"} \X {"order"}
    \cup {<<"update", "tenant">>, <<"read", "restaurant">>, <<"read", "agent">>}

permissionData ==
  legacyPermissions
    \cup {"create", "read", "update", "delete"}
           \X {"user", "product", "category", "branch", "table", "customer"}
    \cup {"create", "update"} \X {"order"}
    \cup {<<"update", "tenant">>, <<"read", "restaurant">>, <<"read", "agent">>}

Roles == {"RESTAURANT_OWNER", "MANAGER", "CASHIER", "KITCHEN_STAFF"}

permResources(role) ==
  CASE role = "MANAGER" -> {"branch", "menu", "order", "customer", "kds"}
    [] role = "CASHIER" -> {"menu", "order", "customer"}
    [] role = "KITCHEN_STAFF" -> {"order", "kds"}

\* The owner is linked to every row, the others to "read" and "write" rows.
rolePermissions(role) ==
  IF role = "RESTAURANT_OWNER" THEN permissionData
  ELSE {p \in permissionData : p[1] \in {"read", "write"} /\ p[2] \in permResources(role)}

-----------------------------------------------------------------------------
(* CaslAbilityFactory *)

\* The resource of a permission with its first letter in upper case.
normalizedResource ==
  [branch |-> "Branch", menu |-> "Menu", order |-> "Order", kds |-> "Kds",
   customer |-> "Customer", billing |-> "Billing", analytics |-> "Analytics",
   tenant |-> "Tenant", user |-> "User", product |-> "Product",
   category |-> "Category", table |-> "Table", restaurant |-> "Restaurant",
   agent |-> "Agent"]

\* The rules of createForUser.  The cashier's exclusion names an order status
\* PAID that orders never have, and the branch manager's needs branch ids that
\* no token carries, so neither rule ever matches.
createForUser(permissions) ==
  {<<p[1], normalizedResource[p[2]]>> : p \in permissions} \cup {<<"read", "Tenant">>}

-----------------------------------------------------------------------------
(* The routes that name a permission *)

OnCollection(permission) == [perm |-> permission, byId |-> FALSE, restore |-> FALSE]
OnRecord(permission) == [perm |-> permission, byId |-> TRUE, restore |-> FALSE]
OnRestore(permission) == [perm |-> permission, byId |-> TRUE, restore |-> TRUE]

customerRoutes ==
  {OnCollection(<<"read", "Customer">>), OnRestore(<<"update", "Customer">>)}
    \cup {OnRecord(<<a, "Customer">>) : a \in {"read", "update", "delete"}}

userRoutes ==
  {OnCollection(<<a, "User">>) : a \in {"create", "read"}}
    \cup {OnRecord(<<a, "User">>) : a \in {"read", "update", "delete"}}

restaurantRoutes == {OnCollection(<<"read", "Restaurant">>), OnRecord(<<"read", "Restaurant">>)}

\* Categories are listed and created under the Product permissions.
menuRoutes ==
  {OnCollection(<<a, "Product">>) : a \in {"create", "read"}}
    \cup {OnRecord(<<a, s>>) : a \in {"update", "delete"}, s \in {"Product", "Category"}}
    \cup {OnRestore(<<"update", s>>) : s \in {"Product", "Category"}}

branchRoutes ==
  {OnCollection(<<a, s>>) : a \in {"create", "read"}, s \in {"Branch", "Table"}}
    \cup {OnRecord(<<a, s>>) : a \in {"update", "delete"}, s \in {"Branch", "Table"}}
    \cup {OnRestore(<<"update", s>>) : s \in {"Branch", "Table"}}

orderRoutes ==
  {OnCollection(<<"create", "Order">>), OnCollection(<<"read", "Order">>)}
    \cup {OnRecord(<<a, "Order">>) : a \in {"read", "update"}}

\* The item status route has no parameter named id: the guard looks nothing up.
kdsRoutes == {OnCollection(<<"read", "Order">>), OnCollection(<<"update", "Order">>)}

tenantRoutes == {OnRecord(<<"update", "Tenant">>)}

agentRoutes == {OnCollection(<<"read", "Agent">>)}

\* The controllers of the executive office spell the subject in lower case, and
\* none of their routes has a parameter named id.
officeRoutes == {OnCollection(<<"read", "agent">>)}
officeAgentRoutes == {OnCollection(<<"read", "agent">>)}
businessRoutes == {OnCollection(<<"read", "agent">>)}
intelligenceRoutes == {OnCollection(<<"read", "agent">>)}
operationalRoutes == {OnCollection(<<"read", "agent">>)}

OfficeRoutes ==
  officeRoutes \cup officeAgentRoutes \cup businessRoutes \cup intelligenceRoutes
    \cup operationalRoutes

StaffRoutes ==
  customerRoutes \cup userRoutes \cup restaurantRoutes \cup menuRoutes \cup branchRoutes
    \cup orderRoutes \cup kdsRoutes \cup tenantRoutes \cup agentRoutes

-----------------------------------------------------------------------------
(* RbacPermissionGuard *)

\* What the record named by the request's id is to the caller.
Records == {"own", "ownDeleted", "foreign", "missing"}

\* The repositories see rows of the caller's tenant, and deleted ones only on
\* restore routes; tenants are looked up by id alone.
realEntityFound(route, record) ==
  IF route.perm[2] = "Tenant" THEN record # "missing"
  ELSE record = "own" \/ (route.restore /\ record = "ownDeleted")

\* canActivate on a route with a permission: a record that is not found is
\* answered before the permission is looked at.
canActivate(permissions, route, record) ==
  IF route.byId /\ ~realEntityFound(route, record) THEN "notFound"
  ELSE IF route.perm \in createForUser(permissions) THEN "allowed" ELSE "forbidden"
=============================================================================
