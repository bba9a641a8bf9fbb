----------------------------- MODULE TenantScope -----------------------------
(***************************************************************************)
(* The tenant scope of a request: which requests TenantContextMiddleware   *)
(* lets through (common/middleware/tenant-context.middleware.ts), and      *)
(* which database calls the Prisma extension of packages/db lets a request *)
(* make.  A request has a tenant ("tenant": from its host or header), or   *)
(* none but a platform owner's token ("platform"), or neither ("none").    *)
(***************************************************************************)

Contexts == {"tenant", "platform", "none"}

\* The middleware answers 403 when it finds neither a tenant nor the token.
admitted(ctx) == ctx # "none"

unscopedModels == {"Tenant", "SubscriptionPlan", "AuditLog", "Notification"}

unsupportedOperations ==
  {"createMany", "updateMany", "deleteMany", "aggregate", "groupBy", "upsert"}

\* The extension throws for a scoped model outside every context, and inside
\* a tenant's for the operations it cannot add the tenant filter to.
allowed(ctx, model, operation) ==
  \/ model \in unscopedModels
  \/ ctx = "platform"
  \/ ctx = "tenant" /\ operation \notin unsupportedOperations
=============================================================================
