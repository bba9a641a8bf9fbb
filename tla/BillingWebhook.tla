---------------------------- MODULE BillingWebhook ----------------------------
(***************************************************************************)
(* Stripe billing events (apps/api/src/billing/billing.service.ts): the    *)
(* idempotency check in the cache, the resolution of the tenant, the       *)
(* status transaction, the domain event and the mark, for one tenant and   *)
(* its subscription row.  Stripe delivers an event any number of times and *)
(* in any order; every attempt is a delivery of its own.  The cache is     *)
(* best effort: while Redis is away reads find nothing and writes vanish   *)
(* (common/cache/cache.service.ts).                                        *)
(***************************************************************************)
EXTENDS Values, FiniteSets, TenantScope

CONSTANTS
  Deliveries,    \* delivery attempts
  Events,        \* Stripe events: [kind, status, sub, cust, meta]
  Subscriptions, \* Stripe subscription ids
  Customers,     \* Stripe customer ids
  Context,       \* the tenant scope of the webhook requests
  Faults         \* TRUE: Redis may be away, the database may fail, processes may die

Kinds == {"checkout", "trial_will_end", "paid", "failed", "deleted", "updated", "other"}
StripeStatus == {"active", "past_due", "unpaid", "canceled", "trialing"}
Status == {"TRIALING", "ACTIVE", "PAST_DUE", "UNPAID", "CANCELED"}
Event ==
  [kind : Kinds, status : StripeStatus, sub : Subscriptions \cup {None},
   cust : Customers, meta : BOOLEAN]

ASSUME EventsAssumption == Events \subseteq Event
\* createCheckoutSession puts the tenant into the metadata of the session alone,
\* and its sessions are of mode subscription.
ASSUME CheckoutAssumption ==
  \A e \in Events : e.meta => e.kind = "checkout" /\ e.sub # None
ASSUME ContextAssumption == Context \in Contexts /\ Faults \in BOOLEAN
ASSUME NoneAssumption == None \notin Subscriptions \cup Customers \cup Events

VARIABLES
  tenant,     \* the tenants row: its status and stripeCustomerId
  sub,        \* the subscriptions row: its status and stripeSubscriptionId
  redis,      \* event -> the idempotency key: "absent", "false" or "true"
  online,     \* the Redis client is connected
  dl,         \* delivery -> its point, event and the ids it has read
  applied,    \* event -> committed status transactions (history)
  emitted,    \* event -> BillingStatusChangedEvents emitted (history)
  disturbed,  \* Redis was away or a process died (history)
  overlapped  \* a delivery has started beside another (history)

vars == <<tenant, sub, redis, online, dl, applied, emitted, disturbed, overlapped>>

Points ==
  {"new", "missed", "route", "resolved", "emit", "bind", "link", "mark",
   "done", "refused", "dead"}

TypeOK ==
  /\ tenant \in [status : Status, customer : Customers \cup {None}]
  /\ sub \in [status : Status, stripe : Subscriptions \cup {None}]
  /\ redis \in [Events -> {"absent", "false", "true"}]
  /\ online \in BOOLEAN
  /\ dl \in [Deliveries -> [at : Points, ev : Events \cup {None},
                            cust : Customers \cup {None}, stripe : Subscriptions \cup {None}]]
  /\ applied \in [Events -> Nat] /\ emitted \in [Events -> Nat]
  /\ disturbed \in BOOLEAN /\ overlapped \in BOOLEAN

\* The rows as onboarding leaves them; the plan has a trial.
Init ==
  /\ tenant = [status |-> "TRIALING", customer |-> None]
  /\ sub = [status |-> "TRIALING", stripe |-> None]
  /\ redis = [e \in Events |-> "absent"]
  /\ online = TRUE
  /\ dl = [d \in Deliveries |-> [at |-> "new", ev |-> None, cust |-> None, stripe |-> None]]
  /\ applied = [e \in Events |-> 0] /\ emitted = [e \in Events |-> 0]
  /\ disturbed = FALSE /\ overlapped = FALSE

Finished == {"new", "done", "refused", "dead"}
Idle == \A d \in Deliveries : dl[d].at \in Finished
Goto(d, at) == dl' = [dl EXCEPT ![d].at = at]

-----------------------------------------------------------------------------
(* CacheService and the way in *)

\* CacheService.set: nothing happens while the client is away.
cacheSet(key, value) == redis' = IF online THEN [redis EXCEPT ![key] = value] ELSE redis

\* The middleware, then CacheService.get on the event's key: a hit that is
\* true ends the delivery, a hit that is false or an absent client goes on.
Receive(d, e) ==
  /\ dl[d].at = "new"
  /\ dl' = [dl EXCEPT ![d].ev = e, ![d].at =
       IF ~admitted(Context) THEN "refused"
       ELSE IF ~online \/ redis[e] = "false" THEN "route"
       ELSE IF redis[e] = "true" THEN "done" ELSE "missed"]
  /\ overlapped' = (overlapped \/ ~Idle)
  /\ UNCHANGED <<tenant, sub, redis, online, applied, emitted, disturbed>>

\* On a miss get stores what its fallback returned, false, and goes on.
WriteBack(d) ==
  /\ dl[d].at = "missed"
  /\ cacheSet(dl[d].ev, "false") /\ Goto(d, "route")
  /\ UNCHANGED <<tenant, sub, online, applied, emitted, disturbed, overlapped>>

-----------------------------------------------------------------------------
(* Status events *)

\* The status an event stands for; None for those that change nothing.
newStatus(e) ==
  CASE e.kind = "paid" -> "ACTIVE"
    [] e.kind = "failed" -> "PAST_DUE"
    [] e.kind = "deleted" -> "CANCELED"
    [] e.kind = "updated" /\ e.status = "active" -> "ACTIVE"
    [] e.kind = "updated" /\ e.status = "past_due" -> "PAST_DUE"
    [] e.kind = "updated" /\ e.status = "unpaid" -> "UNPAID"
    [] e.kind = "updated" /\ e.status = "canceled" -> "CANCELED"
    [] OTHER -> None

\* The tenant is found by customer, by subscription or by metadata.
tenantResolved(e) ==
  tenant.customer = e.cust \/ (e.sub # None /\ sub.stripe = e.sub) \/ e.meta

\* From the lookups to the transaction: an event with no tenant or of an
\* unhandled type is answered at once and not marked.
Route(d) ==
  LET e == dl[d].ev IN
  /\ dl[d].at = "route" /\ e.kind \notin {"checkout", "trial_will_end"}
  /\ Goto(d, IF ~tenantResolved(e) \/ e.kind = "other" THEN "done"
             ELSE IF newStatus(e) = None THEN "mark" ELSE "resolved")
  /\ UNCHANGED <<tenant, sub, redis, online, applied, emitted, disturbed, overlapped>>

\* handleTrialWillEnd: the reminder goes out and no status changes.
HandleTrialWillEnd(d) ==
  LET e == dl[d].ev IN
  /\ dl[d].at = "route" /\ e.kind = "trial_will_end"
  /\ Goto(d, IF tenantResolved(e) THEN "mark" ELSE "done")
  /\ emitted' = IF tenantResolved(e) THEN [emitted EXCEPT ![e] = @ + 1] ELSE emitted
  /\ UNCHANGED <<tenant, sub, redis, online, applied, disturbed, overlapped>>

\* The row updateMany reaches: by Stripe id when the event has one.
matches(e) == e.sub = None \/ sub.stripe = e.sub

\* Mutant: the domain event is emitted before the transaction.
ApplyAnnouncing(d) ==
  LET e == dl[d].ev IN
  /\ dl[d].at = "resolved"
  /\ emitted' = [emitted EXCEPT ![e] = @ + 1]
  /\ Goto(d, "emit")
  /\ UNCHANGED <<tenant, sub, redis, online, applied, disturbed, overlapped>>

\* The transaction commits: both rows take the new status.
ApplyStatus(d) ==
  LET e == dl[d].ev IN
  /\ dl[d].at = "resolved" /\ allowed(Context, "Subscription", "updateMany")
  /\ sub' = IF matches(e) THEN [sub EXCEPT !.status = newStatus(e)] ELSE sub
  /\ tenant' = [tenant EXCEPT !.status = newStatus(e)]
  /\ applied' = [applied EXCEPT ![e] = @ + 1]
  /\ Goto(d, "emit")
  /\ UNCHANGED <<redis, online, emitted, disturbed, overlapped>>

\* The transaction throws - the extension refuses updateMany, or the database
\* fails - and the error is logged; the handler goes on to the mark.
ApplyFails(d) ==
  /\ dl[d].at = "resolved"
  /\ Faults \/ ~allowed(Context, "Subscription", "updateMany")
  /\ Goto(d, "mark")
  /\ UNCHANGED <<tenant, sub, redis, online, applied, emitted, disturbed, overlapped>>

Emit(d) ==
  /\ dl[d].at = "emit"
  /\ emitted' = [emitted EXCEPT ![dl[d].ev] = @ + 1]
  /\ Goto(d, "mark")
  /\ UNCHANGED <<tenant, sub, redis, online, applied, disturbed, overlapped>>

-----------------------------------------------------------------------------
(* handleCheckoutSessionCompleted *)

\* The tenant of the session's metadata is read; without it, nothing more.
FindTenant(d) ==
  LET e == dl[d].ev IN
  /\ dl[d].at = "route" /\ e.kind = "checkout"
  /\ dl' = [dl EXCEPT ![d].at = IF e.meta THEN "bind" ELSE "done", ![d].cust = tenant.customer]
  /\ UNCHANGED <<tenant, sub, redis, online, applied, emitted, disturbed, overlapped>>

\* Inside the transaction: the subscription row is read.
FindSubscription(d) ==
  /\ dl[d].at = "bind"
  /\ dl' = [dl EXCEPT ![d].at = "link", ![d].stripe = sub.stripe]
  /\ UNCHANGED <<tenant, sub, redis, online, applied, emitted, disturbed, overlapped>>

\* Mutant: the ids of the newest session win.
PersistNewest(d) ==
  LET e == dl[d].ev IN
  /\ dl[d].at = "link"
  /\ tenant' = [tenant EXCEPT !.customer = e.cust]
  /\ sub' = [sub EXCEPT !.stripe = e.sub]
  /\ Goto(d, "mark")
  /\ UNCHANGED <<redis, online, applied, emitted, disturbed, overlapped>>

\* The ids are stored where the reads found none.
PersistStripeIds(d) ==
  LET e == dl[d].ev IN
  /\ dl[d].at = "link"
  /\ tenant' = IF dl[d].cust = None THEN [tenant EXCEPT !.customer = e.cust] ELSE tenant
  /\ sub' = IF e.sub # None /\ dl[d].stripe = None THEN [sub EXCEPT !.stripe = e.sub] ELSE sub
  /\ Goto(d, "mark")
  /\ UNCHANGED <<redis, online, applied, emitted, disturbed, overlapped>>

\* The transaction fails and the error is logged.
PersistFails(d) ==
  /\ dl[d].at = "link" /\ Faults
  /\ Goto(d, "mark")
  /\ UNCHANGED <<tenant, sub, redis, online, applied, emitted, disturbed, overlapped>>

-----------------------------------------------------------------------------
(* The mark, and the world outside *)

\* Mutant: the mark is the value the check takes for unseen.
MarkUnseen(d) ==
  /\ dl[d].at = "mark"
  /\ cacheSet(dl[d].ev, "false") /\ Goto(d, "done")
  /\ UNCHANGED <<tenant, sub, online, applied, emitted, disturbed, overlapped>>

\* cacheService.set(key, true), then 200.
MarkProcessed(d) ==
  /\ dl[d].at = "mark"
  /\ cacheSet(dl[d].ev, "true") /\ Goto(d, "done")
  /\ UNCHANGED <<tenant, sub, online, applied, emitted, disturbed, overlapped>>

RedisChanges ==
  /\ Faults /\ online' = ~online
  /\ disturbed' = TRUE
  /\ UNCHANGED <<tenant, sub, redis, dl, applied, emitted, overlapped>>

\* The process dies with the delivery; Stripe will make another.
Crash(d) ==
  /\ Faults /\ dl[d].at \notin Finished
  /\ Goto(d, "dead")
  /\ disturbed' = TRUE
  /\ UNCHANGED <<tenant, sub, redis, online, applied, emitted, overlapped>>

Step(d) ==
  \/ WriteBack(d) \/ Route(d) \/ HandleTrialWillEnd(d) \/ ApplyStatus(d)
  \/ ApplyFails(d) \/ Emit(d)
  \/ FindTenant(d) \/ FindSubscription(d) \/ PersistStripeIds(d) \/ PersistFails(d)
  \/ MarkProcessed(d)

\* Stripe stops; nothing is owed to it.
AllDelivered ==
  /\ \A d \in Deliveries : dl[d].at \in {"done", "refused", "dead"}
  /\ UNCHANGED vars

Next ==
  \/ \E d \in Deliveries, e \in Events : Receive(d, e)
  \/ \E d \in Deliveries : Step(d) \/ Crash(d)
  \/ RedisChanges
  \/ AllDelivered

Spec == Init /\ [][Next]_vars

-----------------------------------------------------------------------------
(* Properties *)

\* Whatever fails, overlaps or repeats: a status other than the trial's was
\* committed by a transaction of an event that stands for it, and the domain
\* event goes out only for a committed change (or as the trial's reminder),
\* never for a transaction that was rolled back.
StatusHasCause ==
  /\ tenant.status # "TRIALING" =>
       \E e \in Events : applied[e] > 0 /\ newStatus(e) = tenant.status
  /\ sub.status # "TRIALING" =>
       \E e \in Events : applied[e] > 0 /\ newStatus(e) = sub.status
  /\ \A e \in Events : e.kind # "trial_will_end" => emitted[e] <= applied[e]

\* "Each event is deduplicated": while deliveries do not overlap, Redis is up
\* and no process dies, an event's transaction and its domain event happen at
\* most once, however often and in whatever order Stripe delivers it.
EventProcessedOnce ==
  ~overlapped /\ ~disturbed => \A e \in Events : applied[e] <= 1 /\ emitted[e] <= 1

\* No customer has events of two subscriptions: after a cancellation and a new
\* checkout the row keeps the id of the first (PersistStripeIds).
OneSubscription ==
  \A e, f \in Events : e.cust = f.cust /\ e.sub # None /\ f.sub # None => e.sub = f.sub

\* "keeps tenant/subscription statuses in sync": as long as customers have one
\* subscription each and deliveries have not overlapped, both rows carry one
\* status, through outages, failing transactions and crashes.
StatusesInSync == OneSubscription /\ ~overlapped => tenant.status = sub.status

\* The rows handleStripeWebhook writes: their statuses and the emitted events have a
\* committed cause, and until deliveries overlap the two rows agree.
BillingInv ==
  /\ TypeOK
  /\ StatusHasCause
  /\ StatusesInSync

\* handleCheckoutSessionCompleted stores ids only where there are none: while
\* deliveries do not overlap, those of another checkout never replace them.
StripeIdsPermanent ==
  [][~overlapped' => /\ tenant.customer # None => tenant'.customer = tenant.customer
                     /\ sub.stripe # None => sub'.stripe = sub.stripe]_vars
=============================================================================
