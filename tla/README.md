# Formal model of the Zayjar / Eleva restaurant platform

TLA+ specifications of this repository's API (`apps/api`, with the database layer in
`packages/db`) and of the browser applications in front of it (`apps/backoffice`,
`apps/cashier`, `apps/qr-menu`), the TLC configurations that check them on small
instances, and TLAPS proofs of central results for instances of any size.

`PROJECT.json` is the index: components, runs, the map from definitions to source
lines, mutants, hazards and theorems. This file explains them.

Contents: 1 the system · 2 inventory · 3 modules and how they correspond to the
code · 4 runs, bounds, fairness · 5 proofs · 6 what the code does otherwise than its
text says · 7 plan · 8 limits and what is not modelled

---

## 1. The system

A multi-tenant restaurant platform. One NestJS process (several pods) serves guests
who scan a QR code, cashiers, kitchen displays, back-office staff, payment
providers and Stripe; a worker process consumes the same job queue. PostgreSQL (through
Prisma) holds the durable state; Redis holds caches, token blacklists, CSRF tokens
and BullMQ queues; files live on S3 or on disk. The browser applications keep state
of their own: cached lists, forms, carts, an IndexedDB queue, a service worker, a socket.

There is no in-process lock: every handler is an `async` function, so two requests
interleave at each `await`, and what keeps the data right is the database
(transactions, unique keys, row locks, one advisory lock), the order of the
statements, and keys in Redis. That is where the models look: every
`await` on state that something else may change is a step boundary.

Three facts shape nearly every module:

* Prisma's `$transaction` runs at READ COMMITTED unless it says otherwise. Reads see
  committed rows, an UPDATE locks its row to the end of the transaction, and a value
  read earlier may be stale. Only the media service asks for SERIALIZABLE.
* Many handlers read and validate *before* they write, outside any transaction.
* The cache is best effort: while Redis is away, reads find nothing and writes vanish,
  and the write-back of a miss may land later than a newer value.

## 2. Inventory

| Component | State | Operations | Interacts with | What is hard | Correct when | Module |
|---|---|---|---|---|---|---|
| Order lifecycle (`order.service`) | order status, audit rows, invoice, PDF | updateOrderStatus, cancelOrder, generateInvoice | audit trigger, invoice storage, KDS gateway, webhooks | validate-then-write; three effects after the write, each can fail | stages are not skipped, audit is gapless, invoices are justified and permanent | `OrderLifecycle`, `OrderMachine` |
| Checkout (`order.service`, `discount.service`, `branch.deleteTable`) | orders, tickets, discount usage, tables | createGuestOrder, createOrder, deleteTable | menu, tenant status, kitchen | READ COMMITTED transaction with a counter; table deleted meanwhile | money adds up, usage equals discounted orders, the kitchen hears only of durable orders, no checkout hangs | `Checkout`, `Pricing` |
| Wallet payments | payment rows; charges at the provider | createWalletPayment, verifyPayment, settleFromWebhook | Stripe, Tap | answers lost after the charge, late and repeated notices | a settled record says what the provider decided | `WalletPayment` |
| Staff users | users, roles, advisory lock | create, update, delete, activate | auth (token revocation) | count-then-remove; roles read before the lock, granted meanwhile; revocation fails inside the transaction | a tenant keeps an active owner, but for a grant beside a removal; nobody waits forever | `StaffUsers` |
| Kitchen tickets (`kds.service`) | cooking statuses, queue row | updateCookingStatus, getTickets | displays | stale reads, a GET that writes | times and RUSH have a cause; served stays served | `KitchenTickets` |
| Stripe billing | tenant and subscription rows, idempotency keys | handleWebhookEvent and its handlers | cache, tenant scope, domain events | duplicates, any order, Redis away, swallowed errors | a status has an event that caused it; an event counts once | `BillingWebhook` |
| Tenant scope (`tenant-context.middleware`, `packages/db`) | the request's context | admit, scope, refuse | all of the above | which statements the extension refuses | | `TenantScope` |
| Media library, cleanup queue | media rows, files, URL columns, in-memory queue | upload, remove, processQueue | storage, tenant scope | compensation after failed transactions; shared files; a queue with a timer | no dangling URL, no forgotten job, no file without owner | `MediaLibrary` |
| Sessions, guards, CSRF | token pairs, Redis keys (blacklist, cut-off, CSRF) | login, refresh, logout, authenticated requests, revocation | cache, staff | check-then-set over a best-effort store | one exchange per refresh token; a revocation sticks; roles open their routes | `Sessions`, `AccessControl` |
| Dispatch, queue, worker, webhooks | BullMQ jobs, in-memory queue, dead letters | dispatch, drain, retry, process | e-mail, SMS, FCM, KDS | overlapping drains, two consumers, retries of retries, success without a send, lost acknowledgements | a job is tried and ends, no retry sends again what was sent | `Dispatch` |
| Device tokens, push | token rows | register, delete, send and prune | FCM | lookup-then-write beside pruning | a confirmed device is stored | `PushTokens` |
| Eleva agent | approvals, executions, plan, blockers, plans | approve, revoke, runTask, continue, approve and execute plans | guards, audit, tools | what loading overwrites; tools chosen by capability; approval and execution overlap | what runs unapproved named no tool or declared no risk; failures stay visible | `ElevaAgent` |
| Eleva office and insight | conversations, memory entries, situations, alerts, insights | reply, recall, correlate, alert, recommend, metrics | orders | shared memory map; merging situations | no cross-talk; segments add up | `ElevaOffice`, `ElevaInsights` |
| Catalogue (branches, tables, menu, customers, plan limits, audit records) | soft-deleted rows | create, update, delete with cascade, restore | guests, billing, audit interceptor | count-then-create, cascade in batches, restore | children of the living, limits, tombstones stay | `Catalog` |
| Back office screens | cached lists, dialogs, mutations, forms | open, submit, archive, restore, toggle, refetch | catalogue | stale lists, lost answers, dialogs closed while saving | one row per form; the announced cascade is the real one | `Backoffice`, `FormRules` |
| Cashier terminal, service worker | cart, IndexedDB records | checkout, enqueue, auto-sync, worker run | checkout, guards | lost answers, overlapping runs, stale closures, a worker that is missing or refuses | a sale is kept, is at the server once, and is tried | `OfflineQueue`, `ClientRequests` |
| KDS gateway and display | sockets, rooms, board | connect, join, leave, broadcast, click | auth, orders | a join that overtakes the verification; reordered events; updates that take the database back | events stay in the tenant; a board shows nothing that never was, but where it was clicked | `KdsScreen` |
| QR menu | dialog, cart | customise, add, change quantity, submit | checkout, menu rows | second click, lost answer, two price rules | quoted is charged; one order per cart | `GuestMenu` |
| Tenants, wizard | tenant, owner, role rows; wizard steps | executeOnboarding, updateTenant, next, back, submit | mail, permission migration | look-then-write; mail inside the transaction; a migration beside it | unique address without overlap; owners miss only what was migrated beside them | `Onboarding` |

`PROJECT.json` "hazards" lists, at its line, what in this code is hard to test; each
names the properties that would catch it going wrong. Lesser ones, kept here:

* orders: broadcasts of overlapping handlers leave in another order than their writes
  (`order.service.ts:447`); the tenant's status is read once per checkout (`:147`); stock refuses an
  order at zero but nothing lowers it (`:220`);
* wallet: the 10 s abort may follow the charge (`wallet.service.ts:459`), an order may be paid twice
  (`:122`), a charge whose insert failed has no record (`:183`);
* billing: an invoice event before its checkout finds no tenant (`billing.service.ts:206`); a
  resubscription keeps the first subscription id (`:392`);
* media: the queue is lost on a restart (`media-cleanup-queue.service.ts:15`); two keys of one millisecond
  (`media.service.ts:135`);
* sessions: the reset record is encoded twice (`auth.service.ts:674`), the password is committed before
  the sessions are revoked (`:715`);
* rate limiting: a process that dies between INCR and EXPIRE leaves a counter without an expiry
  (`rate-limit.service.ts:39-42`).

## 3. Modules

A module's action names are the methods' names, or name the statement between two
awaits. `pc` (or a field `at`) says where each handler is. A variable marked
*history* is not program state: it records what happened so that a property can
speak about it. Request bodies, names and texts are model values. A few
operators state a plausible bug in the definition that follows them (most are marked "Mutant"); no
specification uses them, they show that a property can fail.

### OrderTypes, OrderMachine, OrderLifecycle

`OrderTypes` holds the enumeration, `allowedTransitions` and `mapStatusToEvent`.
`OrderMachine` is the abstract specification: the status advances one stage at a
time, may be cancelled until completed, and is never left once final; one invoice
is issued, for a completed order. `OrderLifecycle` is the code: a
request validates against the status it read (`UpdateOrderStatus`, `CancelOrder`),
writes later (`WriteStatus`, together with the database trigger that logs old and
new status), renders and stores the PDF or falls back to a placeholder, inserts the
invoice unless one exists, and broadcasts. `DatabaseError` and `Crash` may strike between any two
steps. The history variable `overlapped` records that two requests were under way at once;
`ImplementsOrderMachine` says that every step before that is a step of `OrderMachine` or a stutter.

### Values, Pricing, Checkout

`Values` is what several modules share: `None`, the value for "nothing", and two operators written so that they can be reasoned about.
`Kept` is the `filter` of a list, as a recursive function over its positions; `Sum` adds up the values of a function, as a fold. `Pricing` is the arithmetic in cents: percentage rounding as `toFixed(2)`, variant, size
and addon prices, `validateDiscount`, `computeDiscountAmount`. `Checkout` walks a request through tenant
check, table validation, pricing item by item, discount lookup and increment (which
takes the row lock), commit or rollback, and the two broadcasts, beside staff who
delete tables, take products off the menu, end the discount or lose the subscription.
Stock is a constant because no code changes it.

### WalletPayment

A charge at the provider is external state. `railOutcomes` gives what a call may
leave behind: a charge and an answer, a charge and no answer (the 10 s abort), or
nothing. Verification reads, asks, and writes in three steps. A notice is looked up and
written in two. No controller calls `settleFromWebhook` yet; it is modelled as the
public method it is.

### StaffUsers

The user and its roles are read *before* the transaction; `AssertNotLastOwner` runs
inside, under the tenant's advisory lock; the transaction commits or, when the session
store refuses the revocation, rolls back. `SkipGuard` is the path of a request
that the early read made look harmless. `overtaken` (history) holds the requests about users who were given
ownership after the request had read them: a removal among them goes unguarded, and `SomeOwnerRemains`
names this as its one exception.

### KitchenTickets

One ticket with its items. An update validates, writes the item, reads the queue
row, writes its times and broadcasts: five steps. A poll reads and, if the ticket is late,
escalates. A clock ticks.

### TenantScope, BillingWebhook

`TenantScope` models which requests the middleware admits and which statements the Prisma
extension scopes or refuses. `BillingWebhook` follows one delivery: idempotency read
(with the asynchronous write-back of a miss), routing by kind, resolving the tenant by
metadata, subscription or customer, the status transaction, the domain event, linking the Stripe
ids, and the mark. Redis goes and comes back; the process dies anywhere.

### MediaLibrary

An upload looks for a ready file of the same checksum, for the row it replaces, stores
the files, commits or conflicts (retried up to `MaxTries`), rolls its files back, and
queues the files it replaced. A removal is one transaction and a queued deletion. The
cleanup queue has its timer, its loop and its retries. A SERIALIZABLE transaction is one
step that may fail with a conflict while another request is under way.

### AccessControl, Sessions

`AccessControl` is tables and decisions without state: the permission rows and role links of
the seed, the ability `CaslAbilityFactory` builds from a token, the decorators of every guarded
route, and the guard. `Sessions` is one account: browsers log in, refresh, read, write and log
out through handlers that interleave at every Redis or database call. A pair of tokens is a serial
number with what it carries; Redis keys hold the blacklist, the revocation cut-off and the
one CSRF token of the account; `get` writes a miss back later. A deactivation revokes. Time is in
seconds, and keys and tokens expire by the clock.

### Dispatch, PushTokens

A job goes to BullMQ, or, when that fails, into the array of `DispatchService`, where every
dispatch starts a drain. Drains overlap; a failed job returns by a timer that starts no drain. BullMQ is
external: it hands a job to the API or to the worker, whose processors differ (the API's swallows
a failure, the worker's throws), delays a retry, and hands a job out again when
its consumer died. The acknowledgement of an add may be lost: then the job is in BullMQ and in the array. Each channel's
answer is a set of outcomes: a mail may be refused for a hard-bounced address, and a push is only logged and called a success where
FCM is not configured (`fcm`). `PushTokens` has registrations, deletions and pushes with their pruning over one table.

### ElevaAgent, ElevaOffice, ElevaInsights

All of this lives in the memory of one process. A handler leaves it only to run a tool, write
the audit row or call a plan's verifier, so it is one action up to there. `ElevaAgent` has
approvals, the choice of a tool by its name or, without one, by its capability (`Chosen`; such a request skips `runTask`'s check), `runTask` with its gates, tool, verification and record, the objective with plan and
blockers loaded from and persisted to memory entries, and operational plans. `ElevaOffice` has conversations
and the one map of the entries they leave, in which a category and a key occur once, and from which a conversation recalls what carries its tag; anybody may write a note with any key and tag; a
reply is the choice the advisory service makes. `ElevaInsights`
has events, situations, alerts, recommendations, and two metrics over orders: the count with its segments, and the revenue, whose query names a
status that the schema does not have, so that it is rejected and the metric is answered `UNVERIFIED`, without figures. The two queries of
the count are read as one step.

### Catalog, Backoffice, FormRules

`Catalog` runs a request as the code does: the subscription guard counts, the service reads and decides,
the repository looks the row up again, the database writes, the interceptor inserts its audit record. A
cascade works in batches. `overlapped` and `blind` mark what the promises exclude. A product whose category
has no row is refused by the foreign key (`dangles`), with a raw error. `Backoffice` is
one operator over it: lists are snapshots that are refetched when a mutation invalidates them or
a screen mounts, and hold at most the first `MaxListed` rows, in the database's order; a form belongs to a dialog, a submission to a mutation hook; answers may be lost
or come after the dialog closed. `FormRules` states each form's validation and each DTO's, and
compares them on every boundary value. The forms of product and category let through nothing that their DTOs refuse. The others do, and
`FormsMirrorDtos` says exactly what: hours that are JSON but no object, what looks like an address to the form's expression but not to `@IsEmail` or is too long,
fractions of seats and points, an edited telephone number or password that is too long.

### ClientRequests, OfflineQueue, KdsScreen, GuestMenu, Onboarding

`ClientRequests` holds what the applications share: which guards a request of theirs meets.
`OfflineQueue` has the cart, the checkout with its lost answers, the records of the object
store, the auto-sync effect with its timer and its stale `isSyncing`, and runs of the worker,
which may overlap. A browser may have no worker, or one whose registration failed, so that `ready` never resolves; a
`sync.register` may be refused (`RegisterRefused`: no timer, nobody asked); and a session may name no tenant, so that the worker passes its
records over (`SyncSkips`). `KdsScreen` has the sockets (connection, verification, joining, leaving), item updates that
validate (`ValidateCookingStatus`) and write later (`WriteCookingStatus`), so that overlapping ones take the database back, broadcasts held
back before and after the emit, and the board with the handlers as they are: the one of
`ticket.created` spreads the event's wrapper and breaks the next render. `GuestMenu` has the dialog with its
addon groups, the cart that merges equal lines, the submission, and the price rules of the page against
those of `Pricing`. `Onboarding` has `executeOnboarding` (lookups, hash, insertion, mail, commit or
rollback), migrations that bring a permission and link it to the owner roles they see, the permissions an owner role is given (a clone of the
oldest one's, or all), `updateTenant`, and the wizard's steps.

### MC modules

`MC*` define the values of constants and the symmetry sets. `MCDispatch`, `MCEleva`, `MCBackoffice` and
`MCClients` put several components into one run. Those that share no state are explored one at a time: the
variable `focus`, chosen in the initial state, says which of them moves, which reaches every state each
of them can reach without their product. A large component has several focuses, which bound different things: overlapping item updates are explored with one order
(`overlap`), two orders with updates one after the other (`display`); agent tasks and plans apart from the objective; and a session without a tenant with a registered worker. The theorems are about the components' own specifications, where everything a component does
interleaves freely (`AgentSpec`, `OfficeSpec`, `InsightSpec`, `CatalogSpec`, `BackofficeSpec`, `CashierSpec`, `KdsSpec`, `GuestSpec`, `OnboardingSpec` …). Every `.cfg` gives constants values and replaces nothing else.

## 4. Runs

A component's invariant (`...Inv`) is the conjunction of named parts, its type invariant among them; a part is
commented where it is defined. Every property has a mutant in `PROJECT.json`: a plausible bug in a mapped
definition under which TLC reports the property violated.

| Run | Instance | Properties and what they show |
|---|---|---|
| `order_races` | 5 overlapping requests, crashes, failures (72 k states) | `TypeOK`; kitchen stages in order (`StagesInOrder`); gapless audit (`AuditIsChain`); `InvoiceFollowsCompletion`: an invoice belongs to an order that was completed and its PDF is stored or a placeholder, only the handler that created it announces the completion, and a completed order has one once no handler runs, unless one failed; invoices never change (`InvoicePermanent`); until requests overlap the code implements `OrderMachine` (`ImplementsOrderMachine`) |
| `checkouts` | 2 checkouts, 5 kinds of body, table deletion, staff changes; fair (223 k) | `CheckoutInv`: totals, table and branch, broadcasts only of real orders, limit and live tables until an overlap; the usage count is exact (`UsageCountsOrders`); the price arithmetic agrees with a reference definition (`PricesMatchReference`); every checkout finishes (`CheckoutsFinish`) |
| `wallet` | 3 rails, 2 verifiers, notices late, lost, repeated (151 k) | `WalletInv`: a recorded or reported outcome is the provider's; only a notice changes a settled record (`SettledChangesOnlyByNotice`) |
| `staff` | 3 requests, 3 users of whom 2 have accounts at the start, grants included; fair (381 k) | `StaffInv`: the types, and an active owner remains unless a grant overtook a removal (`SomeOwnerRemains`); every request finishes (`StaffRequestsFinish`) |
| `kitchen` | 2 items, 3 updates, 2 polls, 1 tick (1.3 M) | `TicketInv`: times and RUSH have a cause, SERVED is final until an overlap; times are stable until then (`TimesAreStable`) |
| `billing` | 3 deliveries, 7 events, faults (386 k) | `BillingInv`: statuses and emitted events have a cause, tenant and subscription rows agree until an overlap; an event is processed once without overlap and disturbance (`EventProcessedOnce`); ids are permanent without overlap (`StripeIdsPermanent`) |
| `media` | 2 uploads, 1 removal, 2 slots, 2 contents, both scopes (1.4 M) | `MediaInv`: URLs point to rows; one ready row per slot, whose file exists, until an overlap; files belong to rows, jobs or known leftovers (`NoOrphanedFiles`); `NoJobForgotten` |
| `sessions` | 2 browsers, 2 handlers, 3 token pairs, Redis outages | a deactivated account opens nothing (`DeactivatedCannotAct`); `SessionsInv`: a blacklisted token stays refused, a refresh token is exchanged once, the latest browser can write; all with exactly the exceptions that the write-back and an absent Redis force; owners open the staff routes and nobody another tenant's records (`OwnerOpensStaffRoutes`) |
| `dispatch` | 2 jobs on any channels, 2 attempts, one process death, with and without FCM; 2 devices, 2 users; fair (429 k) | `DispatchInv`: no job in two hands or in none, given up only after all attempts, not sent again, in the API's queue a broadcast that is done was made, and a push that is done reached someone or there is no FCM (`DoneReachedSomeone`); `PushInv`: a confirmed device is stored; `QueuedJobsAreTried`: every job of the array is tried and every BullMQ job ends |
| `eleva` | 2 tasks, 1 action id, 1 plan run twice; 2 conversations and 1 note; 2 situations; 2 orders (196 k) | `AgentInv`: a failed verification stays a blocker, what runs unapproved carries an id and names no tool or declares no risk (`UnapprovedRunsHideTheRisk`), one plan run per approval, what is shown as pending was not run; `OfficeInv`: no cross-talk, requests to execute are routed to approval; `InsightInv`: nothing filed is lost on a merge, high alerts are justified, the count's segments add up and no figure is shown for the revenue |
| `backoffice` | a plan of 1 branch and 2 products, 2 rows per kind, 2 requests at a time, 2 forms, lists of 1 row (0.7 M) | `CatalogInv`: living children have living parents, plan limit, clashes are 409 but for a new table or product, orders keep table and branch, the public menu is orderable, deletions are audited; `ScreensInv`: one row per form, the announced cascade is right, forms let through what the DTOs refuse only where listed; `TombstonesStay`; `FormHearsItsOwnAnswer` |
| `clients` | 2 sales and worker runs; 2 displays of 2 tenants, 2 orders or 2 overlapping updates; a guest with 3 dishes; 2 onboardings and updates, 2 permissions; fair (1.0 M) | `CashierInv`: SYNCED is at the server, sales are kept and sold once; a pending sale of a known tenant is tried unless the worker is missing or refuses (`PendingIsTried`); `DisplayInv`: events stay in the tenant, one ticket per order, a board is ahead of the furthest the database has been only by clicks; `GuestInv`: addons within the group, quoted is charged, one order per cart; `OnboardingInv`: shared addresses, raw index errors and lost branding need an overlap, welcome means a workspace, owners miss only permissions whose migration ran beside an open transaction (`OwnersMissOnlyStraddled`), the wizard submits only what it validated and conflicts with itself only after a lost answer |

**Properties with a condition.** Several promises of the code hold only while two
handlers do not overlap. Rather than forbid the overlap, the model records it
(`overlapped`, and `disturbed` for lost caches and crashes), so one run explores everything and the property
states exactly the condition under which the promise is kept. The unconditional ones
(`StatusHasCause`, `UsageCountsOrders`, `TimesAreJustified`, `UrlHasRow`, `AuditIsChain`, `JobIsInOnePlace`,
`EventsStayInTenant`, `SyncedIsOnServer` …) are what remains true under every interleaving.

**Bounds.** Each bound is a constant, chosen as the smallest at which the case occurs.
An order needs five requests to walk from PENDING to COMPLETED with a
race on the way. Two checkouts are enough for every race on the discount row or a table,
because each pair contends for one row. Three staff requests are two removals with something
between. `PrepTime = 0`, `MaxTime = 1` has a ticket exactly at its
limit and one past it. Three deliveries cover an event, its duplicate and another event.
`MaxTries = MaxRetries = MaxAttempts = 2` has a first failure, a retry and giving up.
Three token pairs are a login, a refresh and a second browser; a revocation outlives an access token
(`AccessLife` < `RevocationTTL` < `DefaultTTL`) as in the code. A plan of one branch is full with
the seed's branch, so the first creation is already at the limit. Two worker runs and two sales
contain every overlap over the object store; one display suffices for the board and a second, of another
tenant, for the rooms. `MaxListed = 1` (500 in the code) cuts a list of two rows off. Two permissions are one that every role has and one that is
migrated beside an onboarding. `MaxNotes = 1` is enough to overwrite an entry of either conversation.

**Symmetry** permutes requests, polls, items, slots, contents, deliveries, tasks, conversations or
browsers, never in a run with a liveness property.

**Fairness** is weak fairness of single steps, assumed where a property needs it:

* `checkouts`, `staff`: each handler's next step. Node resumes a handler whose promise has settled and PostgreSQL
  answers or fails a statement and grants a free lock. Weak fairness per
  handler says nothing about who wins a lock; because each handler takes it at most once, it is enough.
* `dispatch`: the steps of a drain, the requeue timers, and BullMQ handing out its jobs.
* `clients`: the effect of an open page, its timer, the rejection of a refused `sync.register`, and the browser running the worker's sync event.

Nothing is assumed of clients, staff, providers or faults.

**Deadlock** is checked where a run can always go on (checkout, billing, media); elsewhere requests are
submitted once, or counted, and the system really stops when all are answered.

## 5. Proofs

Checked by TLAPS for every value of the constants, that is for any sets of requests, users, rows, events, prices and
jobs and any bounds, under the assumptions named below. An assumption stands in the module that declares the constant, and
TLC evaluates it in the run of that module. Each theorem follows one scheme: an inductive invariant, checked by TLC before it was
proved; one lemma per action (or per group of actions that disturb the same part); `PTL` for the temporal step.

| Module | Theorems (→ the property of section 4) |
|---|---|
| `OrderLifecycleProofs` | `TypeCorrect`, `StagesNeverSkipped` → `StagesInOrder`, `AuditComplete` → `AuditIsChain`, `InvoiceFollows` → `InvoiceFollowsCompletion`, `InvoiceNeverReplaced` → `InvoicePermanent`, `SerialImplements` → `ImplementsOrderMachine` |
| `SalesProofs` | checkout: `CheckoutCorrect` → `CheckoutInv`, `UsageIsAtomic` → `UsageCountsOrders`, `NoLineSkipped`, `PricesAreReference` → `PricesMatchReference`; guest: `GuestCorrect` → `GuestInv`; the executive's figures: `InsightCorrect` → `InsightInv` |
| `AccountsProofs` | staff: `StaffTypeCorrect`, `OwnerGuardSound` → `StaffInv`; sessions: `SessionsCorrect` → `SessionsInv`, `DeactivatedStaysOut` → `DeactivatedCannotAct`, `OwnerIsServed` → `OwnerOpensStaffRoutes` |
| `PlatformProofs` | Stripe: `BillingCorrect` → `BillingInv`, `ProcessedOnce` → `EventProcessedOnce`, `IdsNeverReplaced` → `StripeIdsPermanent`; Eleva: `AgentCorrect` → `AgentInv`, `OfficeCorrect` → `OfficeInv` |
| `MediaLibraryProofs` | `MediaCorrect` → `MediaInv`, `FilesNeverOrphaned` → `NoOrphanedFiles`, `JobsNeverForgotten` → `NoJobForgotten` |
| `ServicesProofs` | wallet: `WalletCorrect` → `WalletInv`, `SettledIsStable` → `SettledChangesOnlyByNotice`; dispatch: `DispatchCorrect` → `DispatchInv`, `PushCorrect` → `PushInv`; kitchen: `TicketCorrect` → `TicketInv`, `TimesNeverGoBack` → `TimesAreStable` |
| `CatalogProofs` | catalogue: `CatalogCorrect` → `CatalogInv`, `TombstonesNeverMove` → `TombstonesStay`; screens: `BackofficeImplementsCatalog`, `ScreensCorrect` → `ScreensInv`, `FormsHearTheirAnswers` → `FormHearsItsOwnAnswer` |
| `ClientsProofs` | `CashierCorrect` → `CashierInv`, `DisplayCorrect` → `DisplayInv`, `OnboardingCorrect` → `OnboardingInv` |

**Orders** (`NoneAssumption`). The properties are not inductive by themselves.
`StagesInOrder` speaks of the audit log, while a handler writes a status it validated
earlier, possibly against another one. The invariant `IInv` adds what survives the race:
the current status and the target of every handler past validation need only stages the
order has already been through (`StatusReached`, `HandlerInv`). Stages once reached stay reached,
so another handler's write cannot invalidate it: that monotonicity is why no stage is
skipped although validation is stale. `InvoiceFollows` adds `InvoiceOwed`: the handler that completes
the order owes it the invoice until it has created it or failed. `SerialImplements` shows the refinement
step by step: `LoneInv` says that, unless requests have overlapped, there is at most one handler in flight and it still sees
the status it validated, so its write is a step of `OrderMachine` and every other action stutters
(`AbstractStep`); an overlap is never forgotten (`OverlapStays`), so nothing is left to show after one.

**Checkout** (`RateAssumption`, `DtoAssumption`, `NoneAssumption`: rows and bodies have the form that schema and DTO
give them, a body at least one item). `UsageCountsOrders` needs `LockInv`: the row lock is held by exactly the
transaction that will count a use when it commits. `RequestInv` says what a checkout has established and
nobody can take from it: its table's branch, that the loop has charged each line so far (`RunningTotal`), the bounds of its discount. A
subtotal may be negative, because a variant's `priceAdjustment` is not validated; the discount is then zero. `NoLineSkipped` says that
an order charges each line of its cart once. The promises that end with an overlap need `AloneInv`: until then there is one request at
a time, and what it has read still holds. The same part appears in the kitchen, billing, catalogue and media proofs.

**Prices and other sums.** The code's totals are loops, and the models' are folds over a finite set, which take its elements in an
order that nobody chose. `AddsUp(g, v, D)` says that `g` gives every part of `D` its sum, whichever element is taken off first; that such a `g`
exists for every finite set is shown by well-founded induction, on a smallest part that has none (`Smallest`, `AddsUpExists`). The library defines
a fold by a `CHOOSE`d function: it is determined, because one exists (`FoldExists`) and every one of them agrees with `g` (`FoldAddsUp`). Then `SumAddsUp` gives the
value of `Sum`, and the server's running totals, the reference over whole lines and the page's price come to the same (`PricesAreReference`).

**Guest** (`MenuAssumption`: prices are integers of any sign, an option is in one group of its product, and a group's maximum is any integer, because
the route does not validate it, `menu.controller.ts:170-173`). `DialogInv`: whatever is clicked, a group with a choice keeps within its maximum;
`CartInv`: one line per configuration, at the prices of the page; `SubmissionInv`: what a submission quotes is what its items cost on the page it came from, and what it is charged
unless the menu has changed since; `ResubmissionInv`: a cart is submitted again only when its earlier submissions are over, and not taken as far as the page knows. So it
is taken twice only after a lost answer.

**Figures and situations** (`InsightAssumption`). A row adds one to the segment of its branch and status and to no other (`StatusNext`, `AddedIn`), and by well-founded
induction over the rows selected the segments add up to their number (`StatusesAddUp`). The revenue's query is rejected (`RevenueIsRejected`), so it has neither
figure nor segments. For situations, `IdsInv` (an id belongs to one
situation) and `FiledInv` (what is filed names a situation that exists) make the counts of `NothingLostOnMerge` inductive: a new situation starts with nothing filed under its id;
`SeverityInv` says that whoever is HIGH was assessed with a reason, which an alert keeps.

**Staff** (`AccountsAssumption`, which says who has an account at the start). `StaffInv` needs that a removal past the guard holds the lock and leaves another active owner
(`GuardedInv`), and that a request which read no owner is not about one, unless a grant has overtaken it (`UnguardedInv`). Once an overtaken removal is done (`Slipped`), the exception
of `SomeOwnerRemains` holds for good, and nothing is left to show. The theorem is about every set of operations.

**Sessions** (`LifeAssumption`: a revocation marker lives at least as long as an access token). `BlacklistInv` and `MarkerInv`: unless a write-back replaced it, the blacklist entry of a
logged-out token, and the cut-off once it is written, outlive every token they must stop; `CsrfInv`: the stored CSRF token is that of the newest pair; `RotationInv`: a refresh token that was
checked properly is with one handler or is blacklisted for good; `ServedInv`: what the checks of a request let through when it arrived is still covered by an exception, because
`overwritten` only grows. `HeldInv` says that nothing in anybody's hands was not issued. That a rotated token opens nothing and an owner's opens every staff route follows from the tables of `AccessControl`,
row by row (`RoutePermissions`, `SeededRows`).

**Kitchen** (`TimeAssumption`, `TicketAssumption`). A handler that stamps has written the item status which justifies the stamp
(`RequestInv`), and clocks do not run backwards. **Billing** (`EventsAssumption`, `CheckoutAssumption`: only checkout
sessions carry the tenant in their metadata, and with a subscription). `EmitsCounted`: emitted events and those about to be are covered by committed
transactions. `LinkInv`: until an overlap the two rows have the ids of one checkout, which is why statuses agree. `OnceInv`:
what an event has caused is marked or about to be, and a delivery on its way has caused nothing.

**Media** (`LimitAssumption`, `ScopeAssumption`, `NoneAssumption`). `RowsInv` ties a row to the upload that committed it, `UploadInv` and
`RemovalInv` what a request read to the row it read; `FilesOwned` is the accounting: a file belongs to a row, to an attempt that has
not committed, to a key that waits for deletion, or was given up. `FilesApart` (storage keys carry the clock) separates, until an overlap, files of rows from files
about to be deleted.

**Wallet** (`RailAssumption`, `NoneAssumption`). A verifier about to write holds the charge's final status (`VerifyInv`) and notices are true
(`NoticesAreTrue`); a final status does not change at the provider, so either may be arbitrarily late. **Dispatch** (`DispatchAssumption`,
`DrainAssumption`). `PlacesInv`: the array holds each job at most once, exactly the jobs whose place it is, and a job in hand is in the hands of one drain;
`JobInv`: what attempts, copies and consumer say at each place. **Push** (`PushAssumption`). `RowIdsInv`: ids up to a counter have been
given; `ReadInv`: an id that was read names the row that was read or no row. So a pruning that deletes late cannot hit a row registered anew.

**Cashier** (`CashierAssumption`). `SaleInv` says at each phase whether the sale is at the server and under which key it will be recorded; the worker's
requests are never accepted (no CSRF header), which is why no overlap of page and worker sells twice. **Display** (`KdsAssumption`). `RoomsInv`: a socket is in
the one room of its token's tenant; `FlightInv`: no event is ahead of what the database has reached (`furthest`, since overlapping updates take the status itself back), and `order.created` is sent once; `BoardInv`: a board shows an order once, only after
that event, and further than the database has been only where it was clicked. **Onboarding** (`OnboardingAssumption`). `PassedInv`: what a passed lookup
has left, a tenant with the same address, an owner of the domain or a branding key not read, came from a request that overlaps (`MetInv` records who
met whom); `OwnersInv`: what a role of an open transaction or of a tenant lacks was migrated beside an open transaction, as the oldest role's own gaps are; `WizardInv`, `StepsInv`: the wizard waits for one answer at most and has filled in the steps behind it.

**Catalogue** (`CatalogAssumption`: the ids of the kinds are apart, there are finitely many branches; `SeedAssumption`: the rows of the seed are live, below live parents,
within the plan and the unique indexes). `RowsInv`, `StepInv` and `FreshInv` hold whatever overlaps: a row's parent is of the right kind, the partial unique indexes hold of the live rows, a request is
at a step its operation has, and ids are given once. What promises rest on that end with an overlap is `LoneInv`: what the service method
decided (`Decided`) and the guard counted (`ReadsHold`) still holds at every later step of a lone request, down to the rows its cascade will find. `AuditInv`: what is deleted is recorded,
or its record is about to be inserted. `TombstonesStay` follows step by step.

**Back office** (`ScreenAssumption`). `BackofficeImplementsCatalog` shows that the screens, beside colleagues, orders and billing, take no step the catalogue does not allow
(`BackofficeStepIsCatalog`), so the invariant of the catalogue is at hand in the proof about the screens. On top of it: a request that a screen waits for is in hand and is waited for
once (`HooksInv`); until a dialog is closed while it saves, the open form is the submitted one (`DialogInv`); a form's submission is pending or has made its row, never both, and the row of a form still
open has its confirmation on the way (`OneRowInv`, with `SerialsInv`): this is why a form makes one row unless an answer was lost. As long as only this operator works,
the product list is current, known to be stale, or about to be (`OwnInv`, `CacheInv`), so the number the dialog announces is what the cascade finds (`AnnouncedInv`).

**Eleva** (`AgentAssumption`: action ids are not empty, and a task's id is not the text of the complaint about a missing objective; `OfficeAssumption`). Both modules
filter lists. `KeptElements` says what a filter keeps: elements of the list, each of those it should; it is proved by a least prefix without such a
filtering. Agent: a failed task is recorded in a moment, or stands in the blockers, and as long as nobody else has written under the agent's keys the stored blockers are
the list itself (`MemInv`), so loading cannot lose one; what a running task was let through with, and whether it named a tool, is kept in `TaskState`; `PlanState`: a plan approved under an
action id has an approval left that no run has used. Office: every text of a conversation and every entry that carries its tag is its own or the advisory service's, whoever else has overwritten entries of the map, a recommendation is never a request to execute
(`Notes`, `Replies`), and each request is followed by its answer (`Routed`); an exchange appends both at once, which is why no interleaving separates them.

Only model-checked: liveness (`CheckoutsFinish`, `StaffRequestsFinish`, `QueuedJobsAreTried`, `PendingIsTried`) and everything about `ENABLED` are out of the prover's
reach.

Every safety invariant and action property that a run checks is stated by a theorem; where a property names an exception,
so does the theorem.

## 6. What the code does otherwise than its text says

Met while modelling. Where a property covers one, its condition names the exception.

**Orders, staff, billing.** A terminal order status can be left: both requests validate before either writes
(`ImplementsOrderMachine` holds until an overlap). A discount with `usageLimit` can be used more often by overlapping
checkouts (`OveruseNeedsOverlap`). The last-owner guard is skipped on roles read before the transaction: a user who is given ownership
meanwhile is removed even as the last owner (`SomeOwnerRemains` excepts it). A
billing event whose transaction is refused is still marked as processed. Stock never decreases although
DOC-006 describes it. A wallet notice that comes late reverses a record.

**Sessions.** Two overlapping refreshes with one token both succeed. A refreshed token carries neither
roles nor permissions. The sign-out of the user interface sends no CSRF header and is refused before the handler.
Without Redis every mutating request is refused, although `cache.service.ts:24-27` calls the bypass correct but slower.
An account has one CSRF token, so a second browser takes the first one's writing away. The
seeded CASHIER, MANAGER and KITCHEN_STAFF roles cannot create or update orders.

**Dispatch.** Only the billing listener dispatches, without an address. The dead-letter queue and
`createWorker` have no callers. The e-mail failover and the SMS mock report success without sending, and so does a push without FCM (`device-token.service.ts:182-188`);
an add whose acknowledgement is lost is sent by both queues;
the worker has no socket server; retries in the array may wait for the next dispatch.

**Eleva.** `@CurrentUser() request` yields the user, so `request.user` is undefined and the routes of agent
tasks, conversations and business intelligence always refuse; the services are modelled as the API they export.
A restart loses everything. An approval is reusable and not tied to a tool. A request without a
`toolName` that picks a high-risk tool by its capability skips `runTask`'s check and runs with any id, approved or not. Nothing removes a blocker
or a pending entry. An unknown tool name falls back to the tool of the capability, or the safe tool. From the second reply on, a
question is answered with the previous response. Situation ids contain the millisecond, so
merging hardly ever happens. The revenue metric asks for orders in the status `REFUNDED`, which is no
`OrderStatus`: its query is always rejected, and it is `UNVERIFIED`.

**Catalogue.** `createProduct` does not look at its category: a deleted one is accepted, one that does not exist is answered with a raw 500; a restored branch is not counted against the plan;
`createTable` answers a duplicate number with a raw 500; `restoreCategory` leaves the category inactive; the audit entity of
`/menu/products` is "Menu"; edit forms send every field and overwrite a colleague's change; table and customer forms
accept fractions the DTO refuses; edits bound neither a branch's telephone number nor a password; the branch form accepts any JSON for the hours, where the DTO demands an
object; the e-mail expression of the forms is looser than `@IsEmail` and has no length. Archiving announces the number of products of a list that ends at 500 rows.

**Clients.** The service worker posts without `X-CSRF-Token`: every sync is refused, the record becomes
FAILED and is never retried (which is also why a sale is at the server at most once). The checkout button is
not disabled while a sale is under way, and `setCart([])` wipes what was added meanwhile. A reload during
a flight leaves a sale without a record. A pending sale stays untried, online, when `sync.register` was refused (nothing asks again by itself), when the worker's
registration failed (`isSyncing` stays set until the page is loaded again), and for good when its record names no tenant. Overlapping item updates take the database back behind what a board has
shown. A `joinBranch` that overtakes the verification disconnects the
display for good. The first `ticket.created` crashes every board; clicks on a board are refused by the CSRF
guard and not taken back. The minimum of an addon group is enforced nowhere, its maximum only by the page. A
guest who retries after a lost answer orders twice. The welcome mail leaves before the commit. An
owner role written beside the permission migration lacks the new permissions and, if it is the oldest, is the model of all later ones.

## 7. Plan

Done: every component of the inventory, in this order: OrderLifecycle with its abstract machine, Checkout,
WalletPayment, StaffUsers, KitchenTickets, BillingWebhook with TenantScope, MediaLibrary,
Sessions with AccessControl, Dispatch with PushTokens, Eleva, Catalog with Backoffice and FormRules, the clients.

Next, most important first:

1. A composition of `Checkout`, `OrderLifecycle` and `KitchenTickets` on one order.
2. The parts of Staff users still left out: branch assignment, e-mail clashes, and the staff screen's
   three requests per submission.

## 8. Limits and what is not modelled

Row identity is kept to one order, one ticket, one discount or one tenant per module where the code handles them
independently. Statements of a transaction that no other actor can observe or disturb are one step.

Not modelled, each with its reason in `PROJECT.json`: the media orphan sweep (it runs outside every
tenant scope, where both statements are refused, and changes nothing); Eleva research and operational status (text
ranking, providers that are not wired); assets and image processing; invoice documents; rate
limiting (a counter that no other component reads); sanitization; logging, secrets and health; schema, seed and shared types;
login pages and the Eleva office pages; deployment. Also out of scope: signatures, hashing, texts, HTTP and
WebSocket transport, the SQL planner.
