------------------------------ MODULE Catalog ------------------------------
(* The rows staff administer: branches and their tables, categories and    *)
(* their products, customers. A request runs as the code does: the         *)
(* subscription guard counts, the service method reads and decides, the    *)
(* repository looks the row up once more, the database writes; requests    *)
(* interleave between these steps. Rows are soft-deleted: deletedAt holds  *)
(* the time. A row's other columns are one revision number.                *)
EXTENDS Integers, FiniteSets

CONSTANTS Branches, Tables, Categories, Products, Customers,
          Keys,           \* table numbers and e-mail addresses
          MaxBranches,    \* plan.maxBranches
          MaxProducts,    \* plan.maxProductsPerBranch
          Requests,       \* requests the server has in hand
          MaxRequests,    \* bound on the requests of a behaviour
          MaxTime,        \* bound on the clock
          SeedRows,       \* the rows at the start
          None

VARIABLES
  rows,         \* rows[i]: the row with id i
  orders,       \* branches and tables that an order in progress names
  status,       \* the tenant's subscription status
  clock,
  req,          \* req[r]: what request r is at
  started,      \* requests so far
  audit,        \* ids whose deletion audit_logs records
  unaudited,    \* ids whose record the interceptor has not inserted yet
  auditLost,    \* some insert failed
  overlapped,   \* two requests, or a request and an order, were in hand together
  blind,        \* a product was created in a deleted category
  rebranched,   \* a branch was restored
  rawErrors     \* writes the database refused: [op, kind]

catalogVars == <<rows, orders, status, clock, req, started, audit, unaudited,
                 auditLost, overlapped, blind, rebranched, rawErrors>>

Ids == Branches \cup Tables \cup Categories \cup Products \cup Customers
Kinds == {"branch", "table", "category", "product", "customer"}
Ops == {"create", "update", "delete", "restore"}

idsOf(kind) == CASE kind = "branch" -> Branches [] kind = "table" -> Tables
                 [] kind = "category" -> Categories [] kind = "product" -> Products
                 [] kind = "customer" -> Customers
kindOf(i) == CHOOSE k \in Kinds : i \in idsOf(k)

parentKind(kind) == CASE kind = "table" -> "branch" [] kind = "product" -> "category" [] OTHER -> None
childKind(kind) == CASE kind = "branch" -> "table" [] kind = "category" -> "product" [] OTHER -> None
parentsOf(kind) == IF parentKind(kind) = None THEN {None} ELSE idsOf(parentKind(kind))
keysOf(kind) == IF kind \in {"table", "customer"} THEN Keys ELSE {None}

Row == [exists : BOOLEAN, parent : Branches \cup Categories \cup {None}, key : Keys \cup {None},
        active : BOOLEAN, rev : Nat, deletedAt : (0 .. MaxTime) \cup {None}]
NoRow == [exists |-> FALSE, parent |-> None, key |-> None, active |-> FALSE, rev |-> 0, deletedAt |-> None]

\* A payload: None stands for a key the body does not have.
Payload == [op : Ops, kind : Kinds, id : Ids, parent : Branches \cup Categories \cup {None},
            key : Keys \cup {None}, active : BOOLEAN \cup {None}, rev : Nat \cup {None}]

\* What the DTOs of the routes let through: the keys that a creation needs, and
\* those that an update knows.
wellFormed(q) ==
  /\ q \in Payload /\ q.id \in idsOf(q.kind)
  /\ q.op = "create" => q.parent \in parentsOf(q.kind) /\ q.key \in keysOf(q.kind) /\ q.rev \in Nat
  /\ q.op = "update" =>
       /\ q.parent \in {None} \cup {c \in Categories : q.kind = "product"}
       /\ q.key \in {None} \cup {k \in Keys : q.kind = "customer"}
       /\ q.active # None => q.kind \notin {"table", "customer"}
  /\ q.op \in {"delete", "restore"} => q.parent = None /\ q.key = None /\ q.rev = None
Answers == {None, "ok", "403", "404", "409", "500"}
Idle == [pc |-> "idle"]

ASSUME CatalogAssumption ==
  /\ MaxBranches \in Nat /\ MaxProducts \in Nat /\ MaxRequests \in Nat /\ MaxTime \in Nat
  /\ \A k, l \in Kinds : k # l => idsOf(k) \cap idsOf(l) = {}
  /\ IsFiniteSet(Branches)
  /\ None \notin Ids /\ None \notin Kinds /\ None \notin Nat /\ None \notin BOOLEAN

\* The rows at the start are live, below live parents, within the plan and the indexes.
ASSUME SeedAssumption ==
  /\ SeedRows \in [Ids -> Row]
  /\ \A i \in Ids :
       /\ SeedRows[i].deletedAt = None /\ SeedRows[i].rev = 0
       /\ SeedRows[i].parent \in {None} \cup parentsOf(kindOf(i))
       /\ SeedRows[i].exists =>
            /\ SeedRows[i].parent \in parentsOf(kindOf(i)) /\ SeedRows[i].key \in keysOf(kindOf(i))
            /\ SeedRows[i].parent # None => SeedRows[SeedRows[i].parent].exists
  /\ \A k \in {"table", "customer"} : \A i, j \in idsOf(k) :
       /\ SeedRows[i].exists /\ SeedRows[j].exists
       /\ SeedRows[i].parent = SeedRows[j].parent /\ SeedRows[i].key = SeedRows[j].key
       => i = j
  /\ Cardinality({i \in Branches : SeedRows[i].exists}) <= MaxBranches
-----------------------------------------------------------------------------
(* What the repositories read. *)

\* scopedWhere hides the rows that are deleted.
live(i) == rows[i].exists /\ rows[i].deletedAt = None
liveIn(S) == {i \in S : live(i)}
holders(kind, parent, key) ==
  {i \in liveIn(idsOf(kind)) : rows[i].key = key /\ rows[i].parent = parent}
childrenWithArchived(i) ==
  IF childKind(kindOf(i)) = None THEN {}
  ELSE {c \in idsOf(childKind(kindOf(i))) : rows[c].exists /\ rows[c].parent = i}
childrenOf(i) ==
  IF childKind(kindOf(i)) = None THEN {}
  ELSE {c \in liveIn(idsOf(childKind(kindOf(i)))) : rows[c].parent = i}

\* countActiveOrders: by the branch an order is at, or by its table.
activeOrdersAt(i) == {o \in orders : o = i \/ rows[o].parent = i}
-----------------------------------------------------------------------------
(* subscription.guard.ts *)

checkSubscriptionStatus == status \notin {"UNPAID", "CANCELED"}
checkBranchLimit == Cardinality(liveIn(Branches)) < MaxBranches
checkProductLimit == Cardinality(liveIn(Products)) < MaxProducts

\* The two routes that are guarded are those that create a branch or a product.
canActivate(q) ==
  checkSubscriptionStatus /\ IF q.kind = "branch" THEN checkBranchLimit ELSE checkProductLimit
-----------------------------------------------------------------------------
(* What each service method decides before it writes: "go", or the status  *)
(* it refuses with. The restaurant of a branch or category always exists   *)
(* (restaurants are read-only).                                            *)

createBranch(q) == "go"
createCategory(q) == "go"
\* The category is not looked up: the foreign key alone stands for it (see Write).
createProduct(q) == "go"
createTable(q) == IF live(q.parent) THEN "go" ELSE "404"
createCustomer(q) == IF holders("customer", None, q.key) # {} THEN "409" ELSE "go"

updateBranch(q) == IF live(q.id) THEN "go" ELSE "404"
updateTable(q) == IF live(q.id) THEN "go" ELSE "404"
updateCategory(q) == IF live(q.id) THEN "go" ELSE "404"
updateProduct(q) ==
  IF ~live(q.id) \/ (q.parent # None /\ ~live(q.parent)) THEN "404" ELSE "go"
updateCustomer(q) ==
  CASE ~live(q.id) -> "404"
    [] q.key # None /\ q.key # rows[q.id].key /\ holders("customer", None, q.key) \ {q.id} # {} -> "409"
    [] OTHER -> "go"

deleteBranch(q) ==
  CASE ~live(q.id) -> "404" [] activeOrdersAt(q.id) # {} -> "409" [] OTHER -> "go"
deleteTable(q) ==
  CASE ~live(q.id) -> "404" [] activeOrdersAt(q.id) # {} -> "409" [] OTHER -> "go"
deleteCategory(q) == IF live(q.id) THEN "go" ELSE "404"
deleteProduct(q) == IF live(q.id) THEN "go" ELSE "404"
\* No code writes an order's customerId, so a customer has no order in progress.
deleteCustomer(q) == IF live(q.id) THEN "go" ELSE "404"

restoreBranch(q) == IF rows[q.id].exists THEN "go" ELSE "404"
restoreCategory(q) == IF rows[q.id].exists THEN "go" ELSE "404"
restoreProduct(q) ==
  CASE ~rows[q.id].exists -> "404" [] ~live(rows[q.id].parent) -> "409" [] OTHER -> "go"
restoreTable(q) ==
  CASE ~rows[q.id].exists -> "404"
    [] ~live(rows[q.id].parent) -> "409"
    [] holders("table", rows[q.id].parent, rows[q.id].key) \ {q.id} # {} -> "409"
    [] OTHER -> "go"
restoreCustomer(q) ==
  CASE ~rows[q.id].exists -> "404"
    [] holders("customer", None, rows[q.id].key) \ {q.id} # {} -> "409"
    [] OTHER -> "go"

verdict(q) ==
  CASE q.op = "create" ->
         (CASE q.kind = "branch" -> createBranch(q) [] q.kind = "table" -> createTable(q)
            [] q.kind = "category" -> createCategory(q) [] q.kind = "product" -> createProduct(q)
            [] q.kind = "customer" -> createCustomer(q))
    [] q.op = "update" ->
         (CASE q.kind = "branch" -> updateBranch(q) [] q.kind = "table" -> updateTable(q)
            [] q.kind = "category" -> updateCategory(q) [] q.kind = "product" -> updateProduct(q)
            [] q.kind = "customer" -> updateCustomer(q))
    [] q.op = "delete" ->
         (CASE q.kind = "branch" -> deleteBranch(q) [] q.kind = "table" -> deleteTable(q)
            [] q.kind = "category" -> deleteCategory(q) [] q.kind = "product" -> deleteProduct(q)
            [] q.kind = "customer" -> deleteCustomer(q))
    [] q.op = "restore" ->
         (CASE q.kind = "branch" -> restoreBranch(q) [] q.kind = "table" -> restoreTable(q)
            [] q.kind = "category" -> restoreCategory(q) [] q.kind = "product" -> restoreProduct(q)
            [] q.kind = "customer" -> restoreCustomer(q))
-----------------------------------------------------------------------------
(* What is written. *)

\* Rows that the partial unique indexes (live rows only) refuse beside row i.
collides(kind, i, row) ==
  kind \in {"table", "customer"} /\ row.deletedAt = None
    /\ holders(kind, row.parent, row.key) \ {i} # {}

\* A foreign key refuses a parent there is no row of; a deleted parent still has its row.
dangles(row) == row.parent # None /\ ~rows[row.parent].exists

\* What the database does not let through.
refuses(q, row) == collides(q.kind, q.id, row) \/ dangles(row)

createdRow(q) ==
  [exists |-> TRUE, parent |-> q.parent, key |-> q.key, active |-> TRUE, rev |-> q.rev, deletedAt |-> None]

\* definedFields: only the keys of the body are written.
definedFields(row, q) ==
  [row EXCEPT !.parent = IF q.parent = None THEN @ ELSE q.parent,
              !.key    = IF q.key = None THEN @ ELSE q.key,
              !.active = IF q.active = None THEN @ ELSE q.active,
              !.rev    = IF q.rev = None THEN @ ELSE q.rev]

\* softDelete and the two cascades; a table and a customer have no flag to clear.
tombstone(i, at) ==
  [rows[i] EXCEPT !.deletedAt = at,
                  !.active = IF kindOf(i) \in {"branch", "category", "product"} THEN FALSE ELSE @]

\* A restored branch or product is active again; a category stays hidden.
restored(row, kind) ==
  [row EXCEPT !.deletedAt = None, !.active = IF kind \in {"branch", "product"} THEN TRUE ELSE @]

auditEntry(q, answer) == IF answer = "ok" /\ q.op = "delete" THEN {q.id} ELSE {}
-----------------------------------------------------------------------------
CatalogInit ==
  /\ rows = SeedRows
  /\ orders = {} /\ status = "ACTIVE" /\ clock = 0
  /\ req = [r \in Requests |-> Idle] /\ started = 0
  /\ audit = {} /\ unaudited = {} /\ auditLost = FALSE
  /\ overlapped = FALSE /\ blind = FALSE /\ rebranched = FALSE /\ rawErrors = {}

busy(r) == req[r].pc \in {"guard", "validate", "recheck", "batch", "write"}
historyUnchanged == UNCHANGED <<overlapped, blind, rebranched, rawErrors>>
auditUnchanged == UNCHANGED <<audit, unaudited, auditLost>>

\* A request with body q arrives in slot r. An answer that nobody here waits for
\* leaves no trace.
guarded(q) == q.op = "create" /\ q.kind \in {"branch", "product"}
Start(r, q, awaited) ==
  /\ req[r].pc = "idle" /\ started < MaxRequests /\ wellFormed(q)
  /\ q.op = "create" => ~rows[q.id].exists /\ \A s \in Requests : busy(s) => req[s].q.id # q.id
  /\ q.op # "create" => rows[q.id].exists
  /\ req' = [req EXCEPT ![r] = [pc |-> IF guarded(q) THEN "guard" ELSE "validate", q |-> q,
                                    at |-> 0, batch |-> {}, answer |-> None, awaited |-> awaited]]
  /\ started' = started + 1
  /\ overlapped' = (overlapped \/ \E s \in Requests : busy(s))
  /\ UNCHANGED <<rows, orders, status, clock, blind, rebranched, rawErrors>> /\ auditUnchanged

at(r, pc) == req[r].pc = pc
goes(r, pc) == req' = [req EXCEPT ![r].pc = pc]
replies(r, a) ==
  req' = [req EXCEPT ![r] = IF @.awaited THEN [@ EXCEPT !.pc = "answered", !.answer = a] ELSE Idle]
answers(r, a) ==
  /\ replies(r, a)
  /\ unaudited' = unaudited \cup auditEntry(req[r].q, a)
  /\ UNCHANGED <<audit, auditLost>>

\* SubscriptionGuard.canActivate; what a guard refuses reaches no interceptor.
Guard(r) ==
  /\ at(r, "guard")
  /\ IF canActivate(req[r].q) THEN goes(r, "validate")
     ELSE replies(r, "403")
  /\ UNCHANGED <<rows, orders, status, clock, started>> /\ auditUnchanged /\ historyUnchanged

afterValidate(q) ==
  CASE q.op = "create" -> "write"
    [] q.op = "delete" /\ childKind(q.kind) # None -> "batch"
    [] OTHER -> "recheck"

\* The service method reads and decides; a delete takes its `now` here.
Validate(r) ==
  /\ at(r, "validate")
  /\ LET v == verdict(req[r].q) IN
       IF v = "go"
       THEN /\ req' = [req EXCEPT ![r].pc = afterValidate(req[r].q), ![r].at = clock]
            /\ auditUnchanged
       ELSE answers(r, v)
  /\ UNCHANGED <<rows, orders, status, clock, started>> /\ historyUnchanged

\* BaseTenantRepository.update, softDelete and restore look the row up again.
Recheck(r) ==
  LET q == req[r].q IN
  /\ at(r, "recheck")
  /\ CASE q.op = "update" /\ ~live(q.id) -> answers(r, "500")
       [] q.op = "delete" /\ ~live(q.id) -> answers(r, "ok")
       [] q.op = "restore" /\ live(q.id) -> answers(r, "ok")
       [] OTHER -> goes(r, "write") /\ auditUnchanged
  /\ UNCHANGED <<rows, orders, status, clock, started>> /\ historyUnchanged

NoBatch(r) ==
  /\ at(r, "batch")
  /\ goes(r, "write")
  /\ UNCHANGED <<rows, orders, status, clock, started>> /\ auditUnchanged /\ historyUnchanged

\* The cascade's transaction reads the children that are not deleted.
Batch(r) ==
  /\ at(r, "batch")
  /\ req' = [req EXCEPT ![r].pc = "write", ![r].batch = childrenOf(req[r].q.id)]
  /\ UNCHANGED <<rows, orders, status, clock, started>> /\ auditUnchanged /\ historyUnchanged

written(q, now) ==
  CASE q.op = "create" -> createdRow(q)
    [] q.op = "update" -> definedFields(rows[q.id], q)
    [] q.op = "delete" -> tombstone(q.id, now)
    [] q.op = "restore" -> restored(rows[q.id], q.kind)

\* softDelete stamps the time of the write, a cascade the time it read first.
Write(r) ==
  LET q == req[r].q
      now == IF childKind(q.kind) = None THEN clock ELSE req[r].at
      new == written(q, now)
  IN
  /\ at(r, "write")
  /\ IF refuses(q, new)
     THEN /\ answers(r, "500")
          /\ rawErrors' = rawErrors \cup {[op |-> q.op, kind |-> q.kind]}
          /\ UNCHANGED <<rows, blind, rebranched>>
     ELSE /\ answers(r, "ok")
          /\ rows' = [i \in Ids |-> IF i = q.id THEN new
                                    ELSE IF i \in req[r].batch THEN tombstone(i, now) ELSE rows[i]]
          /\ blind' = (blind \/ (q.op = "create" /\ q.kind = "product" /\ ~live(q.parent)))
          /\ rebranched' = (rebranched \/ (q.op = "restore" /\ q.kind = "branch"))
          /\ UNCHANGED rawErrors
  /\ UNCHANGED <<orders, status, clock, started, overlapped>>

\* The caller has the answer, or stops waiting for it.
Finish(r) ==
  /\ at(r, "answered")
  /\ req' = [req EXCEPT ![r] = Idle]
  /\ UNCHANGED <<rows, orders, status, clock, started>> /\ auditUnchanged /\ historyUnchanged

Abandon(r) ==
  /\ req[r].pc # "idle"
  /\ req' = [req EXCEPT ![r] = IF at(r, "answered") THEN Idle ELSE [@ EXCEPT !.awaited = FALSE]]
  /\ UNCHANGED <<rows, orders, status, clock, started>> /\ auditUnchanged /\ historyUnchanged

\* AuditService.log: an insert that fails is logged and forgotten.
LogAudit(e) ==
  /\ e \in unaudited
  /\ unaudited' = unaudited \ {e}
  /\ \/ audit' = audit \cup {e} /\ UNCHANGED auditLost
     \/ auditLost' = TRUE /\ UNCHANGED audit
  /\ UNCHANGED <<rows, orders, status, clock, req, started>> /\ historyUnchanged
-----------------------------------------------------------------------------
(* Guests, billing and time. *)

\* resolveTableByToken and assertGuestOrderingAllowed.
tableResolves(t) ==
  live(t) /\ live(rows[t].parent) /\ rows[t].parent \in Branches /\ rows[rows[t].parent].active
guestOrderingAllowed == status \notin {"UNPAID", "CANCELED"}

\* getPublicMenu: what a guest at table t is shown.
publicMenu(t) ==
  IF ~tableResolves(t) \/ ~guestOrderingAllowed THEN {}
  ELSE {p \in liveIn(Products) : /\ rows[p].active
                                 /\ live(rows[p].parent) /\ rows[rows[p].parent].active}

\* createGuestOrder and createOrder (see Checkout): what is looked up.
orderable(p, t) == live(t) /\ live(rows[t].parent) /\ live(p) /\ rows[p].active

\* An order at a table, or at a branch without one.
PlaceOrder(o) ==
  /\ o \in Branches \cup Tables /\ o \notin orders /\ live(o)
  /\ o \in Tables => live(rows[o].parent)
  /\ orders' = orders \cup {o}
  /\ overlapped' = (overlapped \/ \E s \in Requests : busy(s))
  /\ UNCHANGED <<rows, status, clock, req, started, blind, rebranched, rawErrors>> /\ auditUnchanged

EndOrder(o) ==
  /\ o \in orders /\ orders' = orders \ {o}
  /\ UNCHANGED <<rows, status, clock, req, started>> /\ auditUnchanged /\ historyUnchanged

BillingChanges ==
  /\ status' \in {"ACTIVE", "UNPAID"} /\ status' # status
  /\ UNCHANGED <<rows, orders, clock, req, started>> /\ auditUnchanged /\ historyUnchanged

Tick ==
  /\ clock < MaxTime /\ clock' = clock + 1
  /\ UNCHANGED <<rows, orders, status, req, started>> /\ auditUnchanged /\ historyUnchanged

Progress == \E r \in Requests : Guard(r) \/ Validate(r) \/ Recheck(r) \/ Batch(r) \/ Write(r)
Auditing == \E e \in unaudited : LogAudit(e)
Guests == \E o \in Branches \cup Tables : PlaceOrder(o) \/ EndOrder(o)

CatalogNext ==
  \/ \E r \in Requests, q \in Payload, awaited \in BOOLEAN : Start(r, q, awaited)
  \/ Progress
  \/ \E r \in Requests : Finish(r) \/ Abandon(r)
  \/ Auditing \/ Guests \/ BillingChanges \/ Tick

CatalogSpec == CatalogInit /\ [][CatalogNext]_catalogVars
-----------------------------------------------------------------------------
CatalogTypeOK ==
  /\ rows \in [Ids -> Row]
  /\ \A i \in Ids : rows[i].parent \in {None} \cup parentsOf(kindOf(i))
  /\ orders \subseteq Branches \cup Tables
  /\ status \in {"ACTIVE", "UNPAID"} /\ clock \in 0 .. MaxTime /\ started \in 0 .. MaxRequests
  /\ \A r \in Requests : req[r] = Idle \/ (req[r].q \in Payload /\ req[r].answer \in Answers)
  /\ audit \cup unaudited \subseteq Ids
  /\ {overlapped, blind, rebranched, auditLost} \subseteq BOOLEAN

\* "a category can never end up deleted while its products stay live", and a
\* table never outlives its branch: restoreTable, restoreProduct, createTable and
\* the two cascades keep it while requests do not overlap. (createProduct does
\* not look at its category; `blind` marks that.)
ChildrenOfTheLiving ==
  ~overlapped /\ ~blind =>
    \A i \in liveIn(Tables \cup Products) : live(rows[i].parent)

\* "Checks branch limit against plan's maxBranches": the guard counts and the
\* handler creates; only overlapping creations or a restored branch exceed it.
WithinBranchLimit == ~overlapped /\ ~rebranched => Cardinality(liveIn(Branches)) <= MaxBranches

\* The checks before a write are there so that a clash is a 409 and never "a raw
\* 500": an index or a foreign key refuses a write only after an overlap. (createTable
\* has no check of its number, createProduct none of its category.)
ClashesAreAnswered ==
  ~overlapped => \A e \in rawErrors : e.op = "create" /\ e.kind \in {"table", "product"}

\* "A location with work in flight must not disappear from the floor plan": an
\* order in progress names a live table and branch unless steps overlapped.
OrdersKeepTheirPlace ==
  ~overlapped => \A o \in orders : live(o) /\ (o \in Tables => live(rows[o].parent))

\* "a duplicate/retried request cannot rewrite deletion history": until requests
\* overlap, a tombstone is only ever cleared, never moved.
TombstonesStay ==
  [][~overlapped' => \A i \in Ids :
       rows[i].deletedAt # None => rows'[i].deletedAt \in {None, rows[i].deletedAt}]_rows

\* What getPublicMenu shows a guest, createOrder accepts.
MenuIsOrderable == \A t \in Tables : \A p \in publicMenu(t) : orderable(p, t)

\* The interceptor notes what handlers did: unless an insert failed or is still
\* to come, every deleted row has the record of its own deletion or its parent's.
\* (A product that moves while its category's cascade decides is the exception.)
DeletionsAreAudited ==
  ~auditLost /\ unaudited = {} /\ ~overlapped =>
    \A i \in Ids : rows[i].exists /\ rows[i].deletedAt # None =>
      {i, rows[i].parent} \cap audit # {}

\* What the services promise of the administered rows: no living child of a deleted row,
\* plan limits, clashes answered by 409, orders at living tables, a menu that can be
\* ordered from, audited deletions; each with the exceptions its part names.
CatalogInv ==
  /\ CatalogTypeOK
  /\ ChildrenOfTheLiving
  /\ WithinBranchLimit
  /\ ClashesAreAnswered
  /\ OrdersKeepTheirPlace
  /\ MenuIsOrderable
  /\ DeletionsAreAudited
=============================================================================
