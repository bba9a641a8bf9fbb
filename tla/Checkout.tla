------------------------------ MODULE Checkout ------------------------------
(***************************************************************************)
(* The checkout pipeline: createGuestOrder and createOrder of              *)
(* apps/api/src/order/order.service.ts, one step per await on state that   *)
(* something else may change, run concurrently by Requests, beside         *)
(* deleteTable of the branch service and the staff's changes to the menu,  *)
(* the discount and the tenant.  The transaction runs at PostgreSQL's      *)
(* default READ COMMITTED: reads see committed rows, an UPDATE locks its   *)
(* row until the transaction ends.                                         *)
(***************************************************************************)
EXTENDS Pricing, Sequences, FiniteSets

CONSTANTS
  Requests,    \* checkouts, each submitted at most once
  Dtos,        \* the request bodies clients may send
  Tables,      \* tables of the tenant
  BranchOf,    \* table -> branch
  Code,        \* the code of the tenant's discount
  Stock        \* variant -> stockQuantity, which no code changes

VARIABLES
  unavailable, \* products and addon items that are not isAvailable
  tables,      \* tables that are not soft-deleted
  tenant,      \* tenant.status
  active,      \* the discount is active and within its dates
  usageCount,  \* discounts.usageCount, committed
  lock,        \* the transaction that holds the discount row, or None
  orders,      \* request -> its committed order, or None
  tickets,     \* requests whose kitchen_queues row is committed
  open,        \* orders that are neither COMPLETED nor CANCELLED
  announced,   \* <<request, event>> pairs broadcast to the kitchen
  pc,          \* where each checkout is
  dto,         \* request -> its body, with the table bound by the QR token
  priced,      \* request -> number of items priced
  subtotal,    \* request -> cents so far
  discount,    \* request -> discountAmount resolved in the transaction
  deleting,    \* table -> "no", or "counted": deleteTable found no open order
  overlapped   \* a checkout or deletion has started beside another (history)

kitchen == <<orders, tickets, open, announced>>
menu    == <<unavailable, tenant, active>>
locals  == <<dto, priced, subtotal, discount>>
vars    == <<unavailable, tables, tenant, active, usageCount, lock, orders, tickets, open,
             announced, pc, dto, priced, subtotal, discount, deleting, overlapped>>

Running == {"tenant", "table", "items", "lookup", "increment", "commit", "broadcast"}
InTransaction == {"lookup", "increment", "commit"}

InFlight == {r \in Requests : pc[r] \in Running}
Idle == InFlight = {} /\ \A t \in Tables : deleting[t] = "no"

BoundDtos == {[d EXCEPT !.table = t] : d \in Dtos, t \in Tables}

Order ==
  [branch : {d.branch : d \in Dtos}, table : {d.table : d \in Dtos} \cup Tables,
   items : {d.items : d \in Dtos}, subtotal : Int, tax : Int, discount : Int, total : Int,
   discounted : BOOLEAN]

\* A row of the discounts table, and a percentage that onboarding validated.
ASSUME RateAssumption ==
  Discount.value \in Int /\ Discount.usageLimit \in Nat \cup {None} /\ TaxPercent \in Nat
\* The rows a line of a cart names have prices, its modifiers are a list.
Priced(item) ==
  /\ unitPrice(item) \in Int /\ item.quantity \in Int
  /\ Len(item.addons) \in Nat /\ DOMAIN item.addons = 1 .. Len(item.addons)
  /\ \A j \in DOMAIN item.addons : AddonPrice[item.addons[j]] \in Int

\* A request body has these fields and a list of at least one item
\* (ArrayNotEmpty), each of them priced.
ASSUME DtoAssumption ==
  \A d \in Dtos :
    /\ d = [token |-> d.token, branch |-> d.branch, table |-> d.table, items |-> d.items,
            code |-> d.code]
    /\ Len(d.items) \in Nat \ {0} /\ DOMAIN d.items = 1 .. Len(d.items)
    /\ \A i \in DOMAIN d.items : Priced(d.items[i])
ASSUME NoneAssumption ==
  None \notin Requests \cup Tables /\ None \notin Order /\ None \notin Dtos \cup BoundDtos

TypeOK ==
  /\ tables \subseteq Tables
  /\ tenant \in {"ACTIVE", "UNPAID"}
  /\ active \in BOOLEAN
  /\ usageCount \in Nat
  /\ lock \in Requests \cup {None}
  /\ orders \in [Requests -> Order \cup {None}]
  /\ tickets \subseteq Requests /\ open \subseteq Requests
  /\ announced \subseteq Requests \X {"ticket.created", "order.created"}
  /\ pc \in [Requests -> Running \cup {"new", "rejected", "failed", "done"}]
  /\ dto \in [Requests -> Dtos \cup BoundDtos \cup {None}]
  /\ priced \in [Requests -> Nat]
  /\ subtotal \in [Requests -> Int] /\ discount \in [Requests -> Int]
  /\ deleting \in [Tables -> {"no", "counted"}]
  /\ overlapped \in BOOLEAN

Init ==
  /\ unavailable = {} /\ tables = Tables /\ tenant = "ACTIVE" /\ active = TRUE
  /\ usageCount = 0 /\ lock = None
  /\ orders = [r \in Requests |-> None]
  /\ tickets = {} /\ open = {} /\ announced = {}
  /\ pc = [r \in Requests |-> "new"]
  /\ dto = [r \in Requests |-> None]
  /\ priced = [r \in Requests |-> 0]
  /\ subtotal = [r \in Requests |-> 0]
  /\ discount = [r \in Requests |-> 0]
  /\ deleting = [t \in Tables |-> "no"]
  /\ overlapped = FALSE

NoteOverlap == overlapped' = (overlapped \/ ~Idle)
Start(r) == pc[r] = "new" /\ NoteOverlap
Goto(r, point) == pc' = [pc EXCEPT ![r] = point]
GotoIf(r, ok, point) == Goto(r, IF ok THEN point ELSE "rejected")

-----------------------------------------------------------------------------
\* The token resolves to a live table, and an explicit branch or table in the
\* body agrees with it.
QrTokenAccepted(d) ==
  /\ d.token \in tables
  /\ d.branch = BranchOf[d.token]
  /\ d.table # None => d.table = d.token

\* createGuestOrder: resolve the QR token, then bind the order to its table.
CreateGuestOrder(r, d) ==
  /\ Start(r)
  /\ d.token # None
  /\ GotoIf(r, QrTokenAccepted(d), "tenant")
  /\ dto' = [dto EXCEPT ![r] = IF QrTokenAccepted(d) THEN [d EXCEPT !.table = d.token] ELSE d]
  /\ UNCHANGED <<menu, kitchen, tables, usageCount, lock, priced, subtotal, discount, deleting>>

\* createGuestOrder: an unpaid tenant's guests cannot order.
CheckTenantStatus(r) ==
  /\ pc[r] = "tenant"
  /\ GotoIf(r, tenant # "UNPAID", "table")
  /\ UNCHANGED <<menu, kitchen, locals, tables, usageCount, lock, deleting, overlapped>>

\* createOrder on the staff channel: branch and restaurant are always found.
CreateOrder(r, d) ==
  /\ Start(r)
  /\ d.token = None
  /\ Goto(r, IF d.table = None THEN "items" ELSE "table")
  /\ dto' = [dto EXCEPT ![r] = d]
  /\ UNCHANGED <<menu, kitchen, tables, usageCount, lock, priced, subtotal, discount, deleting>>

\* createOrder step 1b: the table is live and belongs to the branch.
ValidateTable(r) ==
  /\ pc[r] = "table"
  /\ GotoIf(r, dto[r].table \in tables /\ BranchOf[dto[r].table] = dto[r].branch, "items")
  /\ UNCHANGED <<menu, kitchen, locals, tables, usageCount, lock, deleting, overlapped>>

\* createOrder step 2: one pass of the item loop, priced from database rows.
\* Stock is compared with zero, not with the quantity, and is never reduced.
PriceItem(r) ==
  LET item == dto[r].items[priced[r] + 1]
      last == priced[r] + 1 = Len(dto[r].items)
      ok   == /\ item.product \notin unavailable
              /\ item.variant # None => Stock[item.variant] > 0
              /\ \A i \in DOMAIN item.addons : item.addons[i] \notin unavailable
  IN /\ pc[r] = "items"
     /\ GotoIf(r, ok, IF last THEN "lookup" ELSE "items")
     /\ priced' = [priced EXCEPT ![r] = @ + 1]
     /\ subtotal' = [subtotal EXCEPT ![r] = IF ok THEN @ + totalLinePrice(item) ELSE @]
     /\ UNCHANGED <<menu, kitchen, tables, usageCount, lock, dto, discount, deleting, overlapped>>

\* createOrder step 4: the transaction looks the discount up and validates it;
\* an unknown or refused code aborts the checkout.
LookUpDiscount(r) ==
  LET code == dto[r].code
      ok   == code = Code /\ validateDiscount(active, usageCount, subtotal[r])
  IN /\ pc[r] = "lookup"
     /\ IF code = None THEN Goto(r, "commit") ELSE GotoIf(r, ok, "increment")
     /\ discount' = [discount EXCEPT ![r] =
                       IF code # None /\ ok THEN computeDiscountAmount(subtotal[r]) ELSE 0]
     /\ UNCHANGED <<menu, kitchen, tables, usageCount, lock, dto, priced, subtotal, deleting, overlapped>>

\* Mutant: the count is incremented outside the transaction.
IncrementOutsideTransaction(r) ==
  /\ pc[r] = "increment"
  /\ usageCount' = usageCount + 1
  /\ Goto(r, "commit")
  /\ UNCHANGED <<menu, kitchen, locals, tables, lock, deleting, overlapped>>

\* usageCount: { increment: 1 } takes the row lock; the new count is visible
\* to others when the transaction commits.
IncrementUsage(r) ==
  /\ pc[r] = "increment"
  /\ lock = None
  /\ lock' = r
  /\ Goto(r, "commit")
  /\ UNCHANGED <<menu, kitchen, locals, tables, usageCount, deleting, overlapped>>

NewOrder(r) ==
  LET tax == taxAmount(subtotal[r])
  IN [branch |-> dto[r].branch, table |-> dto[r].table, items |-> dto[r].items,
      subtotal |-> subtotal[r], tax |-> tax, discount |-> discount[r],
      total |-> subtotal[r] + tax - discount[r], discounted |-> dto[r].code # None]

\* The order, its items, its kitchen ticket and the count commit together.
Commit(r) ==
  /\ pc[r] = "commit"
  /\ orders' = [orders EXCEPT ![r] = NewOrder(r)]
  /\ tickets' = tickets \cup {r}
  /\ open' = open \cup {r}
  /\ usageCount' = IF lock = r THEN usageCount + 1 ELSE usageCount
  /\ lock' = IF lock = r THEN None ELSE lock
  /\ Goto(r, "broadcast")
  /\ UNCHANGED <<menu, locals, tables, announced, deleting, overlapped>>

\* Mutant: an aborted transaction keeps the discount row locked.
RollbackKeepingLock(r) ==
  /\ pc[r] \in InTransaction
  /\ Goto(r, "failed")
  /\ UNCHANGED <<menu, kitchen, locals, tables, usageCount, lock, deleting, overlapped>>

\* A statement of the transaction fails, it times out, or the API crashes
\* while it is open: the database rolls it back and releases the row.
Rollback(r) ==
  /\ pc[r] \in InTransaction
  /\ lock' = IF lock = r THEN None ELSE lock
  /\ Goto(r, "failed")
  /\ UNCHANGED <<menu, kitchen, locals, tables, usageCount, deleting, overlapped>>

\* ticket.created is best effort (its read may fail); order.created follows.
Broadcast(r) ==
  /\ pc[r] = "broadcast"
  /\ \E ticketRead \in BOOLEAN :
       announced' = announced \cup {<<r, "order.created">>}
                      \cup (IF ticketRead THEN {<<r, "ticket.created">>} ELSE {})
  /\ Goto(r, "done")
  /\ UNCHANGED <<menu, locals, orders, tickets, open, tables, usageCount, lock, deleting, overlapped>>

-----------------------------------------------------------------------------
\* Mutant: deleteTable does not ask whether orders are in progress.
CountNoOrders(t) ==
  /\ t \in tables /\ deleting[t] = "no" /\ NoteOverlap
  /\ deleting' = [deleting EXCEPT ![t] = "counted"]
  /\ UNCHANGED <<menu, kitchen, locals, tables, usageCount, lock, pc>>

OpenOrdersAt(t) == {r \in open : orders[r].table = t}

\* deleteTable, first half: the count of open orders must be zero.
CountActiveOrders(t) ==
  /\ t \in tables /\ deleting[t] = "no" /\ NoteOverlap
  /\ OpenOrdersAt(t) = {}
  /\ deleting' = [deleting EXCEPT ![t] = "counted"]
  /\ UNCHANGED <<menu, kitchen, locals, tables, usageCount, lock, pc>>

\* deleteTable, second half: softDelete by id.
DeleteTable(t) ==
  /\ deleting[t] = "counted"
  /\ tables' = tables \ {t}
  /\ deleting' = [deleting EXCEPT ![t] = "no"]
  /\ UNCHANGED <<menu, kitchen, locals, usageCount, lock, pc, overlapped>>

\* Staff and billing change the rows a checkout reads; OrderLifecycle ends orders.
MarkUnavailable(x) ==
  /\ unavailable' = unavailable \cup {x}
  /\ UNCHANGED <<tables, tenant, active, usageCount, lock, kitchen, pc, locals, deleting, overlapped>>

DeactivateDiscount ==
  /\ active' = FALSE
  /\ UNCHANGED <<unavailable, tables, tenant, usageCount, lock, kitchen, pc, locals, deleting, overlapped>>

TenantBecomesUnpaid ==
  /\ tenant' = "UNPAID"
  /\ UNCHANGED <<unavailable, tables, active, usageCount, lock, kitchen, pc, locals, deleting, overlapped>>

OrderEnds(r) ==
  /\ r \in open
  /\ open' = open \ {r}
  /\ UNCHANGED <<menu, tables, usageCount, lock, orders, tickets, announced, pc, locals, deleting, overlapped>>

CheckoutStep(r) ==
  \/ CheckTenantStatus(r) \/ ValidateTable(r) \/ PriceItem(r)
  \/ LookUpDiscount(r) \/ IncrementUsage(r) \/ Commit(r) \/ Broadcast(r)

Next ==
  \/ \E r \in Requests :
       \/ \E d \in Dtos : CreateGuestOrder(r, d) \/ CreateOrder(r, d)
       \/ CheckoutStep(r)
       \/ Rollback(r)
       \/ OrderEnds(r)
  \/ \E t \in Tables : CountActiveOrders(t) \/ DeleteTable(t)
  \/ \E x \in DOMAIN BasePrice \cup DOMAIN AddonPrice : MarkUnavailable(x)
  \/ DeactivateDiscount
  \/ TenantBecomesUnpaid

Spec == Init /\ [][Next]_vars

\* A settled await resumes its handler, and a free row lock is granted.
Fairness == \A r \in Requests : WF_vars(CheckoutStep(r))

FairSpec == Spec /\ Fairness

-----------------------------------------------------------------------------
Discounted == {r \in Requests : orders[r] # None /\ orders[r].discounted}

\* createOrder: "a successful usage increment is atomic with the order
\* creation": the committed count is the number of discounted orders, however
\* transactions overlap and whichever of them roll back.
UsageCountsOrders == usageCount = Cardinality(Discounted)

\* The price of a cart as DOC-005 4.3 defines it, all lines at once.
ReferenceSubtotal(items) ==
  Sum([i \in DOMAIN items |->
        LET x == items[i]
            unit == IF x.variant # None THEN VariantPrice[x.variant]
                    ELSE BasePrice[x.product] + (IF x.size # None THEN SizeAdjust[x.size] ELSE 0)
        IN x.quantity * (unit + Sum([j \in DOMAIN x.addons |-> AddonPrice[x.addons[j]]]))])

\* createOrder: an order is charged for every line of its cart, priced by the
\* database, once each and with every modifier.
PricesMatchReference ==
  \A r \in Requests : orders[r] # None => orders[r].subtotal = ReferenceSubtotal(orders[r].items)

\* createOrder and the discount engine: the stored total is what its parts add
\* up to, "a discount can never exceed the subtotal", whatever became of the
\* discount meanwhile, and the total is never negative (a negative subtotal
\* needs a size with a negative adjustment, which nothing forbids).
ChargesAreSound ==
  \A r \in Requests : orders[r] # None =>
    LET o == orders[r]
    IN /\ o.total = o.subtotal + o.tax - o.discount
       /\ 0 <= o.discount
       /\ 0 <= o.subtotal => o.discount <= o.subtotal /\ 0 <= o.total
       /\ o.subtotal < 0 => o.discount = 0

\* createGuestOrder and step 1b of createOrder: an order with a table is at
\* that table's branch, and a guest's order is at the table that was scanned.
OrdersAreAtTheirTable ==
  \A r \in Requests : orders[r] # None =>
    /\ orders[r].table # None => BranchOf[orders[r].table] = orders[r].branch
    /\ dto[r].token # None => orders[r].table = dto[r].token

\* createOrder: the kitchen never hears of an order that was rolled back, and
\* an order it hears of has its ticket in the queue.
KitchenHearsOfRealOrders ==
  \A e \in announced : orders[e[1]] # None /\ e[1] \in tickets

\* Every checkout ends, the ones waiting for the discount row included.
CheckoutsFinish ==
  \A r \in Requests : (r \in InFlight) ~> (pc[r] \in {"done", "rejected", "failed"})

\* validateDiscount and the comment in createOrder, "no race on usageCount":
\* a discount is used at most usageLimit times.
WithinUsageLimit == Discount.usageLimit # None => usageCount <= Discount.usageLimit

\* validateDiscount: the limit is exceeded only if checkouts overlapped; one
\* after another they keep it, whatever else happens between their steps.
OveruseNeedsOverlap == ~overlapped => WithinUsageLimit

\* deleteTable: "This table cannot be deleted while it has order(s) in
\* progress": unless a deletion and a checkout overlapped, an open order's
\* table is in service.
NoOpenOrderOnDeletedTable ==
  ~overlapped => \A r \in open : orders[r].table # None => orders[r].table \in tables

\* What a checkout promises of the orders it leaves behind (createOrder): charges,
\* table and branch, announcements, the limit of the discount, live tables.
CheckoutInv ==
  /\ TypeOK
  /\ ChargesAreSound
  /\ OrdersAreAtTheirTable
  /\ KitchenHearsOfRealOrders
  /\ OveruseNeedsOverlap
  /\ NoOpenOrderOnDeletedTable
=============================================================================
