---------------------------- MODULE CatalogProofs ----------------------------
(***************************************************************************)
(* Theorems about Catalog and about Backoffice on top of it, for any rows, *)
(* requests and bounds.  The catalogue's inductive invariant says what a   *)
(* request may rely on between its reads and its write: nothing while      *)
(* requests overlap, and what it has read until they do.  The screens'     *)
(* says which form and which dialog every request in hand belongs to.      *)
(***************************************************************************)
EXTENDS Backoffice, FiniteSetTheorems, TLAPS

\* What a request in hand carries.
InHand ==
  [pc : {"guard", "validate", "recheck", "batch", "write", "answered"},
   q : {q \in Payload : wellFormed(q)}, at : 0 .. MaxTime, batch : SUBSET Ids,
   answer : Answers, awaited : BOOLEAN]

\* Rows of tables and products name their branch or category, and the partial
\* unique indexes hold of the live rows.
ForeignKeys ==
  \A i \in Ids : rows[i].exists /\ rows[i].parent # None => rows[rows[i].parent].exists
RowsInv ==
  /\ ForeignKeys
  /\ \A i \in Ids : rows[i].exists => rows[i].parent \in parentsOf(kindOf(i))
  /\ \A k \in {"table", "customer"} : \A i, j \in idsOf(k) :
       live(i) /\ live(j) /\ rows[i].parent = rows[j].parent /\ rows[i].key = rows[j].key
       => i = j

\* Where a request is agrees with what it is about, and two creations never
\* use the same id: whoever runs beside it.
StepInv(r) ==
  /\ at(r, "guard") => guarded(req[r].q)
  /\ at(r, "recheck") =>
       req[r].q.op # "create" /\ (req[r].q.op = "delete" => childKind(req[r].q.kind) = None)
  /\ at(r, "batch") => req[r].q.op = "delete"
  /\ busy(r) /\ ~at(r, "write") => req[r].batch = {}
  /\ busy(r) => (rows[req[r].q.id].exists <=> req[r].q.op # "create")
FreshInv ==
  \A r, s \in Requests :
    busy(r) /\ busy(s) /\ r # s /\ req[r].q.op = "create" => req[s].q.id # req[r].q.id

\* What a service method that went on has found.
Decided(q) ==
  /\ q.op \in {"update", "delete"} => live(q.id)
  /\ q.op = "create" /\ q.kind = "table" => live(q.parent)
  /\ q.op = "create" /\ q.kind = "customer" => holders("customer", None, q.key) = {}
  /\ q.op = "update" /\ q.parent # None => live(q.parent)
  /\ q.op = "update" /\ q.key # None /\ q.key # rows[q.id].key =>
       holders("customer", None, q.key) \ {q.id} = {}
  /\ q.op = "delete" /\ q.kind \in {"branch", "table"} => activeOrdersAt(q.id) = {}
  /\ q.op = "restore" /\ q.kind \in {"table", "product"} => live(rows[q.id].parent)
  /\ q.op = "restore" /\ q.kind \in {"table", "customer"} =>
       holders(q.kind, rows[q.id].parent, rows[q.id].key) \ {q.id} = {}

\* What a request that runs alone has read still holds.
ReadsHold(r) ==
  LET q == req[r].q IN
  /\ busy(r) /\ ~at(r, "guard") /\ guarded(q) /\ q.kind = "branch" => checkBranchLimit
  /\ at(r, "recheck") \/ at(r, "batch") \/ at(r, "write") => Decided(q)
  /\ at(r, "write") => req[r].batch = IF q.op = "delete" THEN childrenOf(q.id) ELSE {}

\* Until an overlap there is one request at a time.
LoneInv ==
  ~overlapped =>
    /\ \A r, s \in Requests : busy(r) /\ busy(s) => r = s
    /\ \A r \in Requests : ReadsHold(r)

\* Until an overlap, what is deleted is recorded, or the record is about to be inserted.
AuditInv ==
  ~auditLost /\ ~overlapped =>
    \A i \in Ids : rows[i].exists /\ rows[i].deletedAt # None =>
      {i, rows[i].parent} \cap (audit \cup unaudited) # {}

\* The inductive invariant.
CatalogIInv ==
  /\ CatalogTypeOK
  /\ req \in [Requests -> {Idle} \cup InHand]
  /\ RowsInv
  /\ \A r \in Requests : StepInv(r)
  /\ FreshInv
  /\ LoneInv
  /\ ChildrenOfTheLiving
  /\ WithinBranchLimit
  /\ ClashesAreAnswered
  /\ OrdersKeepTheirPlace
  /\ AuditInv

-----------------------------------------------------------------------------
\* The kinds and their ids.
LEMMA KindTable ==
  /\ idsOf("branch") = Branches /\ idsOf("table") = Tables /\ idsOf("category") = Categories
  /\ idsOf("product") = Products /\ idsOf("customer") = Customers
  /\ parentKind("table") = "branch" /\ parentKind("product") = "category"
  /\ \A k \in Kinds \ {"table", "product"} : parentKind(k) = None
  /\ childKind("branch") = "table" /\ childKind("category") = "product"
  /\ \A k \in Kinds \ {"branch", "category"} : childKind(k) = None
BY DEF idsOf, parentKind, childKind, Kinds

\* The kind of an id is the one whose ids it is among.
LEMMA KindOfIds ==
  /\ \A k \in Kinds : \A i \in idsOf(k) : i \in Ids /\ kindOf(i) = k
  /\ \A i \in Ids : kindOf(i) \in Kinds /\ i \in idsOf(kindOf(i))
<1>1. \A k \in Kinds : idsOf(k) \subseteq Ids
  BY KindTable DEF Kinds, Ids
<1>2. ASSUME NEW i \in Ids PROVE \E k \in Kinds : i \in idsOf(k)
  BY KindTable DEF Kinds, Ids
<1>3. ASSUME NEW i \in Ids PROVE kindOf(i) \in Kinds /\ i \in idsOf(kindOf(i))
  BY <1>2 DEF kindOf
<1>4. ASSUME NEW k \in Kinds, NEW i \in idsOf(k) PROVE kindOf(i) = k
  BY <1>1, <1>3, CatalogAssumption
<1> QED BY <1>1, <1>3, <1>4

\* What ids are apart, and what a row of each kind is below.
LEMMA KindFacts ==
  /\ Branches \cap Tables = {} /\ Branches \cap Categories = {} /\ Branches \cap Products = {}
  /\ Branches \cap Customers = {} /\ Tables \cap Categories = {} /\ Tables \cap Products = {}
  /\ Tables \cap Customers = {} /\ Categories \cap Products = {} /\ Categories \cap Customers = {}
  /\ Products \cap Customers = {}
  /\ \A i \in Branches : kindOf(i) = "branch"
  /\ \A i \in Tables : kindOf(i) = "table"
  /\ \A i \in Categories : kindOf(i) = "category"
  /\ \A i \in Products : kindOf(i) = "product"
  /\ \A i \in Customers : kindOf(i) = "customer"
  /\ parentsOf("table") = Branches /\ parentsOf("product") = Categories
  /\ parentsOf("branch") = {None} /\ parentsOf("category") = {None} /\ parentsOf("customer") = {None}
<1>1. {"branch", "table", "category", "product", "customer"} = Kinds
  BY DEF Kinds
<1>2. \A k, l \in Kinds : k # l => idsOf(k) \cap idsOf(l) = {}
  BY CatalogAssumption
<1>3. None \notin Kinds
  BY CatalogAssumption
<1>4. parentsOf("table") = Branches /\ parentsOf("product") = Categories
  BY <1>1, <1>3, KindTable DEF parentsOf
<1>5. parentsOf("branch") = {None} /\ parentsOf("category") = {None} /\ parentsOf("customer") = {None}
  BY <1>1, KindTable DEF parentsOf
<1>6. \A k \in Kinds : \A i \in idsOf(k) : kindOf(i) = k
  BY KindOfIds
<1>7. /\ Branches \cap Tables = {} /\ Branches \cap Categories = {} /\ Branches \cap Products = {}
      /\ Branches \cap Customers = {} /\ Tables \cap Categories = {} /\ Tables \cap Products = {}
      /\ Tables \cap Customers = {} /\ Categories \cap Products = {} /\ Categories \cap Customers = {}
      /\ Products \cap Customers = {}
  BY <1>1, <1>2, KindTable
<1> QED BY <1>1, <1>4, <1>5, <1>6, <1>7, KindTable

\* Where parents are: above tables branches, above products categories.
LEMMA ParentIds ==
  /\ \A k \in Kinds : parentsOf(k) \subseteq Branches \cup Categories \cup {None}
  /\ \A i \in Ids : parentsOf(kindOf(i)) \subseteq Branches \cup Categories \cup {None}
BY KindFacts, KindOfIds DEF Kinds

\* A consistent database is where the system may start.
LEMMA CatalogInitIInv == CatalogInit => CatalogIInv
<1> SUFFICES ASSUME CatalogInit PROVE CatalogIInv
  OBVIOUS
<1> USE CatalogAssumption, SeedAssumption DEF CatalogInit
<1>1. \A i \in Ids : live(i) <=> SeedRows[i].exists
  BY DEF live
<1>2. \A r \in Requests : ~busy(r) /\ req[r] = Idle
  BY DEF busy, Idle
<1>3. \A i \in Ids : rows[i].parent \in {None} \cup parentsOf(kindOf(i))
  OBVIOUS
<1>4. CatalogTypeOK
  <2>1. status \in {"ACTIVE", "UNPAID"} /\ clock \in 0 .. MaxTime /\ started \in 0 .. MaxRequests
    OBVIOUS
  <2> QED BY <2>1, <1>2, <1>3 DEF CatalogTypeOK
<1>5. RowsInv
  <2>1. \A k \in {"table", "customer"} : idsOf(k) \subseteq Ids
    BY KindOfIds DEF Kinds
  <2>2. ForeignKeys
    BY <1>1, CatalogAssumption DEF ForeignKeys
  <2> QED BY <2>1, <2>2, <1>1 DEF RowsInv
<1>6. \A r \in Requests : StepInv(r) /\ ReadsHold(r)
  BY <1>2 DEF StepInv, ReadsHold, busy, at, Idle
<1>7. FreshInv /\ LoneInv
  BY <1>2, <1>6 DEF FreshInv, LoneInv
<1>8. ChildrenOfTheLiving
  <2> SUFFICES ASSUME NEW i \in Tables \cup Products, live(i) PROVE live(rows[i].parent)
    BY DEF ChildrenOfTheLiving, liveIn
  <2>1. i \in Ids /\ SeedRows[i].exists
    BY <1>1 DEF Ids
  <2>2. rows[i].parent \in Ids /\ rows[i].parent # None
    BY <2>1, KindFacts DEF Ids
  <2> QED BY <2>1, <2>2, <1>1
<1>9. WithinBranchLimit
  <2>1. liveIn(Branches) = {i \in Branches : SeedRows[i].exists}
    BY <1>1 DEF liveIn, Ids
  <2> QED BY <2>1 DEF WithinBranchLimit
<1>10. ClashesAreAnswered /\ OrdersKeepTheirPlace
  BY DEF ClashesAreAnswered, OrdersKeepTheirPlace
<1>11. AuditInv
  BY DEF AuditInv
<1> QED BY <1>2, <1>4, <1>5, <1>6, <1>7, <1>8, <1>9, <1>10, <1>11 DEF CatalogIInv

-----------------------------------------------------------------------------
\* A step that leaves the rows alone leaves what the repositories read of them.
LEMMA SameRows ==
  ASSUME rows' = rows
  PROVE  /\ \A i : live(i)' <=> live(i)
         /\ \A S : liveIn(S)' = liveIn(S)
         /\ \A k, p, key : holders(k, p, key)' = holders(k, p, key)
         /\ \A i : childrenOf(i)' = childrenOf(i)
         /\ checkBranchLimit' = checkBranchLimit
         /\ ForeignKeys => ForeignKeys'
BY DEF live, liveIn, holders, childrenOf, checkBranchLimit, ForeignKeys

\* What a service method has decided stays so while rows stay and orders only end.
LEMMA DecisionStands ==
  ASSUME rows' = rows, orders' \subseteq orders
  PROVE  \A q : Decided(q) => Decided(q)'
<1> SUFFICES ASSUME NEW q, Decided(q) PROVE Decided(q)'
  OBVIOUS
<1>1. \A i : activeOrdersAt(i)' \subseteq activeOrdersAt(i)
  BY DEF activeOrdersAt
<1> QED BY <1>1, SameRows DEF Decided

\* What a request has read stays so too.
LEMMA ReadsStand ==
  ASSUME rows' = rows, orders' \subseteq orders
  PROVE  \A r : req'[r] = req[r] /\ ReadsHold(r) => ReadsHold(r)'
BY DecisionStands, SameRows DEF ReadsHold, busy, at

\* A step that leaves the rows alone and brings no request keeps the invariant, if
\* the requests that go on may do so.
LEMMA QuietStep ==
  ASSUME CatalogIInv, CatalogTypeOK', req' \in [Requests -> {Idle} \cup InHand],
         rows' = rows, orders' \subseteq orders,
         UNCHANGED <<overlapped, blind, rebranched, rawErrors>>,
         auditLost' \/ (~auditLost' /\ ~auditLost /\ audit \cup unaudited \subseteq audit' \cup unaudited'),
         \A r \in Requests :
           /\ busy(r)' => busy(r) /\ req'[r].q = req[r].q
           /\ StepInv(r)'
           /\ ~overlapped => ReadsHold(r)'
  PROVE  CatalogIInv'
<1>0. /\ RowsInv /\ FreshInv /\ LoneInv /\ ChildrenOfTheLiving /\ WithinBranchLimit
      /\ ClashesAreAnswered /\ OrdersKeepTheirPlace /\ AuditInv
  BY DEF CatalogIInv
<1>1. RowsInv' /\ ChildrenOfTheLiving' /\ WithinBranchLimit'
  BY <1>0, SameRows DEF RowsInv, ChildrenOfTheLiving, WithinBranchLimit
<1>2. ClashesAreAnswered' /\ OrdersKeepTheirPlace'
  BY <1>0, SameRows DEF ClashesAreAnswered, OrdersKeepTheirPlace
<1>3. FreshInv' /\ LoneInv'
  BY <1>0 DEF FreshInv, LoneInv
<1>4. AuditInv'
  BY <1>0 DEF AuditInv
<1> QED BY <1>1, <1>2, <1>3, <1>4 DEF CatalogIInv

\* A request in hand has a well-formed body and is at one of its steps.
LEMMA HandFacts ==
  ASSUME CatalogIInv, NEW r \in Requests, req[r].pc # "idle"
  PROVE  /\ req[r] \in InHand
         /\ req[r].q \in Payload /\ wellFormed(req[r].q)
         /\ req[r].q.kind \in Kinds /\ req[r].q.id \in idsOf(req[r].q.kind) /\ req[r].q.id \in Ids
         /\ req[r].q.op \in Ops
<1>1. req[r] \in InHand
  BY DEF CatalogIInv, Idle
<1>2. req[r].q \in Payload /\ wellFormed(req[r].q)
  BY <1>1 DEF InHand
<1> QED BY <1>1, <1>2, KindOfIds DEF wellFormed, Payload

\* The types of the request variables survive a step of one request.
LEMMA HandTypes ==
  ASSUME CatalogIInv, NEW r \in Requests, NEW new \in {Idle} \cup InHand,
         req' = [req EXCEPT ![r] = new],
         UNCHANGED <<rows, orders, status, clock, started, auditLost, overlapped, blind, rebranched>>,
         audit' \cup unaudited' \subseteq Ids
  PROVE  CatalogTypeOK' /\ req' \in [Requests -> {Idle} \cup InHand]
<1>1. CatalogTypeOK /\ req \in [Requests -> {Idle} \cup InHand]
  BY DEF CatalogIInv
<1>2. req' \in [Requests -> {Idle} \cup InHand]
  BY <1>1
<1>3. \A s \in Requests : req'[s] = Idle \/ (req'[s].q \in Payload /\ req'[s].answer \in Answers)
  BY <1>2 DEF InHand
<1> QED BY <1>1, <1>2, <1>3 DEF CatalogTypeOK

\* A request that moves on, or that is over, without a write.
LEMMA MoveStep ==
  ASSUME CatalogIInv, NEW r \in Requests, NEW new \in {Idle} \cup InHand,
         req' = [req EXCEPT ![r] = new],
         UNCHANGED <<rows, orders, status, clock, started, overlapped, blind, rebranched, rawErrors>>,
         auditLost' = auditLost, audit' = audit, unaudited \subseteq unaudited', unaudited' \subseteq Ids,
         busy(r)' => busy(r) /\ new.q = req[r].q,
         StepInv(r)', ~overlapped => ReadsHold(r)'
  PROVE  CatalogIInv'
<1>0. CatalogTypeOK /\ req \in [Requests -> {Idle} \cup InHand] /\ (\A s \in Requests : StepInv(s))
      /\ LoneInv
  BY DEF CatalogIInv
<1>1. req'[r] = new /\ \A s \in Requests : s # r => req'[s] = req[s]
  BY <1>0
<1>2. audit' \cup unaudited' \subseteq Ids
  BY <1>0 DEF CatalogTypeOK
<1>3. CatalogTypeOK' /\ req' \in [Requests -> {Idle} \cup InHand]
  BY <1>2, HandTypes
<1>4. auditLost \in BOOLEAN
  BY <1>0 DEF CatalogTypeOK
<1>5. auditLost' \/ (~auditLost' /\ ~auditLost /\ audit \cup unaudited \subseteq audit' \cup unaudited')
  BY <1>4
<1>6. ASSUME NEW s \in Requests, s # r
      PROVE  /\ busy(s)' => busy(s) /\ req'[s].q = req[s].q
             /\ StepInv(s)'
             /\ ~overlapped => ReadsHold(s)'
  <2>1. req'[s] = req[s]
    BY <1>1, <1>6
  <2>2. StepInv(s)'
    BY <2>1, <1>0 DEF StepInv, at, busy
  <2>3. ~overlapped => ReadsHold(s)'
    BY <2>1, <1>0, ReadsStand DEF LoneInv
  <2> QED BY <2>1, <2>2, <2>3 DEF busy
<1>7. \A s \in Requests :
        /\ busy(s)' => busy(s) /\ req'[s].q = req[s].q
        /\ StepInv(s)'
        /\ ~overlapped => ReadsHold(s)'
  BY <1>1, <1>6
<1> QED BY <1>3, <1>5, <1>7, QuietStep

\* A request that is over has nothing left to rely on.
LEMMA OverStep ==
  ASSUME CatalogIInv, NEW r \in Requests, NEW new \in {Idle} \cup InHand,
         req' = [req EXCEPT ![r] = new], new.pc \in {"idle", "answered"},
         UNCHANGED <<rows, orders, status, clock, started, overlapped, blind, rebranched, rawErrors>>,
         auditLost' = auditLost, audit' = audit, unaudited \subseteq unaudited', unaudited' \subseteq Ids
  PROVE  CatalogIInv'
<1>1. req'[r] = new
  BY DEF CatalogIInv
<1>2. ~busy(r)' /\ StepInv(r)' /\ ReadsHold(r)'
  BY <1>1 DEF busy, StepInv, ReadsHold, at
<1> QED BY <1>2, MoveStep

-----------------------------------------------------------------------------
\* A service method goes on or refuses.
LEMMA VerdictValues ==
  ASSUME NEW q, q.op \in Ops, q.kind \in Kinds
  PROVE  verdict(q) \in {"go", "404", "409"}
<1>1. CASE q.op = "create"
  BY <1>1 DEF Kinds, verdict, createBranch, createTable, createCategory, createProduct, createCustomer
<1>2. CASE q.op = "update"
  BY <1>2 DEF Kinds, verdict, updateBranch, updateTable, updateCategory, updateProduct, updateCustomer
<1>3. CASE q.op = "delete"
  BY <1>3 DEF Kinds, verdict, deleteBranch, deleteTable, deleteCategory, deleteProduct, deleteCustomer
<1>4. CASE q.op = "restore"
  BY <1>4 DEF Kinds, verdict, restoreBranch, restoreTable, restoreCategory, restoreProduct,
              restoreCustomer
<1> QED BY <1>1, <1>2, <1>3, <1>4 DEF Ops

\* What a service method that goes on has found.
LEMMA GoMeansDecided ==
  ASSUME NEW q, wellFormed(q), verdict(q) = "go",
         \A i \in Customers : rows[i].exists => rows[i].parent = None,
         q.op # "create" => rows[q.id].exists
  PROVE  Decided(q)
<1>0. q.op \in Ops /\ q.kind \in Kinds /\ q.id \in idsOf(q.kind)
  BY DEF wellFormed, Payload
<1>1. CASE q.op = "create"
  <2>1. q.kind = "table" => live(q.parent)
    BY <1>1 DEF verdict, createTable
  <2>2. q.kind = "customer" => holders("customer", None, q.key) = {}
    BY <1>1 DEF verdict, createCustomer
  <2> QED BY <1>1, <2>1, <2>2 DEF Decided
<1>2. CASE q.op = "update"
  <2>1. live(q.id)
    BY <1>0, <1>2 DEF Kinds, verdict, updateBranch, updateTable, updateCategory, updateProduct,
                      updateCustomer
  <2>2. q.kind = "product" /\ q.parent # None => live(q.parent)
    BY <1>2 DEF verdict, updateProduct
  <2>3. q.kind = "customer" /\ q.key # None /\ q.key # rows[q.id].key =>
          holders("customer", None, q.key) \ {q.id} = {}
    BY <1>2 DEF verdict, updateCustomer
  <2>4. (q.parent # None => q.kind = "product") /\ (q.key # None => q.kind = "customer")
    BY <1>2 DEF wellFormed
  <2> QED BY <1>2, <2>1, <2>2, <2>3, <2>4 DEF Decided
<1>3. CASE q.op = "delete"
  <2>1. live(q.id)
    BY <1>0, <1>3 DEF Kinds, verdict, deleteBranch, deleteTable, deleteCategory, deleteProduct,
                      deleteCustomer
  <2>2. q.kind \in {"branch", "table"} => activeOrdersAt(q.id) = {}
    BY <1>3 DEF verdict, deleteBranch, deleteTable
  <2> QED BY <1>3, <2>1, <2>2 DEF Decided
<1>4. CASE q.op = "restore"
  <2>1. q.kind \in {"table", "product"} => live(rows[q.id].parent)
    BY <1>4 DEF verdict, restoreTable, restoreProduct
  <2>2. q.kind = "table" => holders("table", rows[q.id].parent, rows[q.id].key) \ {q.id} = {}
    BY <1>4 DEF verdict, restoreTable
  <2>3. q.kind = "customer" => holders("customer", None, rows[q.id].key) \ {q.id} = {}
    BY <1>4 DEF verdict, restoreCustomer
  <2>4. q.kind = "customer" => rows[q.id].parent = None
    BY <1>0, <1>4, KindTable
  <2> QED BY <1>4, <2>1, <2>2, <2>3, <2>4 DEF Decided
<1> QED BY <1>0, <1>1, <1>2, <1>3, <1>4 DEF Ops

\* An answer is kept for a caller who waits, or forgotten.
LEMMA ReplyStep ==
  ASSUME CatalogIInv, NEW r \in Requests, req[r].pc # "idle", NEW a \in Answers, replies(r, a)
  PROVE  \E new \in {Idle} \cup InHand :
           /\ req' = [req EXCEPT ![r] = new] /\ new.pc \in {"idle", "answered"}
           /\ new # Idle => new = [req[r] EXCEPT !.pc = "answered", !.answer = a]
<1>1. req \in [Requests -> {Idle} \cup InHand] /\ req[r] \in InHand
  BY HandFacts DEF CatalogIInv
<1>2. PICK new : new = IF req[r].awaited THEN [req[r] EXCEPT !.pc = "answered", !.answer = a] ELSE Idle
  OBVIOUS
<1>3. req' = [req EXCEPT ![r] = new]
  BY <1>1, <1>2 DEF replies
<1>4. new \in {Idle} \cup InHand /\ new.pc \in {"idle", "answered"}
  BY <1>1, <1>2 DEF InHand, Idle
<1> QED BY <1>2, <1>3, <1>4

\* What is recorded of an answered request is an id.
LEMMA AnswerStep ==
  ASSUME CatalogIInv, NEW r \in Requests, req[r].pc # "idle", NEW a \in Answers, answers(r, a)
  PROVE  /\ \E new \in {Idle} \cup InHand :
              /\ req' = [req EXCEPT ![r] = new] /\ new.pc \in {"idle", "answered"}
              /\ new # Idle => new = [req[r] EXCEPT !.pc = "answered", !.answer = a]
         /\ auditLost' = auditLost /\ audit' = audit
         /\ unaudited \subseteq unaudited' /\ unaudited' \subseteq Ids
<1>1. auditEntry(req[r].q, a) \subseteq Ids /\ audit \cup unaudited \subseteq Ids
  BY HandFacts DEF auditEntry, CatalogIInv, CatalogTypeOK
<1> QED BY <1>1, ReplyStep DEF answers

\* SubscriptionGuard: what it counted still holds when the handler runs.
LEMMA GuardStep ==
  ASSUME CatalogIInv, NEW r \in Requests, Guard(r)
  PROVE  CatalogIInv'
<1> USE DEF Guard, at, auditUnchanged, historyUnchanged
<1>1. CASE canActivate(req[r].q)
  <2>1. req[r] \in InHand /\ req \in [Requests -> {Idle} \cup InHand] /\ StepInv(r)
    BY HandFacts DEF CatalogIInv
  <2>2. PICK new : new = [req[r] EXCEPT !.pc = "validate"]
    OBVIOUS
  <2>3. req' = [req EXCEPT ![r] = new] /\ new \in InHand /\ req'[r] = new
    BY <1>1, <2>1, <2>2 DEF goes, InHand
  <2>4. /\ busy(r) /\ busy(r)' /\ new.q = req[r].q /\ new.pc = "validate"
        /\ new.batch = req[r].batch
    BY <2>1, <2>2, <2>3 DEF busy, InHand
  <2>5. StepInv(r)'
    BY <2>1, <2>3, <2>4 DEF StepInv
  <2>6. ReadsHold(r)'
    BY <1>1, <2>3, <2>4, SameRows DEF ReadsHold, canActivate
  <2>7. unaudited \subseteq Ids
    BY DEF CatalogIInv, CatalogTypeOK
  <2> QED BY <2>3, <2>4, <2>5, <2>6, <2>7, MoveStep
<1>2. CASE ~canActivate(req[r].q)
  <2>1. PICK new \in {Idle} \cup InHand :
          req' = [req EXCEPT ![r] = new] /\ new.pc \in {"idle", "answered"}
    BY <1>2, ReplyStep DEF Answers
  <2>2. unaudited \subseteq Ids
    BY DEF CatalogIInv, CatalogTypeOK
  <2> QED BY <2>1, <2>2, OverStep
<1> QED BY <1>1, <1>2

\* The service method: what it has found holds when it goes on.
LEMMA ValidateStep ==
  ASSUME CatalogIInv, NEW r \in Requests, Validate(r)
  PROVE  CatalogIInv'
<1> USE DEF Validate, at, auditUnchanged, historyUnchanged
<1>0. /\ req[r] \in InHand /\ req \in [Requests -> {Idle} \cup InHand] /\ StepInv(r) /\ busy(r)
      /\ wellFormed(req[r].q) /\ req[r].q.op \in Ops /\ req[r].q.kind \in Kinds
  BY HandFacts DEF CatalogIInv, busy
<1>1. CASE verdict(req[r].q) = "go"
  <2>1. PICK new : new = [req[r] EXCEPT !.pc = afterValidate(req[r].q), !.at = clock]
    OBVIOUS
  <2>2. afterValidate(req[r].q) \in {"write", "batch", "recheck"}
    BY DEF afterValidate
  <2>3. clock \in 0 .. MaxTime
    BY DEF CatalogIInv, CatalogTypeOK
  <2>4. req' = [req EXCEPT ![r] = new] /\ new \in InHand /\ req'[r] = new
    BY <1>0, <1>1, <2>1, <2>2, <2>3 DEF InHand
  <2>5. /\ busy(r)' /\ new.q = req[r].q /\ new.pc = afterValidate(req[r].q)
        /\ new.batch = req[r].batch
    BY <1>0, <2>1, <2>2, <2>4 DEF busy, InHand
  <2>6. StepInv(r)'
    BY <1>0, <2>4, <2>5 DEF StepInv, afterValidate
  <2>7. \A i \in Customers : rows[i].exists => rows[i].parent = None
    BY KindFacts DEF CatalogIInv, RowsInv, Ids
  <2>8. Decided(req[r].q)
    BY <1>0, <1>1, <2>7, GoMeansDecided DEF StepInv
  <2>9. ~overlapped => ReadsHold(r)'
    <3> SUFFICES ASSUME ~overlapped PROVE ReadsHold(r)'
      OBVIOUS
    <3>1. ReadsHold(r)
      BY DEF CatalogIInv, LoneInv
    <3>2. (req[r].q)' = req[r].q
      BY <2>4, <2>5
    <3>3. Decided(req[r].q)'
      BY <2>8, <3>2, DecisionStands DEF Decided
    <3>4. new.pc = "write" => req[r].q.op = "create" /\ new.batch = {}
      BY <1>0, <2>5 DEF StepInv, afterValidate
    <3>5. new.pc # "guard" /\ new.pc # "validate"
      BY <2>2, <2>5
    <3> QED BY <1>0, <2>4, <2>5, <3>1, <3>2, <3>3, <3>4, <3>5, SameRows DEF ReadsHold
  <2>10. unaudited \subseteq Ids
    BY DEF CatalogIInv, CatalogTypeOK
  <2> QED BY <1>0, <1>1, <2>4, <2>5, <2>6, <2>9, <2>10, MoveStep
<1>2. CASE verdict(req[r].q) # "go"
  <2>1. answers(r, verdict(req[r].q)) /\ verdict(req[r].q) \in Answers
    BY <1>0, <1>2, VerdictValues DEF Answers
  <2>2. PICK new \in {Idle} \cup InHand :
          /\ req' = [req EXCEPT ![r] = new] /\ new.pc \in {"idle", "answered"}
          /\ auditLost' = auditLost /\ audit' = audit
          /\ unaudited \subseteq unaudited' /\ unaudited' \subseteq Ids
    BY <2>1, AnswerStep
  <2> QED BY <2>2, OverStep
<1> QED BY <1>1, <1>2

\* The repository looks once more and refuses, answers, or goes on to write.
LEMMA RecheckStep ==
  ASSUME CatalogIInv, NEW r \in Requests, Recheck(r)
  PROVE  CatalogIInv'
<1> USE DEF Recheck, at, auditUnchanged, historyUnchanged
<1>0. /\ req[r] \in InHand /\ req \in [Requests -> {Idle} \cup InHand] /\ StepInv(r) /\ busy(r)
      /\ req[r].pc # "idle"
  BY HandFacts DEF CatalogIInv, busy
<1>1. ASSUME NEW a \in Answers, answers(r, a) PROVE CatalogIInv'
  <2>1. PICK new \in {Idle} \cup InHand :
          /\ req' = [req EXCEPT ![r] = new] /\ new.pc \in {"idle", "answered"}
          /\ auditLost' = auditLost /\ audit' = audit
          /\ unaudited \subseteq unaudited' /\ unaudited' \subseteq Ids
    BY <1>0, <1>1, AnswerStep
  <2> QED BY <2>1, OverStep
<1>2. ASSUME goes(r, "write"), auditUnchanged, req[r].q.op = "delete" => live(req[r].q.id),
             childKind(req[r].q.kind) = None \/ req[r].q.op # "delete"
      PROVE  CatalogIInv'
  <2>1. PICK new : new = [req[r] EXCEPT !.pc = "write"]
    OBVIOUS
  <2>2. req' = [req EXCEPT ![r] = new] /\ new \in InHand /\ req'[r] = new
    BY <1>0, <1>2, <2>1 DEF InHand, goes
  <2>3. busy(r)' /\ new.q = req[r].q /\ new.pc = "write" /\ new.batch = {}
    BY <1>0, <2>1, <2>2 DEF busy, InHand, StepInv
  <2>4. StepInv(r)'
    BY <1>0, <2>2, <2>3 DEF StepInv
  <2>5. ~overlapped => ReadsHold(r)'
    <3> SUFFICES ASSUME ~overlapped PROVE ReadsHold(r)'
      OBVIOUS
    <3>1. ReadsHold(r)
      BY DEF CatalogIInv, LoneInv
    <3>2. (req[r].q)' = req[r].q
      BY <2>2, <2>3
    <3>3. Decided(req[r].q)'
      BY <3>1, <3>2, DecisionStands DEF Decided, ReadsHold
    <3>4. req[r].q.op = "delete" => childrenOf(req[r].q.id) = {}
      BY <1>0, <1>2, HandFacts, KindOfIds DEF childrenOf
    <3> QED BY <1>0, <2>2, <2>3, <3>1, <3>2, <3>3, <3>4, SameRows DEF ReadsHold, StepInv, guarded
  <2>6. unaudited \subseteq Ids
    BY DEF CatalogIInv, CatalogTypeOK
  <2> QED BY <1>0, <1>2, <2>2, <2>3, <2>4, <2>5, <2>6, MoveStep
<1>3. req[r].q.op = "delete" => childKind(req[r].q.kind) = None
  BY <1>0 DEF StepInv
<1>4. \/ answers(r, "500") \/ answers(r, "ok")
      \/ goes(r, "write") /\ auditUnchanged /\ (req[r].q.op = "delete" => live(req[r].q.id))
  OBVIOUS
<1> QED BY <1>1, <1>2, <1>3, <1>4 DEF Answers

\* The cascade's transaction reads the rows that it then deletes.
LEMMA BatchStep ==
  ASSUME CatalogIInv, NEW r \in Requests, Batch(r)
  PROVE  CatalogIInv'
<1> USE DEF Batch, at, auditUnchanged, historyUnchanged
<1>0. /\ req[r] \in InHand /\ req \in [Requests -> {Idle} \cup InHand] /\ StepInv(r) /\ busy(r)
      /\ req[r].q.op = "delete"
  BY HandFacts DEF CatalogIInv, busy, StepInv
<1>1. PICK new : new = [req[r] EXCEPT !.pc = "write", !.batch = childrenOf(req[r].q.id)]
  OBVIOUS
<1>2. childrenOf(req[r].q.id) \subseteq Ids
  BY HandFacts, <1>0, KindOfIds, KindTable DEF childrenOf, Ids, liveIn, Kinds
<1>3. req' = [req EXCEPT ![r] = new] /\ new \in InHand /\ req'[r] = new
  BY <1>0, <1>1, <1>2 DEF InHand
<1>4. busy(r)' /\ new.q = req[r].q /\ new.pc = "write" /\ new.batch = childrenOf(req[r].q.id)
  BY <1>0, <1>1, <1>3 DEF busy, InHand
<1>5. StepInv(r)'
  BY <1>0, <1>3, <1>4 DEF StepInv
<1>6. ~overlapped => ReadsHold(r)'
  <2> SUFFICES ASSUME ~overlapped PROVE ReadsHold(r)'
    OBVIOUS
  <2>1. ReadsHold(r)
    BY DEF CatalogIInv, LoneInv
  <2>2. (req[r].q)' = req[r].q
    BY <1>3, <1>4
  <2>3. Decided(req[r].q)'
    BY <2>1, <2>2, DecisionStands DEF Decided, ReadsHold
  <2>4. childrenOf(req[r].q.id)' = childrenOf(req[r].q.id)
    BY <2>2 DEF childrenOf, liveIn, live
  <2> QED BY <1>0, <1>3, <1>4, <2>1, <2>2, <2>3, <2>4, SameRows DEF ReadsHold, guarded
<1>7. unaudited \subseteq Ids
  BY DEF CatalogIInv, CatalogTypeOK
<1> QED BY <1>0, <1>3, <1>4, <1>5, <1>6, <1>7, MoveStep

\* The caller has the answer, or stops waiting.
LEMMA CallerStep ==
  ASSUME CatalogIInv, NEW r \in Requests, Finish(r) \/ Abandon(r)
  PROVE  CatalogIInv'
<1> USE DEF at, auditUnchanged, historyUnchanged
<1>0. req \in [Requests -> {Idle} \cup InHand] /\ unaudited \subseteq Ids
  BY DEF CatalogIInv, CatalogTypeOK
<1>1. CASE req' = [req EXCEPT ![r] = Idle]
  BY <1>0, <1>1, OverStep DEF Idle, Finish, Abandon
<1>2. CASE Abandon(r) /\ req[r].pc # "answered"
  <2>1. req[r] \in InHand /\ StepInv(r)
    BY <1>2, HandFacts DEF Abandon, CatalogIInv
  <2>2. PICK new : new = [req[r] EXCEPT !.awaited = FALSE]
    OBVIOUS
  <2>3. req' = [req EXCEPT ![r] = new] /\ new \in InHand /\ req'[r] = new
    BY <1>0, <1>2, <2>1, <2>2 DEF InHand, Abandon
  <2>4. new.pc = req[r].pc /\ new.q = req[r].q /\ new.batch = req[r].batch
    BY <2>1, <2>2 DEF InHand
  <2>5. UNCHANGED <<rows, orders, status, clock, started>> /\ auditUnchanged /\ historyUnchanged
    BY <1>2 DEF Abandon
  <2>6. StepInv(r)'
    BY <2>1, <2>3, <2>4, <2>5 DEF StepInv, busy
  <2>7. busy(r)' => busy(r)
    BY <2>3, <2>4 DEF busy
  <2>8. ~overlapped => ReadsHold(r)'
    <3> SUFFICES ASSUME ~overlapped PROVE ReadsHold(r)'
      OBVIOUS
    <3>1. ReadsHold(r)
      BY DEF CatalogIInv, LoneInv
    <3>2. (req[r].q)' = req[r].q
      BY <2>3, <2>4
    <3>3. Decided(req[r].q) => Decided(req[r].q)'
      BY <2>5, <3>2, DecisionStands DEF Decided
    <3>4. childrenOf(req[r].q.id)' = childrenOf(req[r].q.id)
      BY <2>5, <3>2 DEF childrenOf, liveIn, live
    <3> QED BY <2>3, <2>4, <2>5, <3>1, <3>2, <3>3, <3>4, SameRows DEF ReadsHold, guarded, busy
  <2> QED BY <1>0, <2>3, <2>4, <2>5, <2>6, <2>7, <2>8, MoveStep
<1> QED BY <1>1, <1>2 DEF Finish, Abandon

\* Records are inserted or lost, orders end, billing and the clock move on.
LEMMA WorldStep ==
  ASSUME CatalogIInv,
         Auditing \/ (\E o \in Branches \cup Tables : EndOrder(o)) \/ BillingChanges \/ Tick
  PROVE  CatalogIInv'
<1> USE DEF auditUnchanged, historyUnchanged
<1>0. /\ CatalogTypeOK /\ req \in [Requests -> {Idle} \cup InHand] /\ LoneInv
      /\ \A r \in Requests : StepInv(r)
  BY DEF CatalogIInv
<1>1. rows' = rows /\ orders' \subseteq orders /\ req' = req
      /\ UNCHANGED <<overlapped, blind, rebranched, rawErrors>>
  BY DEF Auditing, LogAudit, EndOrder, BillingChanges, Tick
<1>2. auditLost' \/ (~auditLost' /\ ~auditLost /\ audit \cup unaudited \subseteq audit' \cup unaudited')
  <2>1. auditLost \in BOOLEAN
    BY <1>0 DEF CatalogTypeOK
  <2> QED BY <2>1 DEF Auditing, LogAudit, EndOrder, BillingChanges, Tick
<1>3. CatalogTypeOK'
  <2>1. rows' \in [Ids -> Row] /\ orders' \subseteq Branches \cup Tables /\ started' \in 0 .. MaxRequests
    BY <1>0, <1>1 DEF CatalogTypeOK, Auditing, LogAudit, EndOrder, BillingChanges, Tick
  <2>2. status' \in {"ACTIVE", "UNPAID"} /\ clock' \in 0 .. MaxTime
    BY <1>0, CatalogAssumption DEF CatalogTypeOK, Auditing, LogAudit, EndOrder, BillingChanges, Tick
  <2>3. audit' \cup unaudited' \subseteq Ids /\ auditLost' \in BOOLEAN
    BY <1>0 DEF CatalogTypeOK, Auditing, LogAudit, EndOrder, BillingChanges, Tick
  <2> QED BY <1>0, <1>1, <2>1, <2>2, <2>3 DEF CatalogTypeOK
<1>4. ASSUME NEW r \in Requests
      PROVE  /\ busy(r)' => busy(r) /\ req'[r].q = req[r].q
             /\ StepInv(r)'
             /\ ~overlapped => ReadsHold(r)'
  <2>1. StepInv(r)'
    BY <1>0, <1>1 DEF StepInv, at, busy
  <2>2. ~overlapped => ReadsHold(r)'
    BY <1>0, <1>1, ReadsStand DEF LoneInv
  <2> QED BY <1>1, <2>1, <2>2 DEF busy
<1> QED BY <1>0, <1>1, <1>2, <1>3, <1>4, QuietStep

\* An order placed beside a request is an overlap; alone it is at a living place.
LEMMA PlaceOrderStep ==
  ASSUME CatalogIInv, NEW o \in Branches \cup Tables, PlaceOrder(o)
  PROVE  CatalogIInv'
<1> USE DEF PlaceOrder, auditUnchanged
<1>0. /\ CatalogTypeOK /\ req \in [Requests -> {Idle} \cup InHand] /\ RowsInv /\ LoneInv /\ FreshInv
      /\ ChildrenOfTheLiving /\ WithinBranchLimit /\ ClashesAreAnswered /\ OrdersKeepTheirPlace
      /\ AuditInv /\ \A r \in Requests : StepInv(r)
  BY DEF CatalogIInv
<1>1. overlapped' \in BOOLEAN /\ (~overlapped' => ~overlapped /\ \A s \in Requests : ~busy(s))
  BY <1>0 DEF CatalogTypeOK
<1>2. CatalogTypeOK'
  BY <1>0, <1>1 DEF CatalogTypeOK
<1>3. RowsInv' /\ ChildrenOfTheLiving' /\ WithinBranchLimit'
  BY <1>0, <1>1, SameRows DEF RowsInv, ChildrenOfTheLiving, WithinBranchLimit
<1>4. ClashesAreAnswered' /\ OrdersKeepTheirPlace'
  BY <1>0, <1>1, SameRows DEF ClashesAreAnswered, OrdersKeepTheirPlace
<1>5. AuditInv'
  BY <1>0, <1>1 DEF AuditInv
<1>6. \A r \in Requests : StepInv(r)'
  BY <1>0 DEF StepInv, at, busy
<1>7. FreshInv'
  BY <1>0 DEF FreshInv, busy
<1>8. LoneInv'
  BY <1>1 DEF LoneInv, ReadsHold, busy, at
<1> QED BY <1>0, <1>2, <1>3, <1>4, <1>5, <1>6, <1>7, <1>8 DEF CatalogIInv

\* A request that arrives beside another one is an overlap.
LEMMA StartStep ==
  ASSUME CatalogIInv, NEW r \in Requests, NEW q, NEW awaited \in BOOLEAN, Start(r, q, awaited)
  PROVE  CatalogIInv'
<1> USE DEF Start, auditUnchanged
<1>0. /\ CatalogTypeOK /\ req \in [Requests -> {Idle} \cup InHand] /\ RowsInv /\ LoneInv /\ FreshInv
      /\ ChildrenOfTheLiving /\ WithinBranchLimit /\ ClashesAreAnswered /\ OrdersKeepTheirPlace
      /\ AuditInv /\ \A s \in Requests : StepInv(s)
  BY DEF CatalogIInv
<1>1. overlapped' \in BOOLEAN /\ (~overlapped' => ~overlapped /\ \A s \in Requests : ~busy(s))
  BY <1>0 DEF CatalogTypeOK
<1>2. PICK new : new = [pc |-> IF guarded(q) THEN "guard" ELSE "validate", q |-> q, at |-> 0,
                        batch |-> {}, answer |-> None, awaited |-> awaited]
  OBVIOUS
<1>3. q \in Payload /\ wellFormed(q)
  BY DEF wellFormed
<1>4. new \in InHand
  BY <1>2, <1>3, CatalogAssumption DEF InHand, Answers
<1>5. req' = [req EXCEPT ![r] = new] /\ req'[r] = new /\ \A s \in Requests : s # r => req'[s] = req[s]
  BY <1>0, <1>2
<1>6. req' \in [Requests -> {Idle} \cup InHand]
  BY <1>0, <1>4, <1>5
<1>7. CatalogTypeOK'
  <2>1. \A s \in Requests : req'[s] = Idle \/ (req'[s].q \in Payload /\ req'[s].answer \in Answers)
    BY <1>6 DEF InHand
  <2>2. started' \in 0 .. MaxRequests
    BY <1>0, CatalogAssumption DEF CatalogTypeOK
  <2> QED BY <1>0, <1>1, <2>1, <2>2 DEF CatalogTypeOK
<1>8. RowsInv' /\ ChildrenOfTheLiving' /\ WithinBranchLimit'
  BY <1>0, <1>1, SameRows DEF RowsInv, ChildrenOfTheLiving, WithinBranchLimit
<1>9. ClashesAreAnswered' /\ OrdersKeepTheirPlace'
  BY <1>0, <1>1, SameRows DEF ClashesAreAnswered, OrdersKeepTheirPlace
<1>10. AuditInv'
  BY <1>0, <1>1 DEF AuditInv
<1>11. StepInv(r)'
  BY <1>2, <1>5 DEF StepInv, at, busy
<1>12. \A s \in Requests : s # r => StepInv(s)'
  BY <1>0, <1>5 DEF StepInv, at, busy
<1>13. FreshInv'
  <2> SUFFICES ASSUME NEW s \in Requests, NEW t \in Requests, busy(s)', busy(t)', s # t,
                      (req[s].q.op)' = "create"
               PROVE  (req[t].q.id)' # (req[s].q.id)'
    BY DEF FreshInv
  <2>1. CASE s # r /\ t # r
    BY <1>0, <1>5, <2>1 DEF FreshInv, busy
  <2>2. CASE s = r
    BY <1>2, <1>5, <2>2 DEF busy
  <2>3. CASE t = r
    <3>1. busy(s) /\ req[s].q.op = "create" /\ req'[s] = req[s]
      BY <1>5, <2>3 DEF busy
    <3>2. q.op = "create" => q.id # req[s].q.id
      BY <3>1
    <3>3. q.op # "create" => rows[q.id].exists
      OBVIOUS
    <3>4. ~rows[req[s].q.id].exists
      BY <1>0, <3>1 DEF StepInv
    <3> QED BY <1>2, <1>5, <2>3, <3>1, <3>2, <3>3, <3>4
  <2> QED BY <2>1, <2>2, <2>3
<1>14. LoneInv'
  <2>1. ~overlapped' => \A s \in Requests : s # r => ~busy(s)' /\ ReadsHold(s)'
    BY <1>1, <1>5 DEF busy, ReadsHold, at
  <2>2. ReadsHold(r)'
    BY <1>2, <1>5 DEF ReadsHold, at, busy
  <2> QED BY <2>1, <2>2 DEF LoneInv
<1> QED BY <1>0, <1>6, <1>7, <1>8, <1>9, <1>10, <1>11, <1>12, <1>13, <1>14 DEF CatalogIInv

-----------------------------------------------------------------------------
\* A row is typed by what its fields are.
LEMMA TombstoneFacts ==
  ASSUME CatalogTypeOK, NEW i \in Ids, NEW now \in 0 .. MaxTime
  PROVE  /\ tombstone(i, now) \in Row
         /\ tombstone(i, now).exists = rows[i].exists /\ tombstone(i, now).parent = rows[i].parent
         /\ tombstone(i, now).key = rows[i].key /\ tombstone(i, now).rev = rows[i].rev
         /\ tombstone(i, now).deletedAt = now
<1>1. rows[i] \in Row
  BY DEF CatalogTypeOK
<1>2. PICK act \in BOOLEAN :
        act = IF kindOf(i) \in {"branch", "category", "product"} THEN FALSE ELSE rows[i].active
  BY <1>1 DEF Row
<1>3. tombstone(i, now) = [rows[i] EXCEPT !.deletedAt = now, !.active = act]
  BY <1>1, <1>2 DEF tombstone, Row
<1> QED BY <1>1, <1>2, <1>3 DEF Row

\* What is written to the row that a request is about.
LEMMA WrittenFacts ==
  ASSUME CatalogTypeOK, RowsInv, NEW q, wellFormed(q), NEW now \in 0 .. MaxTime,
         rows[q.id].exists <=> q.op # "create"
  PROVE  /\ written(q, now) \in Row /\ written(q, now).exists
         /\ written(q, now).parent \in parentsOf(q.kind)
         /\ q.op = "create" => written(q, now) = createdRow(q)
         /\ q.op = "update" =>
              /\ written(q, now).deletedAt = rows[q.id].deletedAt
              /\ written(q, now).parent = (IF q.parent = None THEN rows[q.id].parent ELSE q.parent)
              /\ written(q, now).key = (IF q.key = None THEN rows[q.id].key ELSE q.key)
              /\ written(q, now).rev = (IF q.rev = None THEN rows[q.id].rev ELSE q.rev)
         /\ q.op = "delete" => written(q, now) = tombstone(q.id, now)
         /\ q.op = "restore" =>
              /\ written(q, now).deletedAt = None /\ written(q, now).parent = rows[q.id].parent
              /\ written(q, now).key = rows[q.id].key /\ written(q, now).rev = rows[q.id].rev
<1>0. /\ q.op \in Ops /\ q.kind \in Kinds /\ q.id \in idsOf(q.kind) /\ q.id \in Ids
      /\ kindOf(q.id) = q.kind /\ q \in Payload /\ rows[q.id] \in Row
  BY KindOfIds DEF wellFormed, Payload, CatalogTypeOK
<1>1. CASE q.op = "create"
  <2>1. written(q, now) = createdRow(q)
    BY <1>1 DEF written
  <2>2. q.parent \in Branches \cup Categories \cup {None} /\ q.key \in Keys \cup {None}
    BY <1>0 DEF Payload
  <2>3. q.rev \in Nat /\ q.parent \in parentsOf(q.kind)
    BY <1>1 DEF wellFormed
  <2>4. createdRow(q) \in Row
    BY <2>2, <2>3 DEF createdRow, Row
  <2> QED BY <1>1, <2>1, <2>3, <2>4 DEF createdRow
<1>2. CASE q.op = "update"
  <2>1. PICK par : par = IF q.parent = None THEN rows[q.id].parent ELSE q.parent
    OBVIOUS
  <2>2. PICK key : key = IF q.key = None THEN rows[q.id].key ELSE q.key
    OBVIOUS
  <2>3. PICK act : act = IF q.active = None THEN rows[q.id].active ELSE q.active
    OBVIOUS
  <2>4. PICK rev : rev = IF q.rev = None THEN rows[q.id].rev ELSE q.rev
    OBVIOUS
  <2>5. written(q, now) = [rows[q.id] EXCEPT !.parent = par, !.key = key, !.active = act, !.rev = rev]
    BY <1>0, <1>2, <2>1, <2>2, <2>3, <2>4 DEF written, definedFields, Row
  <2>6. /\ par \in Branches \cup Categories \cup {None} /\ key \in Keys \cup {None}
        /\ act \in BOOLEAN /\ rev \in Nat
    BY <1>0, <2>1, <2>2, <2>3, <2>4 DEF Payload, Row
  <2>7. par \in parentsOf(q.kind)
    <3>1. rows[q.id].parent \in parentsOf(q.kind)
      BY <1>0, <1>2 DEF RowsInv
    <3>2. q.parent # None => q.kind = "product" /\ q.parent \in Categories
      BY <1>2 DEF wellFormed
    <3> QED BY <2>1, <3>1, <3>2, KindFacts
  <2>8. rows[q.id].exists
    BY <1>2
  <2>9. written(q, now) \in Row
    BY <1>0, <2>5, <2>6 DEF Row
  <2> QED BY <1>0, <1>2, <2>1, <2>2, <2>4, <2>5, <2>7, <2>8, <2>9 DEF Row
<1>3. CASE q.op = "delete"
  <2>1. written(q, now) = tombstone(q.id, now)
    BY <1>3 DEF written
  <2>2. rows[q.id].parent \in parentsOf(q.kind)
    BY <1>0, <1>3 DEF RowsInv
  <2> QED BY <1>0, <1>3, <2>1, <2>2, TombstoneFacts
<1>4. CASE q.op = "restore"
  <2>1. PICK act \in BOOLEAN : act = IF q.kind \in {"branch", "product"} THEN TRUE ELSE rows[q.id].active
    BY <1>0 DEF Row
  <2>2. written(q, now) = [rows[q.id] EXCEPT !.deletedAt = None, !.active = act]
    BY <1>0, <1>4, <2>1 DEF written, restored, Row
  <2>3. rows[q.id].parent \in parentsOf(q.kind)
    BY <1>0, <1>4 DEF RowsInv
  <2>4. written(q, now) \in Row
    BY <1>0, <2>1, <2>2 DEF Row
  <2> QED BY <1>0, <1>4, <2>2, <2>3, <2>4 DEF Row
<1> QED BY <1>0, <1>1, <1>2, <1>3, <1>4 DEF Ops

\* A write that the database refuses changes no row.
LEMMA RefusedStep ==
  ASSUME CatalogIInv, NEW r \in Requests, at(r, "write"), answers(r, "500"),
         UNCHANGED <<rows, orders, status, clock, started, overlapped, blind, rebranched>>,
         rawErrors' = rawErrors \cup {[op |-> req[r].q.op, kind |-> req[r].q.kind]},
         ~overlapped => req[r].q.op = "create" /\ req[r].q.kind \in {"table", "product"}
  PROVE  CatalogIInv'
<1>0. req[r].pc # "idle"
  BY DEF at
<1>1. PICK new \in {Idle} \cup InHand :
        /\ req' = [req EXCEPT ![r] = new] /\ new.pc \in {"idle", "answered"}
        /\ auditLost' = auditLost /\ audit' = audit
        /\ unaudited \subseteq unaudited' /\ unaudited' \subseteq Ids
  BY <1>0, AnswerStep DEF Answers
<1>2. /\ CatalogTypeOK /\ req \in [Requests -> {Idle} \cup InHand] /\ RowsInv /\ LoneInv /\ FreshInv
      /\ ChildrenOfTheLiving /\ WithinBranchLimit /\ ClashesAreAnswered /\ OrdersKeepTheirPlace
      /\ AuditInv /\ \A s \in Requests : StepInv(s)
  BY DEF CatalogIInv
<1>3. audit' \cup unaudited' \subseteq Ids
  BY <1>1, <1>2 DEF CatalogTypeOK
<1>4. CatalogTypeOK' /\ req' \in [Requests -> {Idle} \cup InHand]
  BY <1>1, <1>3, HandTypes
<1>5. RowsInv' /\ ChildrenOfTheLiving' /\ WithinBranchLimit'
  BY <1>2, SameRows DEF RowsInv, ChildrenOfTheLiving, WithinBranchLimit
<1>6. OrdersKeepTheirPlace'
  BY <1>2, SameRows DEF OrdersKeepTheirPlace
<1>7. ClashesAreAnswered'
  BY <1>2 DEF ClashesAreAnswered
<1>8. AuditInv'
  BY <1>1, <1>2 DEF AuditInv
<1>9. ~busy(r)' /\ StepInv(r)' /\ ReadsHold(r)'
  BY <1>1, <1>2 DEF busy, StepInv, ReadsHold, at
<1>10. ASSUME NEW s \in Requests, s # r
       PROVE  req'[s] = req[s] /\ StepInv(s)' /\ (~overlapped => ReadsHold(s)')
  <2>1. req'[s] = req[s]
    BY <1>1, <1>2, <1>10
  <2>2. StepInv(s)'
    BY <2>1, <1>2 DEF StepInv, at, busy
  <2>3. ~overlapped => ReadsHold(s)'
    BY <2>1, <1>2, ReadsStand DEF LoneInv
  <2> QED BY <2>1, <2>2, <2>3
<1>11. FreshInv' /\ LoneInv'
  BY <1>2, <1>9, <1>10 DEF FreshInv, LoneInv, busy
<1> QED BY <1>4, <1>5, <1>6, <1>7, <1>8, <1>9, <1>10, <1>11 DEF CatalogIInv

\* Until an overlap the checks before a write leave the indexes nothing to refuse,
\* except when a table is created.
LEMMA NoCollision ==
  ASSUME CatalogIInv, NEW r \in Requests, at(r, "write"), ~overlapped, NEW now \in 0 .. MaxTime,
         collides(req[r].q.kind, req[r].q.id, written(req[r].q, now))
  PROVE  req[r].q.op = "create" /\ req[r].q.kind = "table"
<1>1. PICK q : q = req[r].q
  OBVIOUS
<1>2. PICK new : new = written(q, now)
  OBVIOUS
<1>3. /\ wellFormed(q) /\ q.kind \in Kinds /\ q.id \in idsOf(q.kind) /\ q.op \in Ops /\ q.id \in Ids
      /\ busy(r) /\ req[r].pc = "write"
  BY <1>1, HandFacts DEF at, busy
<1>4. (rows[q.id].exists <=> q.op # "create") /\ Decided(q)
  BY <1>1, <1>3 DEF CatalogIInv, StepInv, LoneInv, ReadsHold, at
<1>5. /\ q.kind \in {"table", "customer"} /\ new.deletedAt = None
      /\ holders(q.kind, new.parent, new.key) \ {q.id} # {}
  BY <1>1, <1>2 DEF collides
<1>6. CatalogTypeOK /\ RowsInv
  BY DEF CatalogIInv
<1>7. CASE q.op = "create" /\ q.kind = "customer"
  <2>1. new.parent = None /\ new.key = q.key
    BY <1>2, <1>3, <1>4, <1>6, <1>7, WrittenFacts, KindFacts DEF createdRow
  <2> QED BY <1>4, <1>5, <1>7, <2>1 DEF Decided
<1>8. CASE q.op = "delete"
  <2>1. new.deletedAt = now
    BY <1>2, <1>3, <1>4, <1>6, <1>8, WrittenFacts, TombstoneFacts
  <2> QED BY <1>5, <2>1, CatalogAssumption
<1>9. CASE q.op = "restore"
  <2>1. new.parent = rows[q.id].parent /\ new.key = rows[q.id].key
    BY <1>2, <1>3, <1>4, <1>6, <1>9, WrittenFacts
  <2> QED BY <1>4, <1>5, <1>9, <2>1 DEF Decided
<1>10. CASE q.op = "update"
  <2>1. live(q.id)
    BY <1>4, <1>10 DEF Decided
  <2>2. new.parent = rows[q.id].parent
    <3>1. q.parent = None
      BY <1>3, <1>5, <1>10 DEF wellFormed
    <3> QED BY <1>2, <1>3, <1>4, <1>6, <1>10, <3>1, WrittenFacts
  <2>3. new.key = IF q.key = None THEN rows[q.id].key ELSE q.key
    BY <1>2, <1>3, <1>4, <1>6, <1>10, WrittenFacts
  <2>4. CASE new.key = rows[q.id].key
    <3>1. PICK h \in holders(q.kind, new.parent, new.key) : h # q.id
      BY <1>5
    <3>2. h \in idsOf(q.kind) /\ live(h) /\ rows[h].parent = rows[q.id].parent
          /\ rows[h].key = rows[q.id].key
      BY <2>2, <2>4, <3>1 DEF holders, liveIn
    <3> QED BY <1>3, <1>5, <1>6, <2>1, <3>1, <3>2 DEF RowsInv
  <2>5. CASE new.key # rows[q.id].key
    <3>1. q.key # None /\ q.key # rows[q.id].key /\ new.key = q.key
      BY <2>3, <2>5
    <3>2. q.kind = "customer"
      BY <1>3, <1>10, <3>1 DEF wellFormed
    <3>3. new.parent = None
      BY <1>2, <1>3, <1>4, <1>6, <3>2, WrittenFacts, KindFacts
    <3> QED BY <1>4, <1>5, <1>10, <3>1, <3>2, <3>3 DEF Decided
  <2> QED BY <2>4, <2>5
<1> QED BY <1>1, <1>3, <1>5, <1>7, <1>8, <1>9, <1>10 DEF Ops

\* Nor the foreign keys, except when a product is created.
LEMMA NoDangling ==
  ASSUME CatalogIInv, NEW r \in Requests, at(r, "write"), ~overlapped, NEW now \in 0 .. MaxTime,
         dangles(written(req[r].q, now))
  PROVE  req[r].q.op = "create" /\ req[r].q.kind = "product"
<1>1. PICK q : q = req[r].q
  OBVIOUS
<1>2. PICK new : new = written(q, now)
  OBVIOUS
<1>3. /\ wellFormed(q) /\ q.kind \in Kinds /\ q.op \in Ops /\ q.id \in Ids
      /\ busy(r) /\ req[r].pc = "write"
  BY <1>1, HandFacts DEF at, busy
<1>4. (rows[q.id].exists <=> q.op # "create") /\ Decided(q)
  BY <1>1, <1>3 DEF CatalogIInv, StepInv, LoneInv, ReadsHold, at
<1>5. CatalogTypeOK /\ RowsInv /\ ForeignKeys
  BY DEF CatalogIInv, RowsInv
<1>6. new.parent # None /\ ~rows[new.parent].exists
  BY <1>1, <1>2 DEF dangles
<1>7. new.parent \in parentsOf(q.kind) /\ q.kind \in {"table", "product"}
  <2>1. new.parent \in parentsOf(q.kind)
    BY <1>2, <1>3, <1>4, <1>5, WrittenFacts
  <2> QED BY <1>3, <1>6, <2>1, KindFacts DEF Kinds
<1>8. CASE q.op = "create"
  <2>1. new.parent = q.parent
    BY <1>2, <1>3, <1>4, <1>5, <1>8, WrittenFacts DEF createdRow
  <2> QED BY <1>1, <1>4, <1>6, <1>7, <1>8, <2>1 DEF Decided, live
<1>9. CASE q.op # "create"
  <2>1. rows[q.id].exists /\ (rows[q.id].parent # None => rows[rows[q.id].parent].exists)
    BY <1>3, <1>4, <1>5, <1>9 DEF ForeignKeys
  <2>2. CASE q.op = "update" /\ q.parent # None
    <3>1. new.parent = q.parent
      BY <1>2, <1>3, <1>4, <1>5, <2>2, WrittenFacts
    <3> QED BY <1>4, <1>6, <2>2, <3>1 DEF Decided, live
  <2>3. CASE ~(q.op = "update" /\ q.parent # None)
    <3>1. rows[q.id] \in Row
      BY <1>3, <1>5 DEF CatalogTypeOK
    <3>2. q.op = "delete" => new.parent = rows[q.id].parent
      BY <1>2, <1>3, <1>4, <1>5, <3>1, WrittenFacts, TombstoneFacts
    <3>3. new.parent = rows[q.id].parent
      BY <1>2, <1>3, <1>4, <1>5, <1>9, <2>3, <3>2, WrittenFacts DEF Ops
    <3> QED BY <1>6, <2>1, <3>3
  <2> QED BY <2>2, <2>3
<1> QED BY <1>8, <1>9

\* So nothing is refused then, except a new table or a new product.
LEMMA NoClash ==
  ASSUME CatalogIInv, NEW r \in Requests, at(r, "write"), ~overlapped, NEW now \in 0 .. MaxTime,
         refuses(req[r].q, written(req[r].q, now))
  PROVE  req[r].q.op = "create" /\ req[r].q.kind \in {"table", "product"}
BY NoCollision, NoDangling DEF refuses

\* What a write leaves of the rows: the one it is about, and the tombstones of its batch.
LEMMA RowsAfterWrite ==
  ASSUME CatalogIInv, NEW r \in Requests, at(r, "write"), NEW now \in 0 .. MaxTime,
         rows' = [i \in Ids |-> IF i = req[r].q.id THEN written(req[r].q, now)
                                ELSE IF i \in req[r].batch THEN tombstone(i, now) ELSE rows[i]]
  PROVE  /\ rows' \in [Ids -> Row]
         /\ rows'[req[r].q.id] = written(req[r].q, now)
         /\ rows'[req[r].q.id].exists
         /\ rows'[req[r].q.id].parent \in parentsOf(req[r].q.kind)
         /\ \A i \in Ids : i # req[r].q.id =>
              /\ rows'[i].exists = rows[i].exists /\ rows'[i].parent = rows[i].parent
              /\ rows'[i].key = rows[i].key /\ rows'[i].rev = rows[i].rev
              /\ rows'[i].deletedAt = IF i \in req[r].batch THEN now ELSE rows[i].deletedAt
<1>1. PICK q : q = req[r].q
  OBVIOUS
<1>2. PICK new : new = written(q, now)
  OBVIOUS
<1>3. wellFormed(q) /\ q.id \in Ids /\ (rows[q.id].exists <=> q.op # "create")
  BY <1>1, HandFacts DEF CatalogIInv, StepInv, at, busy
<1>4. CatalogTypeOK /\ RowsInv
  BY DEF CatalogIInv
<1>5. new \in Row /\ new.exists /\ new.parent \in parentsOf(q.kind)
  BY <1>2, <1>3, <1>4, WrittenFacts
<1>6. \A i \in Ids : i # q.id =>
        rows'[i] = IF i \in req[r].batch THEN tombstone(i, now) ELSE rows[i]
  BY <1>1
<1>7. rows'[q.id] = new
  BY <1>1, <1>2, <1>3
<1>8. ASSUME NEW i \in Ids, i # q.id
      PROVE  /\ rows'[i] \in Row
             /\ rows'[i].exists = rows[i].exists /\ rows'[i].parent = rows[i].parent
             /\ rows'[i].key = rows[i].key /\ rows'[i].rev = rows[i].rev
             /\ rows'[i].deletedAt = IF i \in req[r].batch THEN now ELSE rows[i].deletedAt
  <2>1. rows[i] \in Row
    BY <1>4 DEF CatalogTypeOK
  <2>2. CASE i \in req[r].batch
    BY <1>4, <1>6, <1>8, <2>2, TombstoneFacts
  <2>3. CASE i \notin req[r].batch
    BY <1>6, <1>8, <2>1, <2>3
  <2> QED BY <2>2, <2>3
<1>9. rows' \in [Ids -> Row]
  <2>1. \A i \in Ids : rows'[i] \in Row
    BY <1>5, <1>7, <1>8
  <2>2. rows' = [i \in Ids |-> rows'[i]]
    OBVIOUS
  <2> QED BY <2>1, <2>2
<1> QED BY <1>1, <1>2, <1>5, <1>7, <1>8, <1>9

\* Write, when the indexes have nothing against it; `now` is the time it stamps.
Commits(r, now) ==
  LET q == req[r].q IN
  /\ at(r, "write") /\ ~refuses(q, written(q, now)) /\ answers(r, "ok")
  /\ rows' = [i \in Ids |-> IF i = q.id THEN written(q, now)
                            ELSE IF i \in req[r].batch THEN tombstone(i, now) ELSE rows[i]]
  /\ blind' = (blind \/ (q.op = "create" /\ q.kind = "product" /\ ~live(q.parent)))
  /\ rebranched' = (rebranched \/ (q.op = "restore" /\ q.kind = "branch"))
  /\ UNCHANGED <<orders, status, clock, started, overlapped, rawErrors>>

\* The rows after a committed write.
LEMMA CommitFrame ==
  ASSUME CatalogIInv, NEW r \in Requests, NEW now \in 0 .. MaxTime, Commits(r, now)
  PROVE  /\ rows' \in [Ids -> Row]
         /\ rows'[req[r].q.id] = written(req[r].q, now)
         /\ rows'[req[r].q.id].exists
         /\ rows'[req[r].q.id].parent \in parentsOf(req[r].q.kind)
         /\ \A i \in Ids : i # req[r].q.id =>
              /\ rows'[i].exists = rows[i].exists /\ rows'[i].parent = rows[i].parent
              /\ rows'[i].key = rows[i].key /\ rows'[i].rev = rows[i].rev
              /\ rows'[i].deletedAt = IF i \in req[r].batch THEN now ELSE rows[i].deletedAt
<1>1. at(r, "write")
  BY DEF Commits
<1>2. rows' = [i \in Ids |-> IF i = req[r].q.id THEN written(req[r].q, now)
                             ELSE IF i \in req[r].batch THEN tombstone(i, now) ELSE rows[i]]
  BY Zenon DEF Commits
<1> QED BY <1>1, <1>2, RowsAfterWrite

\* A committed write keeps types, parents and the indexes.
LEMMA CommitRows ==
  ASSUME CatalogIInv, NEW r \in Requests, NEW now \in 0 .. MaxTime, Commits(r, now)
  PROVE  CatalogTypeOK' /\ req' \in [Requests -> {Idle} \cup InHand] /\ RowsInv'
<1>1. PICK q : q = req[r].q
  OBVIOUS
<1>2. PICK new : new = written(q, now)
  OBVIOUS
<1>3. /\ wellFormed(q) /\ q.id \in Ids /\ q.kind \in Kinds /\ q.id \in idsOf(q.kind)
      /\ kindOf(q.id) = q.kind /\ req[r].pc # "idle"
  BY <1>1, HandFacts, KindOfIds DEF Commits, at
<1>4. /\ CatalogTypeOK /\ RowsInv /\ req \in [Requests -> {Idle} \cup InHand]
  BY DEF CatalogIInv
<1>5. PICK cell \in {Idle} \cup InHand :
        /\ req' = [req EXCEPT ![r] = cell]
        /\ auditLost' = auditLost /\ audit' = audit
        /\ unaudited \subseteq unaudited' /\ unaudited' \subseteq Ids
  BY <1>3, AnswerStep DEF Commits, Answers
<1>6. req' \in [Requests -> {Idle} \cup InHand]
  BY <1>4, <1>5
<1>7. /\ rows' \in [Ids -> Row] /\ rows'[q.id] = new /\ new.parent \in parentsOf(q.kind)
      /\ \A i \in Ids : i # q.id =>
           /\ rows'[i].exists = rows[i].exists /\ rows'[i].parent = rows[i].parent
           /\ rows'[i].key = rows[i].key
           /\ rows'[i].deletedAt = IF i \in req[r].batch THEN now ELSE rows[i].deletedAt
  BY <1>1, <1>2, CommitFrame
<1>8. \A i \in Ids : rows'[i].parent \in {None} \cup parentsOf(kindOf(i))
  BY <1>3, <1>4, <1>7 DEF CatalogTypeOK
<1>9. CatalogTypeOK'
  <2>1. \A s \in Requests : req'[s] = Idle \/ (req'[s].q \in Payload /\ req'[s].answer \in Answers)
    BY <1>6 DEF InHand
  <2>2. orders' \subseteq Branches \cup Tables /\ status' \in {"ACTIVE", "UNPAID"}
        /\ clock' \in 0 .. MaxTime /\ started' \in 0 .. MaxRequests
    BY <1>4 DEF CatalogTypeOK, Commits
  <2>3. audit' \cup unaudited' \subseteq Ids
    BY <1>4, <1>5 DEF CatalogTypeOK
  <2>4. overlapped' \in BOOLEAN /\ auditLost' \in BOOLEAN
    BY <1>4, <1>5 DEF CatalogTypeOK, Commits
  <2>5. blind' \in BOOLEAN /\ rebranched' \in BOOLEAN
    BY DEF Commits
  <2>6. rows' \in [Ids -> Row]
    BY <1>7
  <2> QED BY <1>8, <2>1, <2>2, <2>3, <2>4, <2>5, <2>6 DEF CatalogTypeOK
<1>10. \A i \in Ids : rows'[i].exists => rows'[i].parent \in parentsOf(kindOf(i))
  BY <1>3, <1>4, <1>7 DEF RowsInv
<1>11. \A i \in Ids : i # q.id /\ live(i)' => live(i)
  BY <1>7, CatalogAssumption DEF live
<1>12. q.kind \in {"table", "customer"} /\ live(q.id)' =>
         \A h \in idsOf(q.kind) : live(h) /\ rows[h].parent = new.parent /\ rows[h].key = new.key => h = q.id
  <2>1. ~collides(q.kind, q.id, new)
    BY <1>1, <1>2 DEF Commits, refuses
  <2> QED BY <1>7, <2>1 DEF collides, holders, liveIn, live
<1>13. ASSUME NEW k \in {"table", "customer"}, NEW i \in idsOf(k), NEW j \in idsOf(k),
              live(i)', live(j)', rows'[i].parent = rows'[j].parent, rows'[i].key = rows'[j].key
       PROVE  i = j
  <2>1. i \in Ids /\ j \in Ids /\ kindOf(i) = k /\ kindOf(j) = k
    BY KindOfIds DEF Kinds
  <2>2. CASE i # q.id /\ j # q.id
    BY <1>4, <1>7, <1>11, <1>13, <2>1, <2>2 DEF RowsInv
  <2>3. CASE i = q.id /\ j # q.id
    <3>1. k = q.kind /\ live(j) /\ rows[j].parent = new.parent /\ rows[j].key = new.key
      BY <1>3, <1>7, <1>11, <1>13, <2>1, <2>3
    <3> QED BY <1>12, <1>13, <2>3, <3>1
  <2>4. CASE j = q.id /\ i # q.id
    <3>1. k = q.kind /\ live(i) /\ rows[i].parent = new.parent /\ rows[i].key = new.key
      BY <1>3, <1>7, <1>11, <1>13, <2>1, <2>4
    <3> QED BY <1>12, <1>13, <2>4, <3>1
  <2> QED BY <2>2, <2>3, <2>4
<1>14. ForeignKeys'
  <2>1. ~dangles(new)
    BY <1>1, <1>2 DEF Commits, refuses
  <2>2. \A i \in Ids : rows[i].exists => rows'[i].exists
    <3>1. rows'[q.id].exists
      BY <1>1, CommitFrame
    <3> QED BY <1>7, <3>1
  <2>3. \A k \in Kinds : parentsOf(k) \subseteq Ids \cup {None}
    BY KindFacts DEF Kinds, Ids
  <2>4. ASSUME NEW i \in Ids, rows'[i].exists, rows'[i].parent # None
        PROVE  rows'[rows'[i].parent].exists
    <3>1. kindOf(i) \in Kinds
      BY KindOfIds
    <3>2. rows'[i].parent \in Ids
      BY <1>10, <2>3, <2>4, <3>1
    <3>3. CASE i = q.id
      BY <1>7, <2>1, <2>2, <2>4, <3>2, <3>3 DEF dangles
    <3>4. CASE i # q.id
      BY <1>4, <1>7, <2>2, <2>4, <3>2, <3>4 DEF RowsInv, ForeignKeys
    <3> QED BY <3>3, <3>4
  <2> QED BY <2>4 DEF ForeignKeys
<1>15. RowsInv'
  BY <1>10, <1>13, <1>14 DEF RowsInv
<1> QED BY <1>6, <1>9, <1>15

\* A committed write leaves the other requests where they are.
LEMMA CommitRequests ==
  ASSUME CatalogIInv, NEW r \in Requests, NEW now \in 0 .. MaxTime, Commits(r, now)
  PROVE  (\A s \in Requests : StepInv(s)') /\ FreshInv' /\ LoneInv'
<1>1. PICK q : q = req[r].q
  OBVIOUS
<1>2. q.id \in Ids /\ req[r].pc = "write" /\ busy(r)
  BY <1>1, HandFacts DEF Commits, at, busy
<1>3. /\ req \in [Requests -> {Idle} \cup InHand] /\ FreshInv /\ LoneInv
      /\ \A s \in Requests : StepInv(s)
  BY DEF CatalogIInv
<1>4. PICK cell \in {Idle} \cup InHand :
        req' = [req EXCEPT ![r] = cell] /\ cell.pc \in {"idle", "answered"}
  BY <1>2, AnswerStep DEF Commits, Answers
<1>5. req'[r] = cell /\ \A s \in Requests : s # r => req'[s] = req[s]
  BY <1>3, <1>4
<1>6. rows'[q.id].exists /\ \A i \in Ids : i # q.id => rows'[i].exists = rows[i].exists
  BY <1>1, CommitFrame
<1>7. ~busy(r)' /\ StepInv(r)' /\ ReadsHold(r)'
  BY <1>4, <1>5 DEF busy, StepInv, ReadsHold, at
<1>8. ASSUME NEW s \in Requests, s # r PROVE StepInv(s)'
  <2>1. req'[s] = req[s] /\ StepInv(s)
    BY <1>3, <1>5, <1>8
  <2>2. CASE busy(s)
    <3>1. req[s].q.id \in Ids
      BY <2>2, HandFacts DEF busy
    <3>2. rows'[req[s].q.id].exists <=> req[s].q.op # "create"
      <4>1. CASE req[s].q.id # q.id
        BY <1>6, <2>1, <2>2, <3>1, <4>1 DEF StepInv
      <4>2. CASE req[s].q.id = q.id
        <5>1. q.op # "create"
          BY <1>1, <1>2, <1>3, <1>8, <2>2, <4>2 DEF FreshInv
        <5>2. rows[q.id].exists
          BY <1>1, <1>2, <1>3, <5>1 DEF StepInv
        <5> QED BY <1>6, <2>1, <2>2, <4>2, <5>2 DEF StepInv
      <4> QED BY <4>1, <4>2
    <3> QED BY <2>1, <3>2 DEF StepInv, at, busy
  <2>3. CASE ~busy(s)
    BY <2>1, <2>3 DEF StepInv, at, busy
  <2> QED BY <2>2, <2>3
<1>9. FreshInv'
  BY <1>3, <1>5, <1>7 DEF FreshInv, busy
<1>10. LoneInv'
  <2> SUFFICES ASSUME ~overlapped PROVE \A s \in Requests : s # r => ~busy(s)' /\ ReadsHold(s)'
    BY <1>7 DEF LoneInv, Commits
  <2> SUFFICES ASSUME NEW s \in Requests, s # r PROVE ~busy(s)' /\ ReadsHold(s)'
    OBVIOUS
  <2>1. ~busy(s) /\ req'[s] = req[s]
    BY <1>2, <1>3, <1>5 DEF LoneInv
  <2> QED BY <2>1 DEF busy, ReadsHold, at
<1> QED BY <1>7, <1>8, <1>9, <1>10

\* The children of a row are the live rows below it.
LEMMA ChildrenFacts ==
  ASSUME CatalogTypeOK, RowsInv, NEW p \in Ids
  PROVE  /\ childrenOf(p) = {i \in Tables \cup Products : live(i) /\ rows[i].parent = p}
         /\ childrenOf(p) \subseteq Tables \cup Products
         /\ p \notin Branches \cup Categories => childrenOf(p) = {}
<1>0. None \notin Kinds /\ "table" \in Kinds /\ "product" \in Kinds
  BY CatalogAssumption DEF Kinds
<1>1. \A i \in Tables \cup Products : i \in Ids
  BY DEF Ids
<1>2. \A i \in Tables : rows[i].exists => rows[i].parent \in Branches
  BY <1>1, KindFacts DEF RowsInv
<1>3. \A i \in Products : rows[i].exists => rows[i].parent \in Categories
  BY <1>1, KindFacts DEF RowsInv
<1>4. CASE p \in Branches
  <2>1. childrenOf(p) = {i \in liveIn(Tables) : rows[i].parent = p}
    BY <1>0, <1>4, KindFacts, KindTable DEF childrenOf
  <2>2. \A i \in Products : live(i) => rows[i].parent # p
    BY <1>3, <1>4, KindFacts DEF live
  <2> QED BY <1>4, <2>1, <2>2 DEF liveIn
<1>5. CASE p \in Categories
  <2>1. childrenOf(p) = {i \in liveIn(Products) : rows[i].parent = p}
    BY <1>0, <1>5, KindFacts, KindTable DEF childrenOf
  <2>2. \A i \in Tables : live(i) => rows[i].parent # p
    BY <1>2, <1>5, KindFacts DEF live
  <2> QED BY <1>5, <2>1, <2>2 DEF liveIn
<1>6. CASE p \notin Branches \cup Categories
  <2>1. kindOf(p) \in Kinds \ {"branch", "category"}
    BY <1>6, KindOfIds, KindTable
  <2>2. childrenOf(p) = {}
    BY <2>1, KindTable DEF childrenOf
  <2>3. \A i \in Tables \cup Products : live(i) => rows[i].parent # p
    BY <1>2, <1>3, <1>6 DEF live
  <2> QED BY <1>6, <2>2, <2>3
<1> QED BY <1>4, <1>5, <1>6

\* What a request that runs alone may rely on when it writes.
LEMMA AloneFacts ==
  ASSUME CatalogIInv, NEW r \in Requests, NEW now \in 0 .. MaxTime, Commits(r, now), ~overlapped
  PROVE  /\ Decided(req[r].q)
         /\ req[r].batch = IF req[r].q.op = "delete" THEN childrenOf(req[r].q.id) ELSE {}
         /\ req[r].q.op = "create" /\ req[r].q.kind = "branch" => checkBranchLimit
         /\ rows[req[r].q.id].exists <=> req[r].q.op # "create"
         /\ wellFormed(req[r].q) /\ req[r].q.kind \in Kinds /\ req[r].q.op \in Ops
         /\ req[r].q.id \in idsOf(req[r].q.kind) /\ req[r].q.id \in Ids
<1>1. at(r, "write") /\ busy(r) /\ req[r].pc # "idle"
  BY DEF Commits, at, busy
<1>2. ReadsHold(r) /\ StepInv(r)
  BY DEF CatalogIInv, LoneInv
<1> QED BY <1>1, <1>2, HandFacts DEF ReadsHold, StepInv, guarded, at

\* Which rows a committed write leaves alive, when its request runs alone.
LEMMA AliveAfter ==
  ASSUME CatalogIInv, NEW r \in Requests, NEW now \in 0 .. MaxTime, Commits(r, now), ~overlapped
  PROVE  /\ rows'[req[r].q.id].exists
         /\ rows'[req[r].q.id].deletedAt = None <=> req[r].q.op # "delete"
         /\ \A i \in Ids : i # req[r].q.id => (live(i)' <=> live(i) /\ i \notin req[r].batch)
<1>1. PICK q : q = req[r].q
  OBVIOUS
<1>2. /\ rows'[q.id] = written(q, now) /\ rows'[q.id].exists
      /\ \A i \in Ids : i # q.id =>
           /\ rows'[i].exists = rows[i].exists
           /\ rows'[i].deletedAt = IF i \in req[r].batch THEN now ELSE rows[i].deletedAt
  BY <1>1, CommitFrame
<1>3. /\ Decided(q) /\ wellFormed(q) /\ q.op \in Ops /\ q.id \in Ids
      /\ rows[q.id].exists <=> q.op # "create"
  BY <1>1, AloneFacts
<1>4. CatalogTypeOK /\ RowsInv
  BY DEF CatalogIInv
<1>5. now # None
  BY CatalogAssumption
<1>6. \A i \in Ids : i # q.id => (live(i)' <=> live(i) /\ i \notin req[r].batch)
  BY <1>2, <1>5 DEF live
<1>7. ASSUME q.op = "create" PROVE rows'[q.id].deletedAt = None
  BY <1>2, <1>3, <1>4, <1>7, WrittenFacts DEF createdRow
<1>8. ASSUME q.op = "update" PROVE rows'[q.id].deletedAt = None
  <2>1. live(q.id)
    BY <1>3, <1>8 DEF Decided
  <2> QED BY <1>2, <1>3, <1>4, <1>8, <2>1, WrittenFacts DEF live
<1>9. ASSUME q.op = "delete" PROVE rows'[q.id].deletedAt = now
  BY <1>2, <1>3, <1>4, <1>9, WrittenFacts, TombstoneFacts
<1>10. ASSUME q.op = "restore" PROVE rows'[q.id].deletedAt = None
  BY <1>2, <1>3, <1>4, <1>10, WrittenFacts
<1>11. rows'[q.id].deletedAt = None <=> q.op # "delete"
  BY <1>3, <1>5, <1>7, <1>8, <1>9, <1>10 DEF Ops
<1> QED BY <1>1, <1>2, <1>6, <1>11

\* createTable, the restores and the cascades: below a deleted row nothing lives.
LEMMA CommitChildren ==
  ASSUME CatalogIInv, NEW r \in Requests, NEW now \in 0 .. MaxTime, Commits(r, now), ~overlapped, ~blind'
  PROVE  \A i \in Tables \cup Products : live(i)' => live(rows[i].parent)'
<1> SUFFICES ASSUME NEW i \in Tables \cup Products, live(i)' PROVE live(rows[i].parent)'
  OBVIOUS
<1>1. PICK q : q = req[r].q
  OBVIOUS
<1>2. PICK p : p = rows'[i].parent
  OBVIOUS
<1>3. /\ Decided(q) /\ wellFormed(q) /\ q.op \in Ops /\ q.id \in Ids /\ q.kind \in Kinds
      /\ q.id \in idsOf(q.kind) /\ kindOf(q.id) = q.kind
      /\ rows[q.id].exists <=> q.op # "create"
      /\ req[r].batch = IF q.op = "delete" THEN childrenOf(q.id) ELSE {}
  BY <1>1, AloneFacts, KindOfIds
<1>4. /\ CatalogTypeOK /\ RowsInv /\ ChildrenOfTheLiving /\ ~blind
  BY DEF CatalogIInv, Commits
<1>5. /\ rows'[q.id] = written(q, now)
      /\ \A j \in Ids : j # q.id => rows'[j].parent = rows[j].parent
  BY <1>1, CommitFrame
<1>6. /\ rows'[q.id].exists
      /\ rows'[q.id].deletedAt = None <=> q.op # "delete"
      /\ \A j \in Ids : j # q.id => (live(j)' <=> live(j) /\ j \notin req[r].batch)
  BY <1>1, AliveAfter
<1>7. i \in Ids
  BY DEF Ids
<1>8. childrenOf(q.id) = {j \in Tables \cup Products : live(j) /\ rows[j].parent = q.id}
  BY <1>3, <1>4, ChildrenFacts
<1>9. \A j \in Tables \cup Products : live(j) => live(rows[j].parent)
  BY <1>4 DEF ChildrenOfTheLiving, liveIn, Commits
<1>10. p \in Branches \cup Categories
  <2>1. RowsInv' /\ rows'[i].exists
    BY CommitRows DEF live
  <2>2. rows'[i].parent \in parentsOf(kindOf(i))
    BY <1>7, <2>1 DEF RowsInv
  <2> QED BY <1>2, <2>2, KindFacts
<1>11. p \in Ids /\ p \notin Tables \cup Products
  BY <1>10, KindFacts DEF Ids
<1>12. CASE i # q.id
  <2>1. live(i) /\ i \notin req[r].batch /\ p = rows[i].parent
    BY <1>2, <1>5, <1>6, <1>7, <1>12
  <2>2. live(p)
    BY <1>9, <2>1
  <2>3. CASE p # q.id
    <3>1. p \notin req[r].batch
      BY <1>3, <1>8, <1>11
    <3> QED BY <1>2, <1>6, <1>11, <2>2, <2>3, <3>1 DEF live
  <2>4. CASE p = q.id
    <3>1. q.op # "delete"
      BY <1>3, <1>8, <2>1, <2>4
    <3> QED BY <1>2, <1>6, <2>4, <3>1 DEF live
  <2> QED BY <2>3, <2>4
<1>13. CASE i = q.id
  <2>1. q.op # "delete" /\ q.kind \in {"table", "product"}
    BY <1>3, <1>6, <1>13, KindFacts DEF live
  <2>2. req[r].batch = {} /\ p # q.id
    BY <1>3, <1>11, <1>13, <2>1
  <2>3. live(p)
    <3>1. CASE q.op = "create"
      <4>1. p = q.parent
        BY <1>2, <1>3, <1>4, <1>5, <1>13, <3>1, WrittenFacts DEF createdRow
      <4>2. q.kind = "product" => live(q.parent)
        BY <1>1, <3>1 DEF Commits
      <4> QED BY <1>3, <2>1, <3>1, <4>1, <4>2 DEF Decided
    <3>2. CASE q.op = "update"
      <4>1. p = IF q.parent = None THEN rows[q.id].parent ELSE q.parent
        BY <1>2, <1>3, <1>4, <1>5, <1>13, <3>2, WrittenFacts
      <4>2. live(q.id) /\ (q.parent # None => live(q.parent))
        BY <1>3, <3>2 DEF Decided
      <4> QED BY <1>9, <1>13, <4>1, <4>2
    <3>3. CASE q.op = "restore"
      <4>1. p = rows[q.id].parent
        BY <1>2, <1>3, <1>4, <1>5, <1>13, <3>3, WrittenFacts
      <4> QED BY <1>3, <2>1, <3>3, <4>1 DEF Decided
    <3> QED BY <1>3, <2>1, <3>1, <3>2, <3>3 DEF Ops
  <2> QED BY <1>2, <1>6, <1>11, <2>2, <2>3 DEF live
<1> QED BY <1>12, <1>13

\* The guard has counted: one branch more is within the plan.
LEMMA CommitBranches ==
  ASSUME CatalogIInv, NEW r \in Requests, NEW now \in 0 .. MaxTime, Commits(r, now), ~overlapped,
         ~rebranched'
  PROVE  Cardinality(liveIn(Branches))' <= MaxBranches
<1>1. PICK q : q = req[r].q
  OBVIOUS
<1>2. /\ Decided(q) /\ q.op \in Ops /\ q.id \in Ids /\ q.kind \in Kinds
      /\ q.id \in idsOf(q.kind) /\ kindOf(q.id) = q.kind
      /\ q.op = "create" /\ q.kind = "branch" => checkBranchLimit
  BY <1>1, AloneFacts, KindOfIds
<1>3. Cardinality(liveIn(Branches)) <= MaxBranches
  BY DEF CatalogIInv, WithinBranchLimit, Commits
<1>4. \A j \in Ids : j # q.id => (live(j)' => live(j))
  BY <1>1, AliveAfter
<1>5. rows'[q.id].deletedAt = None <=> q.op # "delete"
  BY <1>1, AliveAfter
<1>6. liveIn(Branches) \subseteq Branches /\ liveIn(Branches)' \subseteq Branches
  BY DEF liveIn
<1>7. IsFiniteSet(liveIn(Branches)) /\ IsFiniteSet(liveIn(Branches)')
  BY <1>6, FS_Subset, CatalogAssumption
<1>8. MaxBranches \in Nat /\ Cardinality(liveIn(Branches)) \in Nat /\ Cardinality(liveIn(Branches)') \in Nat
  BY <1>7, FS_CardinalityType, CatalogAssumption
<1>9. \A i \in Branches : i \in Ids
  BY DEF Ids
<1>10. CASE q.op = "create" /\ q.kind = "branch"
  <2>1. liveIn(Branches)' \subseteq liveIn(Branches) \cup {q.id}
    BY <1>4, <1>9 DEF liveIn
  <2>2. Cardinality(liveIn(Branches)) + 1 <= MaxBranches
    BY <1>2, <1>8, <1>10 DEF checkBranchLimit
  <2>3. /\ IsFiniteSet(liveIn(Branches) \cup {q.id})
        /\ Cardinality(liveIn(Branches) \cup {q.id}) \in
             {Cardinality(liveIn(Branches)), Cardinality(liveIn(Branches)) + 1}
    BY <1>7, FS_AddElement
  <2>4. Cardinality(liveIn(Branches)') <= Cardinality(liveIn(Branches) \cup {q.id})
    BY <2>1, <2>3, FS_Subset
  <2> QED BY <1>8, <2>2, <2>3, <2>4
<1>11. CASE ~(q.op = "create" /\ q.kind = "branch")
  <2>1. q.id \in Branches /\ rows'[q.id].deletedAt = None => live(q.id)
    <3> SUFFICES ASSUME q.id \in Branches, rows'[q.id].deletedAt = None PROVE live(q.id)
      OBVIOUS
    <3>1. q.kind = "branch" /\ q.op # "delete"
      BY <1>2, <1>5, KindFacts
    <3>2. q.op # "restore"
      BY <1>1, <3>1 DEF Commits
    <3>3. q.op = "update"
      BY <1>2, <1>11, <3>1, <3>2 DEF Ops
    <3> QED BY <1>2, <3>3 DEF Decided
  <2>2. liveIn(Branches)' \subseteq liveIn(Branches)
    BY <1>4, <1>9, <2>1 DEF liveIn, live
  <2>3. Cardinality(liveIn(Branches)') <= Cardinality(liveIn(Branches))
    BY <1>7, <2>2, FS_Subset
  <2> QED BY <1>3, <1>8, <2>3
<1> QED BY <1>10, <1>11

\* deleteBranch and deleteTable: where an order is in progress nothing is deleted.
LEMMA CommitOrders ==
  ASSUME CatalogIInv, NEW r \in Requests, NEW now \in 0 .. MaxTime, Commits(r, now), ~overlapped
  PROVE  \A o \in orders : live(o)' /\ (o \in Tables => live(rows[o].parent)')
<1> SUFFICES ASSUME NEW o \in orders PROVE live(o)' /\ (o \in Tables => live(rows[o].parent)')
  OBVIOUS
<1>1. PICK q : q = req[r].q
  OBVIOUS
<1>3. /\ Decided(q) /\ wellFormed(q) /\ q.op \in Ops /\ q.id \in Ids /\ q.kind \in Kinds
      /\ q.id \in idsOf(q.kind) /\ kindOf(q.id) = q.kind
      /\ rows[q.id].exists <=> q.op # "create"
      /\ req[r].batch = IF q.op = "delete" THEN childrenOf(q.id) ELSE {}
  BY <1>1, AloneFacts, KindOfIds
<1>4. /\ CatalogTypeOK /\ RowsInv
  BY DEF CatalogIInv, Commits
<1>5. /\ rows'[q.id] = written(q, now)
      /\ \A j \in Ids : j # q.id => rows'[j].parent = rows[j].parent
  BY <1>1, CommitFrame
<1>6. /\ rows'[q.id].exists
      /\ rows'[q.id].deletedAt = None <=> q.op # "delete"
      /\ \A j \in Ids : j # q.id => (live(j)' <=> live(j) /\ j \notin req[r].batch)
  BY <1>1, AliveAfter
<1>7. o \in Branches \cup Tables /\ o \in Ids
  BY <1>4 DEF Ids, CatalogTypeOK
<1>8. childrenOf(q.id) = {j \in Tables \cup Products : live(j) /\ rows[j].parent = q.id}
  BY <1>3, <1>4, ChildrenFacts
<1>9. live(o) /\ (o \in Tables => live(rows[o].parent))
  BY DEF CatalogIInv, OrdersKeepTheirPlace, Commits
<1>10. o \in Tables => rows[o].parent \in Branches /\ rows[o].parent \in Ids
  BY <1>4, <1>7, <1>9, KindFacts DEF RowsInv, live, Ids
<1>11. q.op = "delete" => o # q.id /\ (o \in Tables => rows[o].parent # q.id)
  <2>1. q.op = "delete" /\ q.id \in Branches \cup Tables => activeOrdersAt(q.id) = {}
    BY <1>3, KindFacts DEF Decided
  <2> QED BY <1>7, <1>10, <2>1 DEF activeOrdersAt
<1>12. o \notin req[r].batch
  BY <1>3, <1>7, <1>8, <1>11, KindFacts
<1>13. live(o)'
  BY <1>6, <1>7, <1>9, <1>11, <1>12 DEF live
<1>14. ASSUME o \in Tables PROVE live(rows[o].parent)'
  <2>1. PICK p : p = rows[o].parent
    OBVIOUS
  <2>2. rows'[o].parent = p
    <3>1. CASE o # q.id
      BY <1>5, <1>7, <2>1, <3>1
    <3>2. CASE o = q.id
      <4>1. q.op \in {"update", "restore"} /\ q.kind = "table"
        BY <1>3, <1>9, <1>11, <1>14, <3>2, KindFacts DEF Ops, live
      <4>2. q.op = "update" => q.parent = None
        BY <1>3, <4>1 DEF wellFormed
      <4> QED BY <1>3, <1>4, <1>5, <2>1, <3>2, <4>1, <4>2, WrittenFacts
    <3> QED BY <3>1, <3>2
  <2>3. p \in Branches /\ p \in Ids /\ live(p) /\ (q.op = "delete" => p # q.id)
    BY <1>9, <1>10, <1>11, <1>14, <2>1
  <2>4. p \notin req[r].batch
    BY <1>3, <1>8, <2>3, KindFacts
  <2> QED BY <1>6, <2>2, <2>3, <2>4 DEF live
<1> QED BY <1>13, <1>14

\* The interceptor has the deletion to record: a cascade's children by their parent.
LEMMA CommitAudit ==
  ASSUME CatalogIInv, NEW r \in Requests, NEW now \in 0 .. MaxTime, Commits(r, now), ~overlapped,
         ~auditLost'
  PROVE  \A i \in Ids : rows'[i].exists /\ rows'[i].deletedAt # None =>
           {i, rows'[i].parent} \cap (audit' \cup unaudited') # {}
<1> SUFFICES ASSUME NEW i \in Ids, rows'[i].exists, rows'[i].deletedAt # None
             PROVE  {i, rows'[i].parent} \cap (audit' \cup unaudited') # {}
  OBVIOUS
<1>1. PICK q : q = req[r].q
  OBVIOUS
<1>2. /\ wellFormed(q) /\ q.id \in Ids /\ req[r].batch = IF q.op = "delete" THEN childrenOf(q.id) ELSE {}
  BY <1>1, AloneFacts
<1>3. /\ audit' = audit /\ unaudited' = unaudited \cup auditEntry(q, "ok") /\ ~auditLost
  BY <1>1 DEF Commits, answers
<1>4. q.op = "delete" => q.id \in unaudited'
  BY <1>3 DEF auditEntry
<1>5. CASE i = q.id
  <2>1. q.op = "delete"
    BY <1>1, <1>5, AliveAfter
  <2> QED BY <1>4, <1>5, <2>1
<1>6. CASE i # q.id
  <2>1. /\ rows'[i].parent = rows[i].parent /\ rows'[i].exists = rows[i].exists
        /\ rows'[i].deletedAt = IF i \in req[r].batch THEN now ELSE rows[i].deletedAt
    BY <1>1, <1>6, CommitFrame
  <2>2. CASE i \in req[r].batch
    <3>1. q.op = "delete" /\ i \in childrenOf(q.id)
      BY <1>2, <2>2
    <3>2. rows[i].parent = q.id
      BY <1>2, <3>1, ChildrenFacts DEF CatalogIInv
    <3> QED BY <1>4, <2>1, <3>1, <3>2
  <2>3. CASE i \notin req[r].batch
    <3>1. {i, rows[i].parent} \cap (audit \cup unaudited) # {}
      BY <1>3, <2>1, <2>3 DEF CatalogIInv, AuditInv
    <3> QED BY <1>3, <2>1, <3>1
  <2> QED BY <2>2, <2>3
<1> QED BY <1>5, <1>6

\* A committed write keeps every promise.
LEMMA CommitStep ==
  ASSUME CatalogIInv, NEW r \in Requests, NEW now \in 0 .. MaxTime, Commits(r, now)
  PROVE  CatalogIInv'
<1>1. CatalogTypeOK' /\ req' \in [Requests -> {Idle} \cup InHand] /\ RowsInv'
  BY CommitRows
<1>2. (\A s \in Requests : StepInv(s)') /\ FreshInv' /\ LoneInv'
  BY CommitRequests
<1>3. overlapped' = overlapped /\ orders' = orders /\ rawErrors' = rawErrors
  BY DEF Commits
<1>4. ChildrenOfTheLiving'
  BY <1>3, CommitChildren DEF ChildrenOfTheLiving, liveIn
<1>5. WithinBranchLimit'
  BY <1>3, CommitBranches DEF WithinBranchLimit
<1>6. ClashesAreAnswered'
  BY <1>3 DEF ClashesAreAnswered, CatalogIInv
<1>7. OrdersKeepTheirPlace'
  BY <1>3, CommitOrders DEF OrdersKeepTheirPlace
<1>8. AuditInv'
  BY <1>3, CommitAudit DEF AuditInv
<1> QED BY <1>1, <1>2, <1>4, <1>5, <1>6, <1>7, <1>8 DEF CatalogIInv

\* A write commits, or the indexes refuse it.
LEMMA WriteCases ==
  ASSUME CatalogIInv, NEW r \in Requests, Write(r)
  PROVE  \E now \in 0 .. MaxTime :
           \/ Commits(r, now)
           \/ /\ at(r, "write") /\ answers(r, "500") /\ rows' = rows
              /\ refuses(req[r].q, written(req[r].q, now))
              /\ UNCHANGED <<orders, status, clock, started, overlapped, blind, rebranched>>
              /\ rawErrors' = rawErrors \cup {[op |-> req[r].q.op, kind |-> req[r].q.kind]}
<1>1. PICK now : now = IF childKind(req[r].q.kind) = None THEN clock ELSE req[r].at
  OBVIOUS
<1>2. req[r] \in InHand
  BY HandFacts DEF Write, at
<1>3. now \in 0 .. MaxTime
  BY <1>1, <1>2 DEF InHand, CatalogIInv, CatalogTypeOK
<1>4. CASE refuses(req[r].q, written(req[r].q, now))
  BY <1>1, <1>3, <1>4 DEF Write
<1>5. CASE ~refuses(req[r].q, written(req[r].q, now))
  BY <1>1, <1>3, <1>5 DEF Write, Commits
<1> QED BY <1>4, <1>5

\* The database writes.
LEMMA WriteStep ==
  ASSUME CatalogIInv, NEW r \in Requests, Write(r)
  PROVE  CatalogIInv'
<1>1. PICK now \in 0 .. MaxTime :
           \/ Commits(r, now)
           \/ /\ at(r, "write") /\ answers(r, "500") /\ rows' = rows
              /\ refuses(req[r].q, written(req[r].q, now))
              /\ UNCHANGED <<orders, status, clock, started, overlapped, blind, rebranched>>
              /\ rawErrors' = rawErrors \cup {[op |-> req[r].q.op, kind |-> req[r].q.kind]}
  BY WriteCases
<1>2. CASE Commits(r, now)
  BY <1>2, CommitStep
<1>3. CASE ~Commits(r, now)
  <2>1. ~overlapped => req[r].q.op = "create" /\ req[r].q.kind \in {"table", "product"}
    BY <1>1, <1>3, NoClash
  <2> QED BY <1>1, <1>3, <2>1, RefusedStep
<1> QED BY <1>2, <1>3

\* Every step of the catalogue keeps the inductive invariant.
LEMMA CatalogNextIInv == CatalogIInv /\ [CatalogNext]_catalogVars => CatalogIInv'
<1> SUFFICES ASSUME CatalogIInv, [CatalogNext]_catalogVars PROVE CatalogIInv'
  OBVIOUS
<1>1. CASE \E r \in Requests, q \in Payload, awaited \in BOOLEAN : Start(r, q, awaited)
  BY <1>1, StartStep
<1>2. CASE Progress
  BY <1>2, GuardStep, ValidateStep, RecheckStep, BatchStep, WriteStep DEF Progress
<1>3. CASE \E r \in Requests : Finish(r) \/ Abandon(r)
  BY <1>3, CallerStep
<1>4. CASE \E o \in Branches \cup Tables : PlaceOrder(o)
  BY <1>4, PlaceOrderStep
<1>5. CASE Auditing \/ (\E o \in Branches \cup Tables : EndOrder(o)) \/ BillingChanges \/ Tick
  BY <1>5, WorldStep
<1>6. CASE UNCHANGED catalogVars
  <2>1. /\ rows' = rows /\ orders' = orders /\ status' = status /\ clock' = clock /\ req' = req
        /\ started' = started /\ audit' = audit /\ unaudited' = unaudited /\ auditLost' = auditLost
        /\ overlapped' = overlapped /\ blind' = blind /\ rebranched' = rebranched
        /\ rawErrors' = rawErrors
    BY <1>6 DEF catalogVars
  <2>2. /\ CatalogTypeOK /\ req \in [Requests -> {Idle} \cup InHand] /\ LoneInv
        /\ \A r \in Requests : StepInv(r)
    BY DEF CatalogIInv
  <2>3. CatalogTypeOK'
    BY <2>1, <2>2 DEF CatalogTypeOK
  <2>4. auditLost' \/ (~auditLost' /\ ~auditLost /\ audit \cup unaudited \subseteq audit' \cup unaudited')
    BY <2>1, <2>2 DEF CatalogTypeOK
  <2>5. ASSUME NEW r \in Requests
        PROVE  /\ busy(r)' => busy(r) /\ req'[r].q = req[r].q
               /\ StepInv(r)'
               /\ ~overlapped => ReadsHold(r)'
    <3>1. StepInv(r)'
      BY <2>1, <2>2 DEF StepInv, at, busy
    <3>2. ~overlapped => ReadsHold(r)'
      BY <2>1, <2>2, ReadsStand DEF LoneInv
    <3> QED BY <2>1, <3>1, <3>2 DEF busy
  <2> QED BY <2>1, <2>2, <2>3, <2>4, <2>5, QuietStep
<1> QED BY <1>1, <1>2, <1>3, <1>4, <1>5, <1>6 DEF CatalogNext, Guests

\* The invariant says what the catalogue promises.
LEMMA CatalogIInvInv == CatalogIInv => CatalogInv
<1> SUFFICES ASSUME CatalogIInv PROVE CatalogInv
  OBVIOUS
<1>1. MenuIsOrderable
  BY DEF MenuIsOrderable, publicMenu, orderable, tableResolves, liveIn
<1>2. DeletionsAreAudited
  BY DEF CatalogIInv, AuditInv, DeletionsAreAudited
<1> QED BY <1>1, <1>2 DEF CatalogIInv, CatalogInv

\* A write moves no tombstone while its request runs alone.
LEMMA TombstoneStep ==
  ASSUME CatalogIInv, [CatalogNext]_catalogVars, ~overlapped', NEW i \in Ids, rows[i].deletedAt # None
  PROVE  rows'[i].deletedAt \in {None, rows[i].deletedAt}
<1>1. CASE rows' = rows
  BY <1>1
<1>2. CASE rows' # rows
  <2>1. PICK r \in Requests : Write(r)
    BY <1>2 DEF CatalogNext, catalogVars, Progress, Guests, Start, Guard, Validate, Recheck, Batch,
       Finish, Abandon, Auditing, LogAudit, PlaceOrder, EndOrder, BillingChanges, Tick
  <2>2. PICK now \in 0 .. MaxTime : Commits(r, now)
    BY <1>2, <2>1, WriteCases
  <2>3. ~overlapped
    BY <2>2 DEF Commits
  <2>4. PICK q : q = req[r].q
    OBVIOUS
  <2>5. /\ Decided(q) /\ wellFormed(q) /\ q.op \in Ops /\ q.id \in Ids
        /\ rows[q.id].exists <=> q.op # "create"
        /\ req[r].batch = IF q.op = "delete" THEN childrenOf(q.id) ELSE {}
    BY <2>2, <2>3, <2>4, AloneFacts
  <2>6. CatalogTypeOK /\ RowsInv
    BY DEF CatalogIInv
  <2>7. CASE i = q.id
    BY <2>2, <2>3, <2>4, <2>5, <2>7, AliveAfter DEF Decided, live, Ops
  <2>8. CASE i # q.id
    <3>1. i \notin req[r].batch
      BY <2>5, <2>6, ChildrenFacts DEF live
    <3> QED BY <2>2, <2>4, <2>8, <3>1, CommitFrame
  <2> QED BY <2>7, <2>8
<1> QED BY <1>1, <1>2

-----------------------------------------------------------------------------
\* The services for branches, tables, categories, products and customers: whatever
\* requests, orders, lost records and billing interleave with, no living child is below
\* a deleted row, plan limits hold, clashes are answered by 409, orders keep their place,
\* the menu can be ordered from and deletions are audited, with the exceptions named.
THEOREM CatalogCorrect == CatalogSpec => []CatalogInv
<1>1. CatalogInit => CatalogIInv
  BY CatalogInitIInv
<1>2. CatalogIInv /\ [CatalogNext]_catalogVars => CatalogIInv'
  BY CatalogNextIInv
<1>3. CatalogIInv => CatalogInv
  BY CatalogIInvInv
<1> QED BY <1>1, <1>2, <1>3, PTL DEF CatalogSpec

\* softDelete and the cascades: until an overlap a tombstone is only ever cleared.
THEOREM TombstonesNeverMove == CatalogSpec => TombstonesStay
<1>1. CatalogInit => CatalogIInv
  BY CatalogInitIInv
<1>2. CatalogIInv /\ [CatalogNext]_catalogVars => CatalogIInv'
  BY CatalogNextIInv
<1>3. CatalogIInv /\ [CatalogNext]_catalogVars =>
        [~overlapped' => \A i \in Ids :
           rows[i].deletedAt # None => rows'[i].deletedAt \in {None, rows[i].deletedAt}]_rows
  BY TombstoneStep
<1> QED BY <1>1, <1>2, <1>3, PTL DEF CatalogSpec, TombstonesStay

-----------------------------------------------------------------------------
(* The screens of the back office *)

\* What the screens hold.
ScreenTypes ==
  /\ tab \in Kinds /\ invalid \subseteq Kinds
  /\ DOMAIN cache = Kinds /\ \A k \in Kinds : cache[k] \in [idsOf(k) -> Row]
  /\ form \in [mode : {"closed", "create", "edit"}, id : Ids \cup {None}, serial : 0 .. MaxForms,
               error : (0 .. MaxForms) \cup {None}, row : Row]
  /\ form.mode # "closed" => form.serial # 0
  /\ hook \in [Hooks -> Requests \cup {None}]
  /\ submitted \in 0 .. MaxForms /\ detached \subseteq Requests /\ target \in Ids \cup {None}
  /\ {escaped, answerLost, othersActed} \subseteq BOOLEAN

\* A request that a screen waits for is in hand, and no two wait for the same one.
HooksInv ==
  /\ \A h \in Hooks : hook[h] # None =>
       /\ hook[h] \notin detached
       /\ ~at(hook[h], "idle") /\ req[hook[h]].awaited
       /\ req[hook[h]].q.kind = tab
       /\ h = "archive" => req[hook[h]].q.op = "delete"
  /\ \A g, h \in Hooks : g # h /\ hook[g] # None => hook[g] # hook[h]
  /\ \A r \in detached : ~at(r, "idle") /\ req[r].awaited

\* Until a dialog is closed while it is saving, the form that is open is the one
\* submitted, and what it shows is its own failure.
DialogInv ==
  /\ ~escaped /\ hook["form"] # None => form.mode # "closed" /\ submitted = form.serial
  /\ form.error # None => escaped \/ form.error = form.serial

\* The rows and the requests there are of the forms opened so far.
SerialsInv ==
  /\ \A i \in Ids : rows[i].rev <= form.serial
  /\ \A r \in Requests : busy(r) /\ req[r].q.rev # None => req[r].q.rev <= form.serial

\* A form's submission is pending, or has made its row, never both; the row of a form
\* that is still open is the one whose confirmation is on its way.
savedAs(s) == {i \in Ids : rows[i].exists /\ rows[i].rev = s}
pendingFor(s) == {r \in Requests : busy(r) /\ req[r].q.rev = s}
OneRowInv ==
  ~answerLost =>
    /\ \A s \in 1 .. MaxForms :
         /\ \A i, j \in savedAs(s) : i = j
         /\ \A r \in pendingFor(s) : savedAs(s) = {} /\ pendingFor(s) = {r}
    /\ form.mode # "closed" =>
         /\ \A r \in pendingFor(form.serial) : hook["form"] = r
         /\ savedAs(form.serial) # {} =>
              /\ hook["form"] # None
              /\ at(hook["form"], "answered") /\ req[hook["form"]].answer = "ok"

\* As long as only this operator works and every answer arrives: whatever the screens
\* show of the products is current, stale and known to be, or about to be.
alone == ~othersActed /\ ~overlapped /\ ~answerLost
OwnInv == alone => \A r \in Requests : ~at(r, "idle") => r \in detached \/ \E h \in Hooks : hook[h] = r
newsOfProducts ==
  \E r \in Requests : /\ at(r, "answered") /\ req[r].answer = "ok"
                      /\ req[r].q.kind \in {"product", "category"}
CacheInv == alone => "product" \in invalid \/ newsOfProducts \/ cache["product"] \in snapshots("product")

\* What the dialog announced is what the cascade will find.
AnnouncedInv ==
  hook["archive"] # None /\ busy(hook["archive"]) /\ req[hook["archive"]].q.kind = "category"
    /\ notice.settled /\ alone
  => Cardinality(childrenOf(req[hook["archive"]].q.id)) = notice.count

\* The inductive invariant of the back office, on top of the catalogue's.
ScreensIInv ==
  /\ ScreenTypes
  /\ HooksInv
  /\ DialogInv
  /\ SerialsInv
  /\ OneRowInv
  /\ OwnInv
  /\ CacheInv
  /\ AnnouncedInv
  /\ filled \in Samples

-----------------------------------------------------------------------------
\* What a request that arrives changes.
LEMMA StartFrame ==
  ASSUME CatalogIInv, NEW r \in Requests, NEW q, NEW awaited \in BOOLEAN, Start(r, q, awaited)
  PROVE  /\ wellFormed(q) /\ q \in Payload /\ at(r, "idle") /\ ~busy(r)
         /\ req'[r].q = q /\ req'[r].awaited = awaited /\ req'[r].pc \in {"guard", "validate"}
         /\ \A s \in Requests : s # r => req'[s] = req[s]
         /\ rows' = rows
         /\ overlapped' \in BOOLEAN
         /\ ~overlapped' => ~overlapped /\ \A s \in Requests : ~busy(s)
<1>1. req \in [Requests -> {Idle} \cup InHand] /\ overlapped \in BOOLEAN
  BY DEF CatalogIInv, CatalogTypeOK
<1>2. PICK new : new = [pc |-> IF guarded(q) THEN "guard" ELSE "validate", q |-> q, at |-> 0,
                        batch |-> {}, answer |-> None, awaited |-> awaited]
  OBVIOUS
<1>3. req' = [req EXCEPT ![r] = new]
  BY <1>2 DEF Start
<1>4. req'[r] = new /\ \A s \in Requests : s # r => req'[s] = req[s]
  BY <1>1, <1>3
<1>5. wellFormed(q) /\ q \in Payload
  BY DEF Start, wellFormed
<1>6. at(r, "idle") /\ ~busy(r)
  BY DEF Start, at, busy
<1>7. rows' = rows /\ overlapped' \in BOOLEAN
  BY <1>1 DEF Start
<1>8. ~overlapped' => ~overlapped /\ \A s \in Requests : ~busy(s)
  BY <1>1 DEF Start
<1> QED BY <1>2, <1>4, <1>5, <1>6, <1>7, <1>8

\* What the end of a request changes.
LEMMA FinishFrame ==
  ASSUME CatalogIInv, NEW r \in Requests, Finish(r)
  PROVE  /\ at(r, "answered") /\ ~busy(r) /\ ~busy(r)' /\ at(r, "idle")'
         /\ \A s \in Requests : s # r => req'[s] = req[s]
         /\ rows' = rows /\ overlapped' = overlapped
BY DEF Finish, CatalogIInv, Idle, at, busy, historyUnchanged

\* What a step of the server changes: one busy request goes on, or is answered, or, if
\* nobody waits for it, is gone; and it may have written.
LEMMA ProgressFrame ==
  ASSUME CatalogIInv, Progress
  PROVE  \E r \in Requests :
           /\ busy(r)
           /\ \A s \in Requests : s # r => req'[s] = req[s]
           /\ req[r].awaited => req'[r].pc # "idle"
           /\ req'[r].pc # "idle" => req'[r].q = req[r].q /\ req'[r].awaited = req[r].awaited
           /\ overlapped' = overlapped
           /\ \/ rows' = rows
              \/ \E now \in 0 .. MaxTime : Commits(r, now)
<1>0. req \in [Requests -> {Idle} \cup InHand]
  BY DEF CatalogIInv
<1>1. PICK r \in Requests : Guard(r) \/ Validate(r) \/ Recheck(r) \/ Batch(r) \/ Write(r)
  BY DEF Progress
<1>2. busy(r) /\ req[r].pc # "idle" /\ req[r] \in InHand
  BY <1>1, HandFacts DEF Guard, Validate, Recheck, Batch, Write, at, busy
<1> DEFINE Moved(new) ==
      /\ req' = [req EXCEPT ![r] = new]
      /\ req[r].awaited => new.pc # "idle"
      /\ new.pc # "idle" => new.q = req[r].q /\ new.awaited = req[r].awaited
<1>3. ASSUME NEW a \in Answers, replies(r, a) PROVE \E new : Moved(new)
  <2>1. PICK new : new = IF req[r].awaited THEN [req[r] EXCEPT !.pc = "answered", !.answer = a] ELSE Idle
    OBVIOUS
  <2>2. req' = [req EXCEPT ![r] = new]
    BY <1>0, <2>1, <1>3 DEF replies
  <2>3. req[r].awaited => new.pc # "idle"
    BY <1>2, <2>1 DEF InHand
  <2>4. new.pc # "idle" => new.q = req[r].q /\ new.awaited = req[r].awaited
    BY <1>2, <2>1 DEF InHand, Idle
  <2> QED BY <2>2, <2>3, <2>4
<1>4. ASSUME NEW p \in {"validate", "recheck", "batch", "write"}, goes(r, p) PROVE \E new : Moved(new)
  <2>1. PICK new : new = [req[r] EXCEPT !.pc = p]
    OBVIOUS
  <2>2. req' = [req EXCEPT ![r] = new]
    BY <1>0, <1>4, <2>1 DEF goes
  <2>3. new.pc = p /\ new.q = req[r].q /\ new.awaited = req[r].awaited
    BY <1>2, <2>1 DEF InHand
  <2> QED BY <2>2, <2>3
<1>5. (\E new : Moved(new)) /\ overlapped' = overlapped
  <2>1. CASE Guard(r)
    BY <2>1, <1>3, <1>4 DEF Guard, Answers, historyUnchanged
  <2>2. CASE Validate(r)
    <3>1. overlapped' = overlapped
      BY <2>2 DEF Validate, historyUnchanged
    <3>2. CASE verdict(req[r].q) = "go"
      <4>1. PICK new : new = [req[r] EXCEPT !.pc = afterValidate(req[r].q), !.at = clock]
        OBVIOUS
      <4>2. req' = [req EXCEPT ![r] = new]
        BY <1>0, <2>2, <3>2, <4>1 DEF Validate
      <4>3. new.pc \in {"write", "batch", "recheck"}
        BY <1>2, <4>1 DEF afterValidate, InHand
      <4>4. new.q = req[r].q /\ new.awaited = req[r].awaited
        BY <1>2, <4>1 DEF InHand
      <4> QED BY <3>1, <4>2, <4>3, <4>4
    <3>3. CASE verdict(req[r].q) # "go"
      <4>1. verdict(req[r].q) \in Answers
        BY <1>2, <3>3, HandFacts, VerdictValues DEF Answers
      <4> QED BY <1>3, <2>2, <3>1, <3>3, <4>1 DEF Validate, answers
    <3> QED BY <3>2, <3>3
  <2>3. CASE Recheck(r)
    <3>1. overlapped' = overlapped
      BY <2>3 DEF Recheck, historyUnchanged
    <3>2. answers(r, "500") \/ answers(r, "ok") \/ goes(r, "write")
      BY <2>3 DEF Recheck
    <3> QED BY <1>3, <1>4, <3>1, <3>2 DEF answers, Answers
  <2>4. CASE Batch(r)
    <3>1. PICK new : new = [req[r] EXCEPT !.pc = "write", !.batch = childrenOf(req[r].q.id)]
      OBVIOUS
    <3>2. req' = [req EXCEPT ![r] = new] /\ overlapped' = overlapped
      BY <1>0, <2>4, <3>1 DEF Batch, historyUnchanged
    <3>3. new.pc = "write" /\ new.q = req[r].q /\ new.awaited = req[r].awaited
      BY <1>2, <3>1 DEF InHand
    <3> QED BY <3>2, <3>3
  <2>5. CASE Write(r)
    BY <2>5, <1>3, WriteCases DEF Commits, answers, Answers
  <2> QED BY <1>1, <2>1, <2>2, <2>3, <2>4, <2>5
<1>6. rows' = rows \/ \E now \in 0 .. MaxTime : Commits(r, now)
  BY <1>1, WriteCases DEF Guard, Validate, Recheck, Batch
<1>7. PICK new : Moved(new)
  BY <1>5
<1>8. req'[r] = new /\ \A s \in Requests : s # r => req'[s] = req[s]
  BY <1>0, <1>7
<1> QED BY <1>2, <1>5, <1>6, <1>7, <1>8

\* A request that has written is answered.
LEMMA CommitAnswers ==
  ASSUME CatalogIInv, NEW r \in Requests, NEW now \in 0 .. MaxTime, Commits(r, now)
  PROVE  /\ busy(r) /\ ~busy(r)'
         /\ req[r].awaited => at(r, "answered")' /\ req'[r].answer = "ok" /\ req'[r].q = req[r].q
<1>1. busy(r) /\ req[r].pc # "idle" /\ req \in [Requests -> {Idle} \cup InHand] /\ replies(r, "ok")
  BY DEF Commits, at, busy, CatalogIInv, answers
<1>2. req[r] \in InHand
  BY <1>1, HandFacts
<1>3. PICK new : new = IF req[r].awaited THEN [req[r] EXCEPT !.pc = "answered", !.answer = "ok"] ELSE Idle
  OBVIOUS
<1>4. req'[r] = new
  BY <1>1, <1>3 DEF replies
<1>5. new.pc \in {"answered", "idle"}
  BY <1>2, <1>3 DEF InHand, Idle
<1>6. req[r].awaited => new.pc = "answered" /\ new.answer = "ok" /\ new.q = req[r].q
  BY <1>2, <1>3 DEF InHand
<1> QED BY <1>1, <1>4, <1>5, <1>6 DEF at, busy

-----------------------------------------------------------------------------
\* The three histories, and the overlap, only ever become true.
LEMMA AloneBefore ==
  ASSUME ~overlapped' => ~overlapped, ~othersActed' => ~othersActed, ~answerLost' => ~answerLost
  PROVE  alone' => alone
BY DEF alone

\* The hooks keep what they wait for.
LEMMA HooksKept ==
  ASSUME ScreenTypes, HooksInv, UNCHANGED <<tab, hook>>, detached' \subseteq detached,
         \A r \in Requests : ~at(r, "idle") /\ req[r].awaited
                             /\ (r \in detached' \/ \E h \in Hooks : hook[h] = r)
           => req'[r].pc # "idle" /\ req'[r].awaited /\ req'[r].q = req[r].q
  PROVE  HooksInv'
<1>1. \A h \in Hooks : hook[h] # None => hook[h] \in Requests
  BY DEF ScreenTypes
<1>2. detached \subseteq Requests
  BY DEF ScreenTypes
<1>3. ASSUME NEW h \in Hooks, hook'[h] # None
      PROVE  /\ hook'[h] \notin detached'
             /\ req'[hook'[h]].pc # "idle" /\ req'[hook'[h]].awaited
             /\ req'[hook'[h]].q.kind = tab'
             /\ h = "archive" => req'[hook'[h]].q.op = "delete"
  <2>1. PICK r \in Requests : r = hook[h]
    BY <1>1, <1>3
  <2>2. /\ r \notin detached /\ ~at(r, "idle") /\ req[r].awaited /\ req[r].q.kind = tab
        /\ h = "archive" => req[r].q.op = "delete"
    BY <1>3, <2>1 DEF HooksInv
  <2>3. req'[r].pc # "idle" /\ req'[r].awaited /\ req'[r].q = req[r].q
    BY <2>1, <2>2
  <2> QED BY <2>1, <2>2, <2>3
<1>4. \A g, h \in Hooks : g # h /\ hook'[g] # None => hook'[g] # hook'[h]
  BY DEF HooksInv
<1>5. \A r \in detached' : req'[r].pc # "idle" /\ req'[r].awaited
  BY <1>2 DEF HooksInv
<1> QED BY <1>3, <1>4, <1>5 DEF HooksInv, at

\* A step that opens no form, submits none and writes nothing keeps the count of rows.
LEMMA OneRowKept ==
  ASSUME OneRowInv, ~answerLost' => ~answerLost, rows' = rows,
         \A s \in 1 .. MaxForms : pendingFor(s)' \subseteq pendingFor(s),
         form'.mode # "closed" =>
           /\ form.mode # "closed" /\ form'.serial = form.serial /\ form.serial \in 1 .. MaxForms
           /\ hook'["form"] = hook["form"]
           /\ hook["form"] # None /\ at(hook["form"], "answered") => req'[hook["form"]] = req[hook["form"]]
  PROVE  OneRowInv'
<1> SUFFICES ASSUME ~answerLost' PROVE OneRowInv'
  BY DEF OneRowInv
<1>0. \A s : savedAs(s)' = savedAs(s)
  BY DEF savedAs
<1>1. ~answerLost
  OBVIOUS
<1>2. ASSUME NEW s \in 1 .. MaxForms
      PROVE  /\ \A i, j \in savedAs(s)' : i = j
             /\ \A r \in pendingFor(s)' : savedAs(s)' = {} /\ pendingFor(s)' = {r}
  BY <1>0, <1>1 DEF OneRowInv
<1>3. ASSUME form'.mode # "closed"
      PROVE  /\ \A r \in pendingFor(form.serial)' : hook'["form"] = r
             /\ savedAs(form.serial)' # {} =>
                  /\ hook'["form"] # None
                  /\ req'[hook'["form"]].pc = "answered" /\ req'[hook'["form"]].answer = "ok"
  <2>1. PICK s \in 1 .. MaxForms : s = form.serial /\ s = form'.serial
    BY <1>3
  <2>2. \A r \in pendingFor(s)' : hook'["form"] = r
    BY <1>1, <1>3, <2>1 DEF OneRowInv
  <2>3. savedAs(s)' # {} => /\ hook["form"] # None
                            /\ at(hook["form"], "answered") /\ req[hook["form"]].answer = "ok"
    BY <1>0, <1>1, <1>3, <2>1 DEF OneRowInv
  <2>4. savedAs(s)' # {} => /\ hook'["form"] # None
                            /\ req'[hook'["form"]].pc = "answered" /\ req'[hook'["form"]].answer = "ok"
    BY <1>3, <2>3 DEF at
  <2>5. pendingFor(form.serial)' = pendingFor(s)' /\ savedAs(form.serial)' = savedAs(s)'
    BY <2>1 DEF pendingFor, savedAs
  <2> QED BY <2>2, <2>4, <2>5
<1> QED BY <1>2, <1>3 DEF OneRowInv, at

\* Rows and requests are of forms opened before.
LEMMA SerialsKept ==
  ASSUME SerialsInv, rows' = rows, form.serial \in Nat, form'.serial \in Nat,
         form.serial <= form'.serial, rows \in [Ids -> Row],
         \A r \in Requests : busy(r)' =>
           \/ busy(r) /\ req'[r].q = req[r].q /\ req[r].q \in Payload
           \/ req'[r].q.rev \in {None, 0, form'.serial}
  PROVE  SerialsInv'
<1>1. ASSUME NEW i \in Ids PROVE rows'[i].rev <= form'.serial
  <2>1. rows[i].rev \in Nat /\ rows[i].rev <= form.serial
    BY DEF SerialsInv, Row
  <2> QED BY <2>1
<1>2. ASSUME NEW r \in Requests, busy(r)', req'[r].q.rev # None
      PROVE  req'[r].q.rev <= form'.serial
  <2>1. CASE busy(r) /\ req'[r].q = req[r].q /\ req[r].q \in Payload
    <3>1. req[r].q.rev \in Nat /\ req[r].q.rev <= form.serial
      BY <1>2, <2>1 DEF SerialsInv, Payload
    <3> QED BY <2>1, <3>1
  <2>2. CASE req'[r].q.rev \in {None, 0, form'.serial}
    BY <1>2, <2>2
  <2> QED BY <1>2, <2>1, <2>2
<1> QED BY <1>1, <1>2 DEF SerialsInv

\* What a list can read stays so while no row changes.
LEMMA SameLists == ASSUME rows' = rows PROVE \A k : snapshots(k)' = snapshots(k)
<1>1. \A S : liveIn(S)' = liveIn(S)
  BY SameRows
<1> QED BY <1>1 DEF snapshots, page, reads

\* A list holds rows of its kind.
LEMMA ListTypes ==
  ASSUME rows \in [Ids -> Row], NEW k \in Kinds, NEW s \in snapshots(k)
  PROVE  s \in [idsOf(k) -> Row]
<1>1. idsOf(k) \subseteq Ids /\ NoRow \in Row
  BY KindOfIds, CatalogAssumption DEF NoRow, Row
<1>2. PICK active \in reads(liveIn(idsOf(k))), all \in reads({i \in idsOf(k) : rows[i].exists}) :
        s = page(k, active, all)
  <2>1. s \in snapshots(k)
    OBVIOUS
  <2> QED BY <2>1 DEF snapshots
<1> QED BY <1>1, <1>2 DEF page

\* What the screens know of the products stays so while no row changes.
LEMMA CacheKept ==
  ASSUME CacheInv, alone' => alone, rows' = rows, cache'["product"] = cache["product"],
         invalid \subseteq invalid',
         newsOfProducts => newsOfProducts' \/ "product" \in invalid'
  PROVE  CacheInv'
<1>1. snapshots("product")' = snapshots("product")
  BY SameLists
<1> QED BY <1>1 DEF CacheInv

\* So does what the dialog has announced.
LEMMA AnnouncedKept ==
  ASSUME AnnouncedInv, ScreenTypes, alone' => alone, rows' = rows, notice' = notice,
         hook'["archive"] # None => hook'["archive"] = hook["archive"],
         \A r \in Requests : hook["archive"] = r /\ busy(r)' => busy(r) /\ req'[r].q = req[r].q
  PROVE  AnnouncedInv'
<1> SUFFICES ASSUME hook'["archive"] # None, busy(hook["archive"])', (req[hook["archive"]].q.kind)' = "category",
                    notice'.settled, alone'
             PROVE  Cardinality(childrenOf(req[hook["archive"]].q.id)') = notice'.count
  BY DEF AnnouncedInv
<1>1. PICK r \in Requests : r = hook["archive"] /\ r = hook'["archive"]
  BY DEF ScreenTypes, Hooks
<1>2. busy(r)'
  BY <1>1 DEF busy
<1>3. busy(r) /\ req'[r].q = req[r].q
  BY <1>1, <1>2
<1>4. Cardinality(childrenOf(req[r].q.id)) = notice.count
  BY <1>1, <1>3 DEF AnnouncedInv
<1>5. PICK c : c = req[r].q.id
  OBVIOUS
<1>6. (req[hook["archive"]].q.id)' = c
  BY <1>1, <1>3, <1>5
<1>7. childrenOf(c)' = childrenOf(c)
  BY SameRows
<1>8. childrenOf(req[hook["archive"]].q.id)' = childrenOf(c)
  BY <1>6, <1>7 DEF childrenOf, liveIn, live
<1> QED BY <1>4, <1>5, <1>8

\* What holds of the server when a step is one of the screens alone.
LEMMA ServerSame ==
  ASSUME UNCHANGED catalogVars
  PROVE  /\ rows' = rows /\ req' = req /\ overlapped' = overlapped
         /\ \A r : (busy(r)' <=> busy(r)) /\ req'[r] = req[r]
         /\ \A s : pendingFor(s)' = pendingFor(s)
         /\ newsOfProducts' <=> newsOfProducts
<1>1. rows' = rows /\ req' = req /\ overlapped' = overlapped
  BY DEF catalogVars
<1> QED BY <1>1 DEF busy, pendingFor, newsOfProducts, at

\* The ranges of the counters.
LEMMA ScreenNumbers ==
  ASSUME ScreenTypes
  PROVE  /\ form.serial \in 0 .. MaxForms /\ form.serial \in Nat /\ submitted \in Nat /\ MaxForms \in Nat
         /\ form.mode # "closed" => form.serial \in 1 .. MaxForms
         /\ form.mode \in {"closed", "create", "edit"}
<1>1. form.serial \in 0 .. MaxForms /\ submitted \in 0 .. MaxForms /\ MaxForms \in Nat
  BY ScreenAssumption DEF ScreenTypes
<1>2. form.mode # "closed" => form.serial # 0
  BY DEF ScreenTypes
<1>3. form.mode \in {"closed", "create", "edit"}
  BY DEF ScreenTypes
<1> QED BY <1>1, <1>2, <1>3

\* A step of the screens alone that opens no form keeps what ties rows to forms, and
\* requests to screens.
LEMMA ScreenStep ==
  ASSUME CatalogIInv, ScreensIInv, UNCHANGED <<catalogVars, filled>>, ScreenTypes',
         answerLost' = answerLost, othersActed' = othersActed,
         form'.serial = form.serial, form'.mode = "closed" \/ form' = form,
         hook' = hook, detached' = detached, tab' = tab, notice' = notice
  PROVE  /\ HooksInv' /\ SerialsInv' /\ OneRowInv' /\ OwnInv' /\ AnnouncedInv' /\ filled' \in Samples
         /\ alone' => alone
<1> USE ServerSame
<1>0. /\ ScreenTypes /\ HooksInv /\ SerialsInv /\ OneRowInv /\ OwnInv /\ AnnouncedInv /\ filled \in Samples
      /\ rows \in [Ids -> Row]
  BY DEF ScreensIInv, CatalogIInv, CatalogTypeOK
<1>1. alone' => alone
  BY AloneBefore
<1>2. HooksInv'
  <2>1. \A r \in Requests : ~at(r, "idle") => req'[r].pc # "idle"
    BY DEF at
  <2>2. detached' \subseteq detached /\ UNCHANGED <<tab, hook>>
    OBVIOUS
  <2> QED BY <1>0, <2>1, <2>2, HooksKept
<1>3. SerialsInv'
  <2>1. \A r \in Requests : busy(r)' => busy(r) /\ req'[r].q = req[r].q /\ req[r].q \in Payload
    BY HandFacts DEF busy
  <2> QED BY <1>0, <2>1, SerialsKept, ScreenNumbers
<1>4. OneRowInv'
  BY <1>0, OneRowKept, ScreenNumbers
<1>5. OwnInv'
  BY <1>0, <1>1 DEF OwnInv, at
<1>6. AnnouncedInv'
  BY <1>0, <1>1, AnnouncedKept
<1> QED BY <1>0, <1>1, <1>2, <1>3, <1>4, <1>5, <1>6

\* useQuery reads the list again.
LEMMA FetchStep ==
  ASSUME CatalogIInv, ScreensIInv, NEW k \in Kinds, Fetch(k), filled' = filled
  PROVE  ScreensIInv'
<1> USE DEF historyKept
<1>0. ScreenTypes /\ CacheInv /\ DialogInv /\ rows \in [Ids -> Row]
  BY DEF ScreensIInv, CatalogIInv, CatalogTypeOK
<1>1. /\ UNCHANGED catalogVars /\ UNCHANGED <<tab, form, hook, submitted, detached, target, notice>>
      /\ UNCHANGED <<escaped, answerLost, othersActed>>
      /\ invalid' = invalid \ {k}
  BY DEF Fetch
<1>a. PICK s \in snapshots(k) : cache' = [cache EXCEPT ![k] = s]
  BY DEF Fetch
<1>2. ScreenTypes'
  <2>1. s \in [idsOf(k) -> Row]
    BY <1>0, ListTypes
  <2>2. DOMAIN cache' = Kinds /\ \A l \in Kinds : cache'[l] \in [idsOf(l) -> Row]
    BY <1>0, <1>a, <2>1 DEF ScreenTypes
  <2> QED BY <1>0, <1>1, <2>2 DEF ScreenTypes
<1>3. /\ HooksInv' /\ SerialsInv' /\ OneRowInv' /\ OwnInv' /\ AnnouncedInv' /\ filled' \in Samples
      /\ alone' => alone
  BY <1>1, <1>2, ScreenStep
<1>4. DialogInv'
  BY <1>0, <1>1 DEF DialogInv
<1>5. CacheInv'
  <2>1. /\ rows' = rows /\ newsOfProducts' = newsOfProducts
        /\ snapshots("product")' = snapshots("product")
    BY <1>1, ServerSame, SameLists DEF newsOfProducts, at
  <2>2. CASE k = "product"
    <3>1. cache'["product"] \in snapshots("product")
      BY <1>0, <1>a, <2>2 DEF ScreenTypes
    <3> QED BY <2>1, <3>1 DEF CacheInv
  <2>3. CASE k # "product"
    <3>1. cache'["product"] = cache["product"] /\ ("product" \in invalid => "product" \in invalid')
      BY <1>0, <1>1, <1>a, <2>3 DEF ScreenTypes
    <3> QED BY <1>0, <1>3, <2>1, <3>1 DEF CacheInv
  <2> QED BY <2>2, <2>3
<1> QED BY <1>2, <1>3, <1>4, <1>5 DEF ScreensIInv

\* Steps that change nothing but the dialogs: a form is closed, a deletion is asked for.
LEMMA DialogStep ==
  ASSUME CatalogIInv, ScreensIInv, filled' = filled,
         CloseForm \/ CancelArchive \/ \E i \in Ids : AskArchive(i)
  PROVE  ScreensIInv'
<1> USE DEF historyKept, navigationKept
<1>0. ScreenTypes /\ CacheInv /\ DialogInv
  BY DEF ScreensIInv
<1>1. /\ UNCHANGED catalogVars /\ UNCHANGED <<tab, cache, invalid, hook, submitted, detached, notice>>
      /\ UNCHANGED <<answerLost, othersActed>>
      /\ target' \in Ids \cup {None}
      /\ \/ form' = form /\ escaped' = escaped
         \/ form' = closedForm /\ escaped' = (escaped \/ hook["form"] # None)
  BY <1>0 DEF CloseForm, CancelArchive, AskArchive, ScreenTypes
<1>a. escaped \in BOOLEAN /\ escaped' \in BOOLEAN
  BY <1>0, <1>1 DEF ScreenTypes
<1>b. /\ closedForm \in [mode : {"closed", "create", "edit"}, id : Ids \cup {None}, serial : 0 .. MaxForms,
                         error : (0 .. MaxForms) \cup {None}, row : Row]
      /\ closedForm.mode = "closed" /\ closedForm.serial = form.serial /\ closedForm.error = None
  BY <1>0 DEF closedForm, Closed, ScreenTypes, Row, NoRow
<1>c. form'.serial = form.serial /\ (form'.mode = "closed" \/ form' = form)
  BY <1>1, <1>b
<1>2. ScreenTypes'
  BY <1>0, <1>1, <1>a, <1>b DEF ScreenTypes
<1>3. /\ HooksInv' /\ SerialsInv' /\ OneRowInv' /\ OwnInv' /\ AnnouncedInv' /\ filled' \in Samples
      /\ alone' => alone
  BY <1>1, <1>2, <1>c, ScreenStep
<1>4. DialogInv'
  <2>1. CASE form' = form /\ escaped' = escaped
    BY <1>0, <1>1, <2>1 DEF DialogInv
  <2>2. CASE form' = closedForm /\ escaped' = (escaped \/ hook["form"] # None)
    <3>1. form'.error = None /\ hook'["form"] = hook["form"] /\ (~escaped' => hook["form"] = None)
      BY <1>1, <1>b, <2>2
    <3> QED BY <3>1 DEF DialogInv
  <2> QED BY <1>1, <2>1, <2>2
<1>5. CacheInv'
  BY <1>0, <1>1, <1>3, ServerSame, CacheKept DEF ScreenTypes
<1> QED BY <1>2, <1>3, <1>4, <1>5 DEF ScreensIInv

\* Another screen mounts: its hooks wait for nothing, what was pending is detached.
LEMMA SwitchStep ==
  ASSUME CatalogIInv, ScreensIInv, NEW t \in Kinds, SwitchTab(t), filled' = filled
  PROVE  ScreensIInv'
<1> USE DEF historyKept
<1>0. /\ ScreenTypes /\ HooksInv /\ SerialsInv /\ OneRowInv /\ OwnInv /\ CacheInv /\ DialogInv
      /\ filled \in Samples /\ rows \in [Ids -> Row]
  BY DEF ScreensIInv, CatalogIInv, CatalogTypeOK
<1>1. /\ UNCHANGED catalogVars /\ UNCHANGED <<cache, invalid, form, target, notice>>
      /\ UNCHANGED <<escaped, answerLost, othersActed>>
      /\ tab' = t /\ hook' = [h \in Hooks |-> None] /\ submitted' = 0
      /\ detached' = detached \cup ({hook[h] : h \in Hooks} \ {None})
      /\ form.mode = "closed"
  BY DEF SwitchTab, noDialog
<1>2. ScreenTypes'
  BY <1>0, <1>1, ScreenNumbers DEF ScreenTypes
<1>3. alone' => alone
  BY <1>1, ServerSame, AloneBefore
<1>4. HooksInv'
  <2>1. \A r \in detached' : ~at(r, "idle") /\ req[r].awaited
    BY <1>0, <1>1 DEF HooksInv
  <2>2. \A r \in detached' : req'[r].pc # "idle" /\ req'[r].awaited
    BY <1>1, <2>1, ServerSame DEF at
  <2> QED BY <1>1, <2>2 DEF HooksInv, at
<1>5. SerialsInv'
  <2>1. \A r \in Requests : busy(r)' => busy(r) /\ req'[r].q = req[r].q /\ req[r].q \in Payload
    BY <1>1, ServerSame, HandFacts DEF busy
  <2> QED BY <1>0, <1>1, <2>1, ServerSame, SerialsKept, ScreenNumbers
<1>6. OneRowInv'
  BY <1>0, <1>1, ServerSame, OneRowKept, ScreenNumbers
<1>7. OwnInv'
  <2> SUFFICES ASSUME alone', NEW r \in Requests, req'[r].pc # "idle"
               PROVE  r \in detached'
    BY DEF OwnInv, at
  <2>1. ~at(r, "idle")
    BY <1>1, ServerSame DEF at
  <2>2. r # None
    BY ScreenAssumption
  <2> QED BY <1>0, <1>1, <1>3, <2>1, <2>2 DEF OwnInv
<1>8. CacheInv'
  BY <1>0, <1>1, <1>3, ServerSame, CacheKept
<1>9. DialogInv' /\ AnnouncedInv'
  BY <1>0, <1>1 DEF DialogInv, AnnouncedInv, Hooks
<1> QED BY <1>0, <1>1, <1>2, <1>4, <1>5, <1>6, <1>7, <1>8, <1>9 DEF ScreensIInv

\* A form is opened: it has a number that no row and no request has.
LEMMA OpenStep ==
  ASSUME CatalogIInv, ScreensIInv, filled' = filled,
         OpenCreate \/ \E i \in Ids : OpenEdit(i)
  PROVE  ScreensIInv'
<1> USE DEF historyKept, navigationKept
<1>0. /\ ScreenTypes /\ HooksInv /\ SerialsInv /\ OneRowInv /\ OwnInv /\ CacheInv /\ DialogInv
      /\ AnnouncedInv /\ filled \in Samples /\ rows \in [Ids -> Row]
  BY DEF ScreensIInv, CatalogIInv, CatalogTypeOK
<1>1. /\ UNCHANGED catalogVars
      /\ UNCHANGED <<tab, cache, invalid, hook, submitted, detached, target, notice>>
      /\ UNCHANGED <<escaped, answerLost, othersActed>>
      /\ form.mode = "closed" /\ form.serial < MaxForms
  BY DEF OpenCreate, OpenEdit, noDialog
<1>2. /\ form' \in [mode : {"closed", "create", "edit"}, id : Ids \cup {None}, serial : 0 .. MaxForms,
                   error : (0 .. MaxForms) \cup {None}, row : Row]
      /\ form'.serial = form.serial + 1 /\ form'.error = None
  <2>0. form.serial + 1 \in 0 .. MaxForms
    BY <1>0, <1>1, ScreenNumbers
  <2>1. CASE OpenCreate
    BY <2>0, <2>1 DEF OpenCreate, Closed, Row, NoRow
  <2>2. ASSUME NEW i \in Ids, OpenEdit(i)
        PROVE  /\ form' \in [mode : {"closed", "create", "edit"}, id : Ids \cup {None},
                             serial : 0 .. MaxForms, error : (0 .. MaxForms) \cup {None}, row : Row]
               /\ form'.serial = form.serial + 1 /\ form'.error = None
    <3>1. cache[tab] \in [idsOf(tab) -> Row] /\ i \in idsOf(tab)
      BY <1>0, <2>2 DEF OpenEdit, visible, listed, ScreenTypes
    <3>2. cache[tab][i] \in Row
      BY <3>1
    <3> QED BY <2>0, <2>2, <3>2 DEF OpenEdit, Closed
  <2> QED BY <2>1, <2>2
<1>3. ScreenTypes'
  BY <1>0, <1>1, <1>2, ScreenNumbers DEF ScreenTypes
<1>4. alone' => alone
  BY <1>1, ServerSame, AloneBefore
<1>5. HooksInv'
  <2>1. \A r \in Requests : ~at(r, "idle") => req'[r].pc # "idle"
    BY <1>1, ServerSame DEF at
  <2>2. detached' \subseteq detached /\ UNCHANGED <<tab, hook>>
    BY <1>1
  <2> QED BY <1>0, <1>1, <2>1, <2>2, ServerSame, HooksKept
<1>6. SerialsInv'
  <2>1. \A r \in Requests : busy(r)' => busy(r) /\ req'[r].q = req[r].q /\ req[r].q \in Payload
    BY <1>1, ServerSame, HandFacts DEF busy
  <2>2. form'.serial \in Nat /\ form.serial <= form'.serial
    BY <1>0, <1>2, ScreenNumbers
  <2> QED BY <1>0, <1>1, <2>1, <2>2, ServerSame, SerialsKept, ScreenNumbers
<1>7. OneRowInv'
  <2>1. PICK s \in 1 .. MaxForms : s = form'.serial
    BY <1>0, <1>1, <1>2, ScreenNumbers
  <2>2. savedAs(s) = {}
    <3> SUFFICES ASSUME NEW i \in Ids, rows[i].rev = s PROVE FALSE
      BY DEF savedAs
    <3>1. rows[i].rev <= form.serial
      BY <1>0 DEF SerialsInv
    <3> QED BY <1>0, <1>2, <2>1, <3>1, ScreenNumbers
  <2>3. pendingFor(s) = {}
    <3> SUFFICES ASSUME NEW r \in Requests, busy(r), req[r].q.rev = s PROVE FALSE
      BY DEF pendingFor
    <3>1. s # None
      BY CatalogAssumption
    <3>2. req[r].q.rev <= form.serial
      BY <1>0, <3>1 DEF SerialsInv
    <3> QED BY <1>0, <1>2, <2>1, <3>2, ScreenNumbers
  <2>4. \A x : savedAs(x)' = savedAs(x) /\ pendingFor(x)' = pendingFor(x)
    BY <1>1, ServerSame DEF savedAs
  <2>5. pendingFor(form.serial)' = pendingFor(s)' /\ savedAs(form.serial)' = savedAs(s)'
    BY <2>1 DEF pendingFor, savedAs
  <2> QED BY <1>0, <1>1, <2>2, <2>3, <2>4, <2>5 DEF OneRowInv
<1>8. OwnInv'
  BY <1>0, <1>1, <1>4, ServerSame DEF OwnInv, at
<1>9. CacheInv' /\ AnnouncedInv'
  BY <1>0, <1>1, <1>4, ServerSame, CacheKept, AnnouncedKept
<1>10. DialogInv'
  BY <1>0, <1>1, <1>2 DEF DialogInv
<1> QED BY <1>0, <1>1, <1>3, <1>5, <1>6, <1>7, <1>8, <1>9, <1>10 DEF ScreensIInv

-----------------------------------------------------------------------------
\* A request that arrives keeps what does not name it.
LEMMA ArrivalStep ==
  ASSUME CatalogIInv, ScreensIInv, NEW r \in Requests, NEW q, NEW awaited \in BOOLEAN,
         Start(r, q, awaited), q.rev \in {None, 0, form.serial},
         answerLost' = answerLost, ~othersActed' => ~othersActed,
         form'.serial = form.serial, cache' = cache, invalid' = invalid
  PROVE  /\ alone' => alone
         /\ \A h \in Hooks : hook[h] # r
         /\ r \notin detached
         /\ SerialsInv' /\ CacheInv'
         /\ \A s \in 1 .. MaxForms : savedAs(s)' = savedAs(s)
         /\ \A s \in 1 .. MaxForms : s # q.rev => pendingFor(s)' \subseteq pendingFor(s)
         /\ \A s \in 1 .. MaxForms : pendingFor(s)' \subseteq pendingFor(s) \cup {r}
<1>0. /\ ScreenTypes /\ HooksInv /\ SerialsInv /\ CacheInv /\ rows \in [Ids -> Row]
  BY DEF ScreensIInv, CatalogIInv, CatalogTypeOK
<1>1. /\ wellFormed(q) /\ q \in Payload /\ at(r, "idle") /\ ~busy(r)
      /\ req'[r].q = q /\ req'[r].awaited = awaited /\ req'[r].pc \in {"guard", "validate"}
      /\ \A s \in Requests : s # r => req'[s] = req[s]
      /\ rows' = rows /\ (~overlapped' => ~overlapped)
  BY StartFrame
<1>2. alone' => alone
  BY <1>1, AloneBefore
<1>3. (\A h \in Hooks : hook[h] # r) /\ r \notin detached
  BY <1>0, <1>1, ScreenAssumption DEF HooksInv
<1>4. SerialsInv'
  <2>1. ASSUME NEW x \in Requests, busy(x)'
        PROVE  \/ busy(x) /\ req'[x].q = req[x].q /\ req[x].q \in Payload
               \/ req'[x].q.rev \in {None, 0, form'.serial}
    <3>1. CASE x = r
      BY <1>1, <3>1
    <3>2. CASE x # r
      <4>1. busy(x) /\ req'[x].q = req[x].q
        BY <1>1, <2>1, <3>2 DEF busy
      <4>2. req[x].q \in Payload
        BY <4>1, HandFacts DEF busy
      <4> QED BY <4>1, <4>2
    <3> QED BY <3>1, <3>2
  <2> QED BY <1>0, <1>1, <2>1, SerialsKept, ScreenNumbers
<1>5. CacheInv'
  <2>1. newsOfProducts => newsOfProducts'
    BY <1>1 DEF newsOfProducts, at
  <2> QED BY <1>0, <1>1, <1>2, <2>1, CacheKept
<1>6. \A s \in 1 .. MaxForms : savedAs(s)' = savedAs(s)
  BY <1>1 DEF savedAs
<1>7. ASSUME NEW s \in 1 .. MaxForms, NEW x \in pendingFor(s)'
      PROVE  x \in pendingFor(s) \/ (x = r /\ s = q.rev)
  <2>1. x \in Requests /\ busy(x)' /\ req'[x].q.rev = s
    BY DEF pendingFor
  <2>2. CASE x = r
    BY <1>1, <2>1, <2>2
  <2>3. CASE x # r
    BY <1>1, <2>1, <2>3 DEF pendingFor, busy
  <2> QED BY <2>2, <2>3
<1> QED BY <1>2, <1>3, <1>4, <1>5, <1>6, <1>7

\* The hook that waits for the request that arrives.
LEMMA HookTaken ==
  ASSUME CatalogIInv, ScreensIInv, NEW r \in Requests, NEW q, Start(r, q, TRUE), NEW g \in Hooks,
         q.kind = tab, g = "archive" => q.op = "delete",
         hook' = [hook EXCEPT ![g] = r], tab' = tab, detached' = detached, othersActed' = othersActed,
         \A h \in Hooks : hook[h] # r, r \notin detached, alone' => alone, hook[g] = None
  PROVE  HooksInv' /\ OwnInv' /\ hook' \in [Hooks -> Requests \cup {None}]
<1>0. ScreenTypes /\ HooksInv /\ OwnInv
  BY DEF ScreensIInv
<1>1. /\ at(r, "idle") /\ req'[r].q = q /\ req'[r].awaited /\ req'[r].pc \in {"guard", "validate"}
      /\ \A s \in Requests : s # r => req'[s] = req[s]
  BY StartFrame
<1>2. hook' \in [Hooks -> Requests \cup {None}] /\ hook'[g] = r /\ \A h \in Hooks : h # g => hook'[h] = hook[h]
  BY <1>0 DEF ScreenTypes
<1>3. ASSUME NEW h \in Hooks, hook'[h] # None
      PROVE  /\ hook'[h] \notin detached'
             /\ req'[hook'[h]].pc # "idle" /\ req'[hook'[h]].awaited
             /\ req'[hook'[h]].q.kind = tab'
             /\ h = "archive" => req'[hook'[h]].q.op = "delete"
  <2>1. CASE h = g
    BY <1>1, <1>2, <2>1
  <2>2. CASE h # g
    <3>1. PICK x \in Requests : x = hook[h] /\ x = hook'[h] /\ x # r
      BY <1>2, <1>3, <2>2
    <3>2. /\ x \notin detached /\ ~at(x, "idle") /\ req[x].awaited /\ req[x].q.kind = tab
          /\ h = "archive" => req[x].q.op = "delete"
      BY <1>0, <1>3, <3>1 DEF HooksInv
    <3> QED BY <1>1, <3>1, <3>2 DEF at
  <2> QED BY <2>1, <2>2
<1>4. \A k, h \in Hooks : k # h /\ hook'[k] # None => hook'[k] # hook'[h]
  BY <1>0, <1>2 DEF HooksInv
<1>5. \A x \in detached' : req'[x].pc # "idle" /\ req'[x].awaited
  BY <1>0, <1>1 DEF HooksInv, at, ScreenTypes
<1>6. HooksInv'
  BY <1>3, <1>4, <1>5 DEF HooksInv, at
<1>7. OwnInv'
  <2> SUFFICES ASSUME alone', NEW x \in Requests, req'[x].pc # "idle"
               PROVE  x \in detached' \/ \E h \in Hooks : hook'[h] = x
    BY DEF OwnInv, at
  <2>1. CASE x = r
    BY <1>2, <2>1
  <2>2. CASE x # r
    <3>1. ~at(x, "idle") /\ alone /\ x # None
      BY <1>1, <2>2, ScreenAssumption DEF at
    <3>2. x \in detached \/ \E h \in Hooks : hook[h] = x
      BY <1>0, <3>1 DEF OwnInv
    <3> QED BY <1>2, <3>1, <3>2
  <2> QED BY <2>1, <2>2
<1> QED BY <1>2, <1>6, <1>7

\* submitForm: the form's number is on nothing else, and its hook waits for it.
LEMMA SubmitStep ==
  ASSUME CatalogIInv, ScreensIInv, NEW r \in Requests, NEW q \in bodies, SubmitForm(r, q), filled' = filled
  PROVE  ScreensIInv'
<1> USE DEF historyKept, navigationKept
<1>0. /\ ScreenTypes /\ HooksInv /\ SerialsInv /\ OneRowInv /\ OwnInv /\ CacheInv /\ DialogInv
      /\ AnnouncedInv /\ filled \in Samples /\ rows \in [Ids -> Row]
  BY DEF ScreensIInv, CatalogIInv, CatalogTypeOK
<1>1. /\ Start(r, q, TRUE) /\ form.mode # "closed" /\ hook["form"] = None
      /\ form' = [form EXCEPT !.error = None]
      /\ hook' = [hook EXCEPT !["form"] = r] /\ submitted' = form.serial
      /\ UNCHANGED <<tab, cache, invalid, detached, target, notice>>
      /\ UNCHANGED <<escaped, answerLost, othersActed>>
  BY DEF SubmitForm, mutationBusy
<1>2. q.kind = tab /\ q.rev = form.serial
  <2>1. CASE form.mode = "create"
    BY <2>1 DEF bodies
  <2>2. CASE form.mode # "create"
    BY <2>2 DEF bodies
  <2> QED BY <2>1, <2>2
<1>3. /\ form' \in [mode : {"closed", "create", "edit"}, id : Ids \cup {None}, serial : 0 .. MaxForms,
                    error : (0 .. MaxForms) \cup {None}, row : Row]
      /\ form'.serial = form.serial /\ form'.mode = form.mode /\ form'.error = None
  BY <1>0, <1>1 DEF ScreenTypes
<1>4. PICK n \in 1 .. MaxForms : n = form.serial
  BY <1>0, <1>1, ScreenNumbers
<1>5. /\ alone' => alone
      /\ \A h \in Hooks : hook[h] # r
      /\ r \notin detached
      /\ SerialsInv' /\ CacheInv'
      /\ \A s \in 1 .. MaxForms : savedAs(s)' = savedAs(s)
      /\ \A s \in 1 .. MaxForms : s # q.rev => pendingFor(s)' \subseteq pendingFor(s)
      /\ \A s \in 1 .. MaxForms : pendingFor(s)' \subseteq pendingFor(s) \cup {r}
  BY <1>1, <1>2, <1>3, ArrivalStep
<1>6. HooksInv' /\ OwnInv' /\ hook' \in [Hooks -> Requests \cup {None}]
  <2>1. "form" \in Hooks /\ "form" # "archive"
    BY DEF Hooks
  <2> QED BY <1>1, <1>2, <1>5, <2>1, HookTaken
<1>7. ScreenTypes'
  BY <1>0, <1>1, <1>3, <1>6, ScreenNumbers DEF ScreenTypes
<1>a. hook'["form"] = r /\ hook'["archive"] = hook["archive"]
  BY <1>0, <1>1 DEF ScreenTypes, Hooks
<1>8. OneRowInv'
  <2> SUFFICES ASSUME ~answerLost PROVE OneRowInv'
    BY <1>1 DEF OneRowInv
  <2>1. savedAs(n) = {} /\ pendingFor(n) = {}
    <3>1. hook["form"] \notin Requests
      BY <1>1, ScreenAssumption
    <3>2. \A x \in pendingFor(form.serial) : hook["form"] = x
      BY <1>0, <1>1 DEF OneRowInv
    <3>3. pendingFor(form.serial) \subseteq Requests
      BY DEF pendingFor
    <3>4. savedAs(form.serial) = {}
      BY <1>0, <1>1 DEF OneRowInv
    <3> QED BY <1>4, <3>1, <3>2, <3>3, <3>4
  <2>2. savedAs(n)' = {} /\ pendingFor(n)' \subseteq {r}
    BY <1>5, <2>1
  <2>3. ASSUME NEW s \in 1 .. MaxForms
        PROVE  /\ \A i, j \in savedAs(s)' : i = j
               /\ \A x \in pendingFor(s)' : savedAs(s)' = {} /\ pendingFor(s)' = {x}
    <3>1. CASE s = n
      BY <2>2, <3>1
    <3>2. CASE s # n
      <4>1. savedAs(s)' = savedAs(s) /\ pendingFor(s)' \subseteq pendingFor(s)
        BY <1>2, <1>4, <1>5, <3>2
      <4> QED BY <1>0, <4>1 DEF OneRowInv
    <3> QED BY <3>1, <3>2
  <2>4. pendingFor(form.serial)' = pendingFor(n)' /\ savedAs(form.serial)' = savedAs(n)'
    BY <1>3, <1>4 DEF pendingFor, savedAs
  <2> QED BY <1>a, <2>2, <2>3, <2>4 DEF OneRowInv
<1>9. DialogInv'
  BY <1>1, <1>3 DEF DialogInv
<1>10. AnnouncedInv'
  <2>1. \A x \in Requests : hook["archive"] = x /\ busy(x)' => busy(x) /\ req'[x].q = req[x].q
    BY <1>1, <1>5, StartFrame DEF Hooks, busy
  <2> QED BY <1>0, <1>1, <1>5, <1>a, <2>1, StartFrame, AnnouncedKept
<1> QED BY <1>0, <1>1, <1>5, <1>6, <1>7, <1>8, <1>9, <1>10 DEF ScreensIInv

\* A request of the operator's that comes from no form.
LEMMA PlainRequest ==
  ASSUME CatalogIInv, ScreensIInv, NEW r \in Requests, NEW q, Start(r, q, TRUE), filled' = filled,
         NEW g \in Hooks \ {"form"}, q.kind = tab, q.rev = None, g = "archive" => q.op = "delete",
         hook[g] = None, hook' = [hook EXCEPT ![g] = r],
         UNCHANGED <<tab, cache, invalid, detached, target, form, submitted>>,
         UNCHANGED <<escaped, answerLost, othersActed>>
  PROVE  /\ ScreenTypes' /\ HooksInv' /\ SerialsInv' /\ OneRowInv' /\ OwnInv' /\ CacheInv' /\ DialogInv'
         /\ filled' \in Samples /\ (alone' => alone) /\ hook'[g] = r
         /\ \A h \in Hooks : h # g => hook'[h] = hook[h]
         /\ \A h \in Hooks : hook[h] # r
<1>0. /\ ScreenTypes /\ HooksInv /\ SerialsInv /\ OneRowInv /\ OwnInv /\ CacheInv /\ DialogInv
      /\ filled \in Samples /\ rows \in [Ids -> Row]
  BY DEF ScreensIInv, CatalogIInv, CatalogTypeOK
<1>1. /\ alone' => alone
      /\ \A h \in Hooks : hook[h] # r
      /\ r \notin detached
      /\ SerialsInv' /\ CacheInv'
      /\ \A s \in 1 .. MaxForms : s # q.rev => pendingFor(s)' \subseteq pendingFor(s)
  BY ArrivalStep
<1>2. HooksInv' /\ OwnInv' /\ hook' \in [Hooks -> Requests \cup {None}]
  BY <1>1, HookTaken
<1>3. ScreenTypes'
  BY <1>0, <1>2 DEF ScreenTypes
<1>4. hook'[g] = r /\ \A h \in Hooks : h # g => hook'[h] = hook[h]
  BY <1>0 DEF ScreenTypes
<1>5. hook'["form"] = hook["form"]
  BY <1>4 DEF Hooks
<1>6. OneRowInv'
  <2>1. \A s \in 1 .. MaxForms : pendingFor(s)' \subseteq pendingFor(s)
    BY <1>1, CatalogAssumption
  <2>2. form.mode # "closed" => form.serial \in 1 .. MaxForms
    BY <1>0, ScreenNumbers
  <2>3. hook["form"] # None => req'[hook["form"]] = req[hook["form"]]
    <3>1. "form" \in Hooks
      BY DEF Hooks
    <3>2. hook["form"] # None => hook["form"] \in Requests /\ hook["form"] # r
      BY <1>0, <1>1, <3>1 DEF ScreenTypes
    <3> QED BY <3>2, StartFrame
  <2>4. rows' = rows
    BY StartFrame
  <2> QED BY <1>0, <1>5, <2>1, <2>2, <2>3, <2>4, OneRowKept
<1>7. DialogInv'
  BY <1>0, <1>5 DEF DialogInv
<1> QED BY <1>0, <1>1, <1>2, <1>3, <1>4, <1>6, <1>7

\* The restore and toggle buttons.
LEMMA ButtonStep ==
  ASSUME CatalogIInv, ScreensIInv, NEW r \in Requests, NEW i \in Ids, filled' = filled,
         RestoreRow(r, i) \/ ToggleRow(r, i)
  PROVE  ScreensIInv'
<1> USE DEF historyKept, navigationKept
<1>0. ScreenTypes /\ HooksInv /\ AnnouncedInv
  BY DEF ScreensIInv
<1>1. PICK q \in Payload, g \in {"restore", "toggle"} :
        /\ Start(r, q, TRUE) /\ q.kind = tab /\ q.rev = None
        /\ hook[g] = None /\ hook' = [hook EXCEPT ![g] = r]
        /\ UNCHANGED <<tab, cache, invalid, detached, target, form, submitted>>
        /\ UNCHANGED <<escaped, answerLost, othersActed>> /\ notice' = notice
  <2>1. CASE RestoreRow(r, i)
    <3>1. PICK q : q = [op |-> "restore", kind |-> tab, id |-> i, parent |-> None, key |-> None,
                        active |-> None, rev |-> None]
      OBVIOUS
    <3>2. Start(r, q, TRUE)
      BY <2>1, <3>1 DEF RestoreRow
    <3>3. q.kind = tab /\ q.rev = None
      BY <3>1
    <3>4. /\ hook["restore"] = None /\ hook' = [hook EXCEPT !["restore"] = r]
          /\ UNCHANGED <<tab, cache, invalid, detached, target, form, submitted>>
          /\ UNCHANGED <<escaped, answerLost, othersActed>> /\ notice' = notice
      BY <2>1 DEF RestoreRow
    <3>5. q \in Payload
      BY <3>2, StartFrame
    <3> QED BY <3>2, <3>3, <3>4, <3>5
  <2>2. CASE ToggleRow(r, i)
    <3>1. PICK q : q = [op |-> "update", kind |-> tab, id |-> i, parent |-> None, key |-> None,
                        active |-> ~cache[tab][i].active, rev |-> None]
      OBVIOUS
    <3>2. Start(r, q, TRUE)
      BY <2>2, <3>1 DEF ToggleRow
    <3>3. q.kind = tab /\ q.rev = None
      BY <3>1
    <3>4. /\ hook["toggle"] = None /\ hook' = [hook EXCEPT !["toggle"] = r]
          /\ UNCHANGED <<tab, cache, invalid, detached, target, form, submitted>>
          /\ UNCHANGED <<escaped, answerLost, othersActed>> /\ notice' = notice
      BY <2>2 DEF ToggleRow
    <3>5. q \in Payload
      BY <3>2, StartFrame
    <3> QED BY <3>2, <3>3, <3>4, <3>5
  <2> QED BY <2>1, <2>2
<1>2. g \in Hooks \ {"form"} /\ g # "archive"
  BY DEF Hooks
<1>3. /\ ScreenTypes' /\ HooksInv' /\ SerialsInv' /\ OneRowInv' /\ OwnInv' /\ CacheInv' /\ DialogInv'
      /\ filled' \in Samples /\ (alone' => alone) /\ hook'[g] = r
      /\ \A h \in Hooks : h # g => hook'[h] = hook[h]
      /\ \A h \in Hooks : hook[h] # r
  BY <1>1, <1>2, PlainRequest
<1>4. AnnouncedInv'
  <2>1. \A x \in Requests : hook["archive"] = x /\ busy(x)' => busy(x) /\ req'[x].q = req[x].q
    BY <1>1, <1>3, StartFrame DEF Hooks, busy
  <2>2. hook'["archive"] = hook["archive"]
    BY <1>2, <1>3 DEF Hooks
  <2> QED BY <1>0, <1>1, <1>3, <2>1, <2>2, StartFrame, AnnouncedKept
<1> QED BY <1>3, <1>4 DEF ScreensIInv

\* What the archive dialog of a category counts, when the list it counts in is current
\* and whole,
\* is what the cascade would find now.
LEMMA CountIsExact ==
  ASSUME CatalogIInv, NEW c \in Categories, cache["product"] \in snapshots("product"),
         Cardinality(liveIn(Products)) <= MaxListed
  PROVE  productCounts(c) = Cardinality(childrenOf(c))
<1>0. CatalogTypeOK /\ RowsInv /\ c \in Ids
  BY DEF CatalogIInv, Ids
<1>1. idsOf("product") = Products /\ Products \subseteq Ids
  BY KindTable DEF Ids
<1>2. PICK dead \in SUBSET Products :
        /\ cache["product"] = [i \in Products |->
             IF i \in liveIn(Products) \cup (dead \ liveIn(dead)) THEN rows[i] ELSE NoRow]
  <2>1. PICK active \in reads(liveIn(Products)), dead \in reads({i \in Products : rows[i].exists}) :
          cache["product"] = [i \in Products |->
             IF i \in active \cup (dead \ liveIn(dead)) THEN rows[i] ELSE NoRow]
    BY <1>1 DEF snapshots, page
  <2>2. active = liveIn(Products) /\ dead \in SUBSET Products
    BY DEF reads
  <2> QED BY <2>1, <2>2
<1>3. {p \in listed("product") : cache["product"][p].parent = c /\ cache["product"][p].deletedAt = None}
        = {p \in Products : live(p) /\ rows[p].parent = c}
  <2>1. \A p \in Products : p \in dead \ liveIn(dead) => ~live(p)
    BY DEF liveIn
  <2>2. \A p \in Products :
          live(p) <=> cache["product"][p].exists /\ cache["product"][p].deletedAt = None
    BY <1>2, <2>1 DEF liveIn, live, NoRow
  <2>3. \A p \in Products : live(p) => cache["product"][p] = rows[p]
    BY <1>2 DEF liveIn
  <2> QED BY <1>1, <2>2, <2>3 DEF listed
<1>4. \A p \in Tables : live(p) => rows[p].parent # c
  <2>1. \A p \in Tables : p \in Ids
    BY DEF Ids
  <2> QED BY <1>0, <2>1, KindFacts DEF RowsInv, live
<1>5. childrenOf(c) = {p \in Products : live(p) /\ rows[p].parent = c}
  BY <1>0, <1>4, ChildrenFacts
<1> QED BY <1>3, <1>5 DEF productCounts

\* ConfirmArchive: what is announced holds when the lists are settled.
LEMMA ConfirmStep ==
  ASSUME CatalogIInv, ScreensIInv, NEW r \in Requests, ConfirmArchive(r), filled' = filled
  PROVE  ScreensIInv'
<1> USE DEF historyKept, navigationKept
<1>0. /\ ScreenTypes /\ HooksInv /\ AnnouncedInv /\ CacheInv /\ OwnInv
      /\ CatalogTypeOK /\ req \in [Requests -> {Idle} \cup InHand]
  BY DEF ScreensIInv, CatalogIInv
<1>1. PICK q : q = [op |-> "delete", kind |-> tab, id |-> target, parent |-> None, key |-> None,
                    active |-> None, rev |-> None]
  OBVIOUS
<1>2. /\ Start(r, q, TRUE) /\ hook["archive"] = None /\ hook' = [hook EXCEPT !["archive"] = r]
      /\ UNCHANGED <<tab, cache, invalid, detached, target, form, submitted>>
      /\ UNCHANGED <<escaped, answerLost, othersActed>>
      /\ notice' = IF tab = "category"
                   THEN [count |-> productCounts(target),
                         settled |-> /\ invalid = {} /\ ~ownPending
                                     /\ Cardinality(liveIn(Products)) <= MaxListed]
                   ELSE Unannounced
  BY <1>1 DEF ConfirmArchive
<1>3. q.kind = tab /\ q.rev = None /\ q.op = "delete" /\ q.id = target
  BY <1>1
<1>4. "archive" \in Hooks \ {"form"}
  BY DEF Hooks
<1>b. PICK g \in Hooks \ {"form"} : g = "archive"
  BY <1>4
<1>c. /\ Start(r, q, TRUE) /\ q.kind = tab /\ q.rev = None /\ (g = "archive" => q.op = "delete")
      /\ hook[g] = None /\ hook' = [hook EXCEPT ![g] = r]
      /\ UNCHANGED <<tab, cache, invalid, detached, target, form, submitted>>
      /\ UNCHANGED <<escaped, answerLost, othersActed>>
  BY <1>2, <1>3, <1>b
<1>5. /\ ScreenTypes' /\ HooksInv' /\ SerialsInv' /\ OneRowInv' /\ OwnInv' /\ CacheInv' /\ DialogInv'
      /\ filled' \in Samples /\ (alone' => alone) /\ hook'["archive"] = r
  <2>1. /\ ScreenTypes' /\ HooksInv' /\ SerialsInv' /\ OneRowInv' /\ OwnInv' /\ CacheInv' /\ DialogInv'
        /\ filled' \in Samples /\ (alone' => alone) /\ hook'[g] = r
        /\ \A h \in Hooks : h # g => hook'[h] = hook[h]
        /\ \A h \in Hooks : hook[h] # r
    BY <1>c, PlainRequest
  <2> QED BY <1>b, <2>1
<1>6. /\ req'[r].q = q /\ rows' = rows /\ wellFormed(q)
      /\ (~overlapped' => ~overlapped /\ \A s \in Requests : ~busy(s))
  BY <1>2, StartFrame
<1>7. AnnouncedInv'
  <2> SUFFICES ASSUME q.kind = "category", notice'.settled, alone'
               PROVE  Cardinality(childrenOf(q.id)) = notice'.count
    <3>1. (req[hook["archive"]].q)' = q
      BY <1>5, <1>6
    <3>2. childrenOf(q.id)' = childrenOf(q.id)
      BY <1>6, SameRows
    <3>3. childrenOf(req[hook["archive"]].q.id)' = childrenOf(q.id)
      BY <3>1, <3>2 DEF childrenOf, liveIn, live
    <3> QED BY <3>1, <3>3 DEF AnnouncedInv
  <2>1. notice' = [count |-> productCounts(target),
                   settled |-> /\ invalid = {} /\ ~ownPending
                               /\ Cardinality(liveIn(Products)) <= MaxListed]
    BY <1>2, <1>3
  <2>2. /\ invalid = {} /\ ~ownPending /\ notice'.count = productCounts(target)
        /\ Cardinality(liveIn(Products)) <= MaxListed
    BY <2>1
  <2>3. \A s \in Requests : at(s, "idle")
    <3> SUFFICES ASSUME NEW s \in Requests, ~at(s, "idle") PROVE FALSE
      OBVIOUS
    <3>1. s \in detached \/ \E h \in Hooks : hook[h] = s
      BY <1>0, <1>5 DEF OwnInv
    <3> QED BY <2>2, <3>1, ScreenAssumption DEF ownPending
  <2>4. ~newsOfProducts
    BY <2>3 DEF newsOfProducts, at
  <2>5. cache["product"] \in snapshots("product")
    BY <1>0, <1>5, <2>2, <2>4 DEF CacheInv
  <2>6. q.id \in Categories
    BY <1>6, KindTable DEF wellFormed
  <2> QED BY <1>3, <2>2, <2>5, <2>6, CountIsExact
<1> QED BY <1>5, <1>7 DEF ScreensIInv

\* A colleague's request names no form.
LEMMA OthersStep ==
  ASSUME CatalogIInv, ScreensIInv, NEW r \in Requests, NEW q \in Payload, q.rev \in {0, None}, Others(r, q),
         filled' = filled
  PROVE  ScreensIInv'
<1>0. /\ ScreenTypes /\ HooksInv /\ OneRowInv /\ DialogInv /\ filled \in Samples
  BY DEF ScreensIInv
<1>1. /\ Start(r, q, FALSE) /\ othersActed' = TRUE
      /\ UNCHANGED <<tab, cache, invalid, form, hook, submitted, detached, target, notice, escaped, answerLost>>
  BY DEF Others
<1>2. /\ ~alone' /\ (\A h \in Hooks : hook[h] # r) /\ r \notin detached
      /\ SerialsInv' /\ CacheInv'
      /\ \A s \in 1 .. MaxForms : s # q.rev => pendingFor(s)' \subseteq pendingFor(s)
  <2>1. q.rev \in {None, 0, form.serial} /\ FALSE \in BOOLEAN
    OBVIOUS
  <2>2. ~alone'
    BY <1>1 DEF alone
  <2> QED BY <1>1, <2>1, <2>2, ArrivalStep
<1>3. rows' = rows /\ \A s \in Requests : s # r => req'[s] = req[s]
  BY <1>1, StartFrame
<1>4. ScreenTypes'
  BY <1>0, <1>1 DEF ScreenTypes
<1>5. HooksInv'
  <2>1. \A x \in Requests : (x \in detached' \/ \E h \in Hooks : hook[h] = x) => x # r
    BY <1>1, <1>2
  <2>2. \A x \in Requests : ~at(x, "idle") /\ req[x].awaited /\ (x \in detached' \/ \E h \in Hooks : hook[h] = x)
           => req'[x].pc # "idle" /\ req'[x].awaited /\ req'[x].q = req[x].q
    BY <1>3, <2>1 DEF at
  <2> QED BY <1>0, <1>1, <2>2, HooksKept
<1>6. OneRowInv'
  <2>1. \A s \in 1 .. MaxForms : pendingFor(s)' \subseteq pendingFor(s)
    BY <1>2, CatalogAssumption
  <2>2. form.mode # "closed" => form.serial \in 1 .. MaxForms
    BY <1>0, ScreenNumbers
  <2>3. hook["form"] # None => req'[hook["form"]] = req[hook["form"]]
    BY <1>0, <1>2, <1>3 DEF ScreenTypes, Hooks
  <2> QED BY <1>0, <1>1, <1>3, <2>1, <2>2, <2>3, OneRowKept
<1>7. OwnInv' /\ AnnouncedInv' /\ DialogInv'
  BY <1>0, <1>1, <1>2 DEF OwnInv, AnnouncedInv, DialogInv
<1> QED BY <1>0, <1>1, <1>2, <1>4, <1>5, <1>6, <1>7 DEF ScreensIInv

-----------------------------------------------------------------------------
\* A hook that has its answer, or has given up.
LEMMA HookReleased ==
  ASSUME ScreenTypes, HooksInv, NEW g \in Hooks, hook[g] # None,
         hook' = [hook EXCEPT ![g] = None], tab' = tab, detached' = detached,
         \A s \in Requests : s # hook[g] => req'[s] = req[s]
  PROVE  /\ HooksInv' /\ hook' \in [Hooks -> Requests \cup {None}] /\ hook'[g] = None
         /\ \A h \in Hooks : h # g => hook'[h] = hook[h] /\ hook[h] # hook[g]
<1>1. hook' \in [Hooks -> Requests \cup {None}] /\ hook'[g] = None /\ \A h \in Hooks : h # g => hook'[h] = hook[h]
  BY DEF ScreenTypes
<1>2. \A h \in Hooks : h # g => hook[h] # hook[g]
  BY DEF HooksInv
<1>3. ASSUME NEW h \in Hooks, hook'[h] # None
      PROVE  /\ hook'[h] \notin detached'
             /\ req'[hook'[h]].pc # "idle" /\ req'[hook'[h]].awaited
             /\ req'[hook'[h]].q.kind = tab'
             /\ h = "archive" => req'[hook'[h]].q.op = "delete"
  <2>1. PICK x \in Requests : x = hook[h] /\ x = hook'[h] /\ x # hook[g]
    BY <1>1, <1>2, <1>3
  <2>2. /\ x \notin detached /\ ~at(x, "idle") /\ req[x].awaited /\ req[x].q.kind = tab
        /\ h = "archive" => req[x].q.op = "delete"
    BY <1>3, <2>1, <1>1 DEF HooksInv
  <2> QED BY <2>1, <2>2 DEF at
<1>4. \A k, h \in Hooks : k # h /\ hook'[k] # None => hook'[k] # hook'[h]
  BY <1>1 DEF HooksInv
<1>5. \A x \in detached' : req'[x].pc # "idle" /\ req'[x].awaited
  <2>1. hook[g] \notin detached /\ detached \subseteq Requests
    BY DEF HooksInv, ScreenTypes
  <2> QED BY <2>1 DEF HooksInv, at
<1>6. HooksInv'
  BY <1>3, <1>4, <1>5 DEF HooksInv, at
<1> QED BY <1>1, <1>2, <1>6

\* What a form is after its hook has heard: closed, as it was, or with an error that is its own.
LEMMA FormTold ==
  ASSUME ScreenTypes, DialogInv, NEW g \in Hooks, NEW ok \in BOOLEAN, hook[g] # None,
         form' = formAfter(g, ok), hook' = [hook EXCEPT ![g] = None],
         submitted' = IF g = "form" THEN 0 ELSE submitted, escaped' = escaped
  PROVE  /\ DialogInv'
         /\ form' \in [mode : {"closed", "create", "edit"}, id : Ids \cup {None}, serial : 0 .. MaxForms,
                       error : (0 .. MaxForms) \cup {None}, row : Row]
         /\ form'.serial = form.serial /\ submitted' \in 0 .. MaxForms
         /\ form'.mode # "closed" => form.mode # "closed" /\ ~(g = "form" /\ ok)
<1>0. /\ submitted' \in 0 .. MaxForms
      /\ form \in [mode : {"closed", "create", "edit"}, id : Ids \cup {None}, serial : 0 .. MaxForms,
                   error : (0 .. MaxForms) \cup {None}, row : Row]
      /\ submitted \in 0 .. MaxForms
  BY ScreenNumbers DEF ScreenTypes
<1>a. "form" \in Hooks /\ hook'[g] = None /\ \A h \in Hooks : h # g => hook'[h] = hook[h]
  BY DEF ScreenTypes, Hooks
<1>1. CASE g = "form" /\ ok
  <2>1. form' = closedForm
    BY <1>1 DEF formAfter
  <2>2. /\ closedForm \in [mode : {"closed", "create", "edit"}, id : Ids \cup {None}, serial : 0 .. MaxForms,
                           error : (0 .. MaxForms) \cup {None}, row : Row]
        /\ closedForm.mode = "closed" /\ closedForm.serial = form.serial /\ closedForm.error = None
    BY <1>0 DEF closedForm, Closed, Row, NoRow
  <2> HIDE DEF closedForm
  <2>3. DialogInv'
    BY <1>1, <1>a, <2>1, <2>2 DEF DialogInv
  <2> QED BY <1>0, <2>1, <2>2, <2>3
<1>2. CASE g = "form" /\ ~ok /\ form.mode # "closed"
  <2>1. form' = [form EXCEPT !.error = submitted]
    BY <1>2 DEF formAfter
  <2>2. /\ form' \in [mode : {"closed", "create", "edit"}, id : Ids \cup {None}, serial : 0 .. MaxForms,
                      error : (0 .. MaxForms) \cup {None}, row : Row]
        /\ form'.serial = form.serial /\ form'.error = submitted /\ form'.mode = form.mode
    BY <1>0, <2>1
  <2>3. DialogInv'
    BY <1>2, <1>a, <2>2 DEF DialogInv
  <2> QED BY <1>0, <1>2, <2>2, <2>3
<1>3. CASE g # "form" \/ (~ok /\ form.mode = "closed")
  <2>1. form' = form
    BY <1>3 DEF formAfter
  <2>2. DialogInv'
    <3>1. CASE g = "form"
      <4>1. hook'["form"] = None
        BY <1>a, <3>1
      <4> QED BY <2>1, <4>1 DEF DialogInv
    <3>2. CASE g # "form"
      <4>1. hook'["form"] = hook["form"] /\ submitted' = submitted
        BY <1>a, <3>2
      <4> QED BY <2>1, <4>1 DEF DialogInv
    <3> QED BY <3>1, <3>2
  <2> QED BY <1>0, <1>3, <2>1, <2>2
<1> QED BY <1>1, <1>2, <1>3

\* The answer arrives.
LEMMA HearStep ==
  ASSUME CatalogIInv, ScreensIInv, NEW h \in Hooks, HearAnswer(h), filled' = filled
  PROVE  ScreensIInv'
<1> USE DEF historyKept
<1>0. /\ ScreenTypes /\ HooksInv /\ SerialsInv /\ OneRowInv /\ OwnInv /\ CacheInv /\ DialogInv
      /\ AnnouncedInv /\ filled \in Samples /\ rows \in [Ids -> Row]
  BY DEF ScreensIInv, CatalogIInv, CatalogTypeOK
<1>1. PICK r, ok : r = hook[h] /\ ok = (req[r].answer = "ok")
  OBVIOUS
<1>2. /\ r # None /\ at(r, "answered") /\ Finish(r) /\ ok \in BOOLEAN
      /\ hook' = [hook EXCEPT ![h] = None]
      /\ form' = formAfter(h, ok)
      /\ submitted' = (IF h = "form" THEN 0 ELSE submitted)
      /\ target' = (IF h = "archive" THEN None ELSE target)
      /\ notice' = (IF h = "archive" THEN Unannounced ELSE notice)
      /\ invalid' = (IF ok THEN invalid \cup screen.stales ELSE invalid)
      /\ UNCHANGED <<tab, cache, detached>> /\ UNCHANGED <<escaped, answerLost, othersActed>>
  BY <1>1 DEF HearAnswer
<1>3. r \in Requests /\ req[r].q.kind = tab
  BY <1>0, <1>1, <1>2 DEF ScreenTypes, HooksInv
<1>4. /\ ~busy(r) /\ ~busy(r)' /\ at(r, "idle")' /\ rows' = rows /\ overlapped' = overlapped
      /\ \A s \in Requests : s # r => req'[s] = req[s]
  BY <1>2, <1>3, FinishFrame
<1>5. /\ HooksInv' /\ hook' \in [Hooks -> Requests \cup {None}] /\ hook'[h] = None
      /\ \A g \in Hooks : g # h => hook'[g] = hook[g] /\ hook[g] # r
  BY <1>0, <1>1, <1>2, <1>4, HookReleased
<1>6. /\ DialogInv'
      /\ form' \in [mode : {"closed", "create", "edit"}, id : Ids \cup {None}, serial : 0 .. MaxForms,
                    error : (0 .. MaxForms) \cup {None}, row : Row]
      /\ form'.serial = form.serial /\ submitted' \in 0 .. MaxForms
      /\ form'.mode # "closed" => form.mode # "closed" /\ ~(h = "form" /\ ok)
  BY <1>0, <1>1, <1>2, FormTold
<1>7. screen.stales \subseteq Kinds /\ (tab \in {"product", "category"} => "product" \in screen.stales)
  BY <1>0
  DEF ScreenTypes, Kinds, screen, screenOf, productsScreen, categoriesScreen, branchesScreen,
      tablesScreen, customersScreen
<1>8. ScreenTypes'
  BY <1>0, <1>2, <1>5, <1>6, <1>7 DEF ScreenTypes
<1>9. alone' => alone
  BY <1>2, <1>4, AloneBefore
<1>10. SerialsInv'
  <2>1. \A x \in Requests : busy(x)' => busy(x) /\ req'[x].q = req[x].q
    BY <1>4 DEF busy
  <2>2. \A x \in Requests : busy(x) => req[x].q \in Payload
    BY HandFacts DEF busy
  <2>3. form.serial \in Nat
    BY <1>0, ScreenNumbers
  <2> QED BY <1>0, <1>4, <1>6, <2>1, <2>2, <2>3, SerialsKept
<1>11. OneRowInv'
  <2>1. \A s \in 1 .. MaxForms : pendingFor(s)' \subseteq pendingFor(s)
    BY <1>4 DEF pendingFor, busy
  <2>2. CASE ~(h = "form" /\ form'.mode # "closed")
    <3>1. ASSUME form'.mode # "closed"
          PROVE  /\ form.mode # "closed" /\ form'.serial = form.serial /\ form.serial \in 1 .. MaxForms
                 /\ hook'["form"] = hook["form"]
                 /\ hook["form"] # None => req'[hook["form"]] = req[hook["form"]]
      <4>1. h # "form" /\ form.mode # "closed" /\ "form" \in Hooks
        BY <1>6, <2>2, <3>1 DEF Hooks
      <4>2. hook'["form"] = hook["form"] /\ hook["form"] # r
        BY <1>5, <4>1
      <4>3. hook["form"] # None => req'[hook["form"]] = req[hook["form"]]
        BY <1>0, <1>4, <4>1, <4>2 DEF ScreenTypes
      <4> QED BY <1>0, <1>6, <4>1, <4>2, <4>3, ScreenNumbers
    <3> QED BY <1>0, <1>2, <1>4, <2>1, <3>1, OneRowKept
  <2>3. CASE h = "form" /\ form'.mode # "closed"
    <3> SUFFICES ASSUME ~answerLost PROVE OneRowInv'
      BY <1>2 DEF OneRowInv
    <3>1. form.mode # "closed" /\ ~ok
      BY <1>6, <2>3
    <3>2. PICK n \in 1 .. MaxForms : n = form.serial
      BY <1>0, <3>1, ScreenNumbers
    <3>3. savedAs(n) = {} /\ pendingFor(n) \subseteq {r}
      BY <1>0, <1>1, <2>3, <3>1, <3>2 DEF OneRowInv
    <3>4. r \notin pendingFor(n)'
      BY <1>4 DEF pendingFor
    <3>5. \A s : savedAs(s)' = savedAs(s)
      BY <1>4 DEF savedAs
    <3>6. savedAs(n)' = {} /\ pendingFor(n)' = {}
      BY <2>1, <3>3, <3>4, <3>5
    <3>7. pendingFor(form.serial)' = pendingFor(n)' /\ savedAs(form.serial)' = savedAs(n)'
      BY <1>6, <3>2 DEF pendingFor, savedAs
    <3>8. ASSUME NEW s \in 1 .. MaxForms
          PROVE  /\ \A i, j \in savedAs(s)' : i = j
                 /\ \A x \in pendingFor(s)' : savedAs(s)' = {} /\ pendingFor(s)' = {x}
      BY <1>0, <2>1, <3>5 DEF OneRowInv
    <3> QED BY <3>6, <3>7, <3>8 DEF OneRowInv
  <2> QED BY <2>2, <2>3
<1>12. OwnInv'
  <2> SUFFICES ASSUME alone', NEW x \in Requests, req'[x].pc # "idle"
               PROVE  x \in detached' \/ \E g \in Hooks : hook'[g] = x
    BY DEF OwnInv, at
  <2>1. x # r
    BY <1>4 DEF at
  <2>2. ~at(x, "idle")
    BY <1>4, <2>1 DEF at
  <2>3. x \in detached \/ \E g \in Hooks : hook[g] = x
    BY <1>0, <1>9, <2>2 DEF OwnInv
  <2> QED BY <1>1, <1>2, <1>5, <2>1, <2>3
<1>13. CacheInv'
  <2>1. newsOfProducts => newsOfProducts' \/ "product" \in invalid'
    <3> SUFFICES ASSUME newsOfProducts PROVE newsOfProducts' \/ "product" \in invalid'
      OBVIOUS
    <3>1. PICK x \in Requests : /\ at(x, "answered") /\ req[x].answer = "ok"
                                /\ req[x].q.kind \in {"product", "category"}
      BY DEF newsOfProducts
    <3>2. CASE x = r
      BY <1>1, <1>2, <1>3, <1>7, <3>1, <3>2
    <3>3. CASE x # r
      BY <1>4, <3>1, <3>3 DEF newsOfProducts, at
    <3> QED BY <3>2, <3>3
  <2>2. invalid \subseteq invalid'
    BY <1>2
  <2> QED BY <1>0, <1>2, <1>4, <1>9, <2>1, <2>2, CacheKept
<1>14. AnnouncedInv'
  <2>1. CASE h = "archive"
    BY <1>5, <2>1 DEF AnnouncedInv
  <2>2. CASE h # "archive"
    <3>1. hook'["archive"] = hook["archive"] /\ notice' = notice
      BY <1>2, <1>5, <2>2 DEF Hooks
    <3>2. \A x \in Requests : hook["archive"] = x /\ busy(x)' => busy(x) /\ req'[x].q = req[x].q
      BY <1>4 DEF busy
    <3> QED BY <1>0, <1>4, <1>9, <3>1, <3>2, AnnouncedKept
  <2> QED BY <2>1, <2>2
<1> QED BY <1>0, <1>2, <1>5, <1>6, <1>8, <1>10, <1>11, <1>12, <1>13, <1>14 DEF ScreensIInv

\* The answer to a request whose screen is gone.
LEMMA HearDetachedStep ==
  ASSUME CatalogIInv, ScreensIInv, NEW r \in Requests, HearDetached(r), filled' = filled
  PROVE  ScreensIInv'
<1> USE DEF historyKept
<1>0. /\ ScreenTypes /\ HooksInv /\ SerialsInv /\ OneRowInv /\ OwnInv /\ CacheInv /\ DialogInv
      /\ AnnouncedInv /\ filled \in Samples /\ rows \in [Ids -> Row]
  BY DEF ScreensIInv, CatalogIInv, CatalogTypeOK
<1>1. /\ r \in detached /\ at(r, "answered") /\ Finish(r) /\ detached' = detached \ {r}
      /\ invalid' = (IF req[r].answer = "ok" THEN invalid \cup screenOf(req[r].q.kind).stales ELSE invalid)
      /\ UNCHANGED <<tab, cache, form, hook, submitted, target, notice>>
      /\ UNCHANGED <<escaped, answerLost, othersActed>>
  BY DEF HearDetached
<1>2. /\ ~busy(r) /\ ~busy(r)' /\ at(r, "idle")' /\ rows' = rows /\ overlapped' = overlapped
      /\ \A s \in Requests : s # r => req'[s] = req[s]
  BY <1>1, FinishFrame
<1>3. \A h \in Hooks : hook[h] # r
  BY <1>0, <1>1, ScreenAssumption DEF HooksInv
<1>4. req[r].q.kind \in Kinds
  BY <1>1, HandFacts DEF at
<1>5. PICK k \in Kinds : k = req[r].q.kind
  BY <1>4
<1>6. screenOf(k).stales \subseteq Kinds /\ (k \in {"product", "category"} => "product" \in screenOf(k).stales)
  BY DEF Kinds, screenOf, productsScreen, categoriesScreen, branchesScreen, tablesScreen, customersScreen
<1>7. ScreenTypes'
  <2>1. invalid' \subseteq Kinds /\ detached' \subseteq Requests
    BY <1>0, <1>1, <1>5, <1>6 DEF ScreenTypes
  <2> QED BY <1>0, <1>1, <2>1 DEF ScreenTypes
<1>8. alone' => alone
  BY <1>1, <1>2, AloneBefore
<1>9. HooksInv'
  <2>1. \A x \in Requests : (x \in detached' \/ \E h \in Hooks : hook[h] = x) => x # r
    BY <1>1, <1>3
  <2>2. \A x \in Requests : ~at(x, "idle") /\ req[x].awaited /\ (x \in detached' \/ \E h \in Hooks : hook[h] = x)
           => req'[x].pc # "idle" /\ req'[x].awaited /\ req'[x].q = req[x].q
    BY <1>2, <2>1 DEF at
  <2>3. detached' \subseteq detached /\ UNCHANGED <<tab, hook>>
    BY <1>1
  <2> QED BY <1>0, <2>2, <2>3, HooksKept
<1>10. SerialsInv'
  <2>1. \A x \in Requests : busy(x)' => busy(x) /\ req'[x].q = req[x].q
    BY <1>2 DEF busy
  <2>2. \A x \in Requests : busy(x) => req[x].q \in Payload
    BY HandFacts DEF busy
  <2>3. form.serial \in Nat
    BY <1>0, ScreenNumbers
  <2> QED BY <1>0, <1>1, <1>2, <2>1, <2>2, <2>3, SerialsKept
<1>11. OneRowInv'
  <2>1. \A s \in 1 .. MaxForms : pendingFor(s)' \subseteq pendingFor(s)
    BY <1>2 DEF pendingFor, busy
  <2>2. form.mode # "closed" => form.serial \in 1 .. MaxForms
    BY <1>0, ScreenNumbers
  <2>3. hook["form"] # None => req'[hook["form"]] = req[hook["form"]]
    BY <1>0, <1>2, <1>3 DEF ScreenTypes, Hooks
  <2> QED BY <1>0, <1>1, <1>2, <2>1, <2>2, <2>3, OneRowKept
<1>12. OwnInv'
  <2> SUFFICES ASSUME alone', NEW x \in Requests, req'[x].pc # "idle"
               PROVE  x \in detached' \/ \E g \in Hooks : hook'[g] = x
    BY DEF OwnInv, at
  <2>1. x # r
    BY <1>2 DEF at
  <2>2. ~at(x, "idle")
    BY <1>2, <2>1 DEF at
  <2> QED BY <1>0, <1>1, <1>8, <2>1, <2>2 DEF OwnInv
<1>13. CacheInv'
  <2>1. newsOfProducts => newsOfProducts' \/ "product" \in invalid'
    <3> SUFFICES ASSUME newsOfProducts PROVE newsOfProducts' \/ "product" \in invalid'
      OBVIOUS
    <3>1. PICK x \in Requests : /\ at(x, "answered") /\ req[x].answer = "ok"
                                /\ req[x].q.kind \in {"product", "category"}
      BY DEF newsOfProducts
    <3>2. CASE x = r
      BY <1>1, <1>5, <1>6, <3>1, <3>2
    <3>3. CASE x # r
      BY <1>2, <3>1, <3>3 DEF newsOfProducts, at
    <3> QED BY <3>2, <3>3
  <2>2. invalid \subseteq invalid'
    BY <1>1
  <2> QED BY <1>0, <1>1, <1>2, <1>8, <2>1, <2>2, CacheKept
<1>14. AnnouncedInv'
  <2>1. \A x \in Requests : hook["archive"] = x /\ busy(x)' => busy(x) /\ req'[x].q = req[x].q
    BY <1>2 DEF busy
  <2> QED BY <1>0, <1>1, <1>2, <1>8, <2>1, AnnouncedKept
<1>15. DialogInv'
  BY <1>0, <1>1 DEF DialogInv
<1> QED BY <1>0, <1>1, <1>7, <1>9, <1>10, <1>11, <1>12, <1>13, <1>14, <1>15 DEF ScreensIInv

\* fetch rejects: the request, if it is still served, is nobody's.
LEMMA LoseStep ==
  ASSUME CatalogIInv, ScreensIInv, NEW h \in Hooks, LoseAnswer(h), filled' = filled
  PROVE  ScreensIInv'
<1>0. /\ ScreenTypes /\ HooksInv /\ SerialsInv /\ DialogInv /\ filled \in Samples /\ rows \in [Ids -> Row]
      /\ req \in [Requests -> {Idle} \cup InHand]
  BY DEF ScreensIInv, CatalogIInv, CatalogTypeOK
<1>1. PICK r : r = hook[h]
  OBVIOUS
<1>2. /\ r # None /\ Abandon(r)
      /\ hook' = [hook EXCEPT ![h] = None]
      /\ form' = formAfter(h, FALSE)
      /\ submitted' = (IF h = "form" THEN 0 ELSE submitted)
      /\ target' = (IF h = "archive" THEN None ELSE target)
      /\ answerLost' = TRUE
      /\ UNCHANGED <<tab, cache, invalid, detached, escaped, othersActed>>
  BY <1>1 DEF LoseAnswer
<1>3. r \in Requests
  BY <1>0, <1>1, <1>2 DEF ScreenTypes
<1>4. req[r] \in InHand
  BY <1>2, <1>3, HandFacts DEF Abandon
<1>5. PICK new : new = IF at(r, "answered") THEN Idle ELSE [req[r] EXCEPT !.awaited = FALSE]
  OBVIOUS
<1>6. req' = [req EXCEPT ![r] = new] /\ rows' = rows
  BY <1>0, <1>2, <1>3, <1>5 DEF Abandon
<1>7. req'[r] = new /\ \A s \in Requests : s # r => req'[s] = req[s]
  BY <1>0, <1>3, <1>6
<1>8. new = Idle \/ (new.pc = req[r].pc /\ new.q = req[r].q)
  BY <1>4, <1>5 DEF InHand
<1>9. \A x \in Requests : busy(x)' => busy(x) /\ req'[x].q = req[x].q
  BY <1>7, <1>8 DEF busy, Idle
<1>10. /\ HooksInv' /\ hook' \in [Hooks -> Requests \cup {None}]
  BY <1>0, <1>1, <1>2, <1>7, HookReleased
<1>11. /\ DialogInv'
       /\ form' \in [mode : {"closed", "create", "edit"}, id : Ids \cup {None}, serial : 0 .. MaxForms,
                     error : (0 .. MaxForms) \cup {None}, row : Row]
       /\ form'.serial = form.serial /\ submitted' \in 0 .. MaxForms
       /\ form'.mode # "closed" => form.mode # "closed"
  BY <1>0, <1>1, <1>2, FormTold
<1>12. ScreenTypes'
  BY <1>0, <1>2, <1>10, <1>11 DEF ScreenTypes
<1>13. SerialsInv'
  <2>1. \A x \in Requests : busy(x) => req[x].q \in Payload
    BY HandFacts DEF busy
  <2>2. form.serial \in Nat
    BY <1>0, ScreenNumbers
  <2> QED BY <1>0, <1>6, <1>9, <1>11, <2>1, <2>2, SerialsKept
<1>14. OneRowInv' /\ OwnInv' /\ CacheInv' /\ AnnouncedInv'
  BY <1>2 DEF OneRowInv, OwnInv, CacheInv, AnnouncedInv, alone
<1> QED BY <1>0, <1>10, <1>11, <1>12, <1>13, <1>14 DEF ScreensIInv

\* The world beside the requests.
LEMMA SurroundingsStep ==
  ASSUME CatalogIInv, ScreensIInv, Auditing \/ Guests \/ BillingChanges \/ Tick, UNCHANGED <<screenVars, filled>>
  PROVE  ScreensIInv'
<1>0. /\ ScreenTypes /\ HooksInv /\ SerialsInv /\ OneRowInv /\ OwnInv /\ CacheInv /\ DialogInv
      /\ AnnouncedInv /\ filled \in Samples /\ overlapped \in BOOLEAN
  BY DEF ScreensIInv, CatalogIInv, CatalogTypeOK
<1>1. rows' = rows /\ req' = req /\ (~overlapped' => ~overlapped)
  BY <1>0 DEF Auditing, LogAudit, Guests, PlaceOrder, EndOrder, BillingChanges, Tick, historyUnchanged
<1>2. /\ tab' = tab /\ cache' = cache /\ invalid' = invalid /\ form' = form /\ hook' = hook
      /\ submitted' = submitted /\ detached' = detached /\ target' = target /\ notice' = notice
      /\ escaped' = escaped /\ answerLost' = answerLost /\ othersActed' = othersActed /\ filled' = filled
  BY DEF screenVars
<1>3. alone' => alone
  BY <1>1, <1>2, AloneBefore
<1>4. ScreenTypes' /\ HooksInv' /\ SerialsInv' /\ DialogInv'
  BY <1>0, <1>1, <1>2 DEF ScreenTypes, HooksInv, SerialsInv, DialogInv, at, busy
<1>5. OneRowInv'
  BY <1>0, <1>1, <1>2 DEF OneRowInv, savedAs, pendingFor, busy, at
<1>6. OwnInv'
  BY <1>0, <1>1, <1>2, <1>3 DEF OwnInv, at
<1>7. CacheInv'
  <2>1. newsOfProducts => newsOfProducts'
    BY <1>1 DEF newsOfProducts, at
  <2> QED BY <1>0, <1>1, <1>2, <1>3, <2>1, CacheKept
<1>8. AnnouncedInv'
  <2>1. \A x \in Requests : busy(x)' => busy(x) /\ req'[x].q = req[x].q
    BY <1>1 DEF busy
  <2> QED BY <1>0, <1>1, <1>2, <1>3, <2>1, AnnouncedKept
<1> QED BY <1>0, <1>2, <1>4, <1>5, <1>6, <1>7, <1>8 DEF ScreensIInv

-----------------------------------------------------------------------------
\* What a write makes of the numbers of the forms: the row it is about gets that of its
\* request, if that has one, and every other row keeps its own.
LEMMA CommitSerials ==
  ASSUME CatalogIInv, NEW r \in Requests, NEW now \in 0 .. MaxTime, Commits(r, now)
  PROVE  /\ \A i \in Ids : i # req[r].q.id => rows'[i].exists = rows[i].exists /\ rows'[i].rev = rows[i].rev
         /\ \/ rows'[req[r].q.id].rev = req[r].q.rev
            \/ /\ rows[req[r].q.id].exists
               /\ rows'[req[r].q.id].rev = rows[req[r].q.id].rev
         /\ rows' \in [Ids -> Row]
<1>0. CatalogTypeOK /\ RowsInv
  BY DEF CatalogIInv
<1>1. busy(r) /\ req[r].pc # "idle" /\ StepInv(r)
  BY DEF Commits, at, busy, CatalogIInv
<1>2. PICK q : q = req[r].q
  OBVIOUS
<1>3. wellFormed(q) /\ q.op \in Ops /\ q.id \in Ids /\ (rows[q.id].exists <=> q.op # "create")
  BY <1>1, <1>2, HandFacts DEF StepInv
<1>4. /\ rows' \in [Ids -> Row] /\ rows'[q.id] = written(q, now)
      /\ \A i \in Ids : i # q.id => rows'[i].exists = rows[i].exists /\ rows'[i].rev = rows[i].rev
  BY <1>2, CommitFrame
<1>5. CASE q.op = "create"
  BY <1>0, <1>2, <1>3, <1>4, <1>5, WrittenFacts DEF createdRow
<1>6. CASE q.op = "update"
  <2>1. written(q, now).rev = (IF q.rev = None THEN rows[q.id].rev ELSE q.rev)
    BY <1>0, <1>3, <1>6, WrittenFacts
  <2> QED BY <1>2, <1>3, <1>4, <1>6, <2>1
<1>7. CASE q.op = "delete"
  <2>1. written(q, now) = tombstone(q.id, now) /\ tombstone(q.id, now).rev = rows[q.id].rev
    BY <1>0, <1>3, <1>7, WrittenFacts, TombstoneFacts
  <2> QED BY <1>2, <1>3, <1>4, <1>7, <2>1
<1>8. CASE q.op = "restore"
  <2>1. written(q, now).rev = rows[q.id].rev
    BY <1>0, <1>3, <1>8, WrittenFacts
  <2> QED BY <1>2, <1>3, <1>4, <1>8, <2>1
<1> QED BY <1>3, <1>5, <1>6, <1>7, <1>8 DEF Ops

\* A write that touches neither products nor categories, while requests do not overlap,
\* leaves the products as they are.
LEMMA ProductsUntouched ==
  ASSUME CatalogIInv, NEW r \in Requests, NEW now \in 0 .. MaxTime, Commits(r, now), ~overlapped,
         req[r].q.kind \notin {"product", "category"}
  PROVE  snapshots("product")' = snapshots("product")
<1>0. CatalogTypeOK /\ RowsInv
  BY DEF CatalogIInv
<1>1. PICK q : q = req[r].q
  OBVIOUS
<1>2. /\ q.kind \in Kinds /\ q.id \in idsOf(q.kind) /\ q.id \in Ids /\ kindOf(q.id) = q.kind
      /\ req[r].batch = IF q.op = "delete" THEN childrenOf(q.id) ELSE {}
  BY <1>1, AloneFacts, KindOfIds
<1>3. ASSUME NEW p \in Products PROVE rows'[p] = rows[p]
  <2>1. p \in Ids /\ kindOf(p) = "product"
    BY KindFacts DEF Ids
  <2>2. p # q.id
    BY <1>1, <1>2, <2>1
  <2>3. p \notin req[r].batch
    <3> SUFFICES ASSUME p \in childrenOf(q.id) PROVE FALSE
      BY <1>2
    <3>1. live(p) /\ rows[p].parent = q.id
      BY <1>0, <1>2, ChildrenFacts
    <3>2. rows[p].parent \in Categories
      BY <1>0, <2>1, <3>1, KindFacts DEF RowsInv, live
    <3>3. kindOf(q.id) = "category"
      BY <3>1, <3>2, KindFacts
    <3> QED BY <1>1, <1>2, <3>3
  <2>4. rows' = [i \in Ids |-> IF i = q.id THEN written(q, now)
                               ELSE IF i \in req[r].batch THEN tombstone(i, now) ELSE rows[i]]
    BY <1>1 DEF Commits
  <2> QED BY <2>1, <2>2, <2>3, <2>4
<1>4. idsOf("product") = Products
  BY KindTable
<1>5. \A S \in SUBSET Products : liveIn(S)' = liveIn(S)
  BY <1>3 DEF liveIn, live
<1>6. {i \in Products : rows[i].exists}' = {i \in Products : rows[i].exists}
  BY <1>3
<1>7. ASSUME NEW A \in SUBSET Products, NEW S \in SUBSET Products
      PROVE  page("product", A, S)' = page("product", A, S)
  BY <1>3, <1>4, <1>5 DEF page
<1>8. /\ liveIn(Products)' = liveIn(Products) /\ liveIn(Products) \in SUBSET Products
      /\ \A S : reads(S)' = reads(S) /\ reads(S) \subseteq SUBSET S
  BY <1>5 DEF reads, liveIn
<1>9. \A x : x \in snapshots("product") <=>
        \E A \in reads(liveIn(Products)), S \in reads({i \in Products : rows[i].exists}) :
          x = page("product", A, S)
  BY <1>4 DEF snapshots
<1>10. \A x : x \in snapshots("product")' <=>
        \E A \in reads(liveIn(Products)), S \in reads({i \in Products : rows[i].exists}) :
          x = page("product", A, S)'
  BY <1>4, <1>6, <1>8 DEF snapshots
<1>11. /\ \A A \in reads(liveIn(Products)) : A \in SUBSET Products
       /\ \A S \in reads({i \in Products : rows[i].exists}) : S \in SUBSET Products
  BY DEF reads, liveIn
<1>12. \A x : x \in snapshots("product")' <=> x \in snapshots("product")
  <2>1. \A A \in reads(liveIn(Products)), S \in reads({i \in Products : rows[i].exists}) :
          page("product", A, S)' = page("product", A, S)
    BY <1>7, <1>11
  <2>2. ASSUME NEW x, x \in snapshots("product") PROVE x \in snapshots("product")'
    <3>1. PICK A \in reads(liveIn(Products)), S \in reads({i \in Products : rows[i].exists}) :
            x = page("product", A, S)
      BY <1>9, <2>2
    <3>2. x = page("product", A, S)'
      BY <2>1, <3>1
    <3> QED BY <1>10, <3>1, <3>2
  <2>3. ASSUME NEW x, x \in snapshots("product")' PROVE x \in snapshots("product")
    <3>1. PICK A \in reads(liveIn(Products)), S \in reads({i \in Products : rows[i].exists}) :
            x = page("product", A, S)'
      BY <1>10, <2>3
    <3>2. x = page("product", A, S)
      BY <2>1, <3>1
    <3> QED BY <1>9, <3>1, <3>2
  <2> QED BY <2>2, <2>3
<1>13. \A k : snapshots(k) = {page(k, active, all) : active \in reads(liveIn(idsOf(k))),
                                 all \in reads({i \in idsOf(k) : rows[i].exists})}
  BY DEF snapshots
<1> QED BY <1>12, <1>13

\* The server works on a request.
LEMMA ProgressStep ==
  ASSUME CatalogIInv, ScreensIInv, Progress, UNCHANGED <<screenVars, filled>>
  PROVE  ScreensIInv'
<1>0. /\ ScreenTypes /\ HooksInv /\ SerialsInv /\ OneRowInv /\ OwnInv /\ CacheInv /\ DialogInv
      /\ AnnouncedInv /\ filled \in Samples /\ rows \in [Ids -> Row] /\ LoneInv
  BY DEF ScreensIInv, CatalogIInv, CatalogTypeOK
<1>1. /\ tab' = tab /\ cache' = cache /\ invalid' = invalid /\ form' = form /\ hook' = hook
      /\ submitted' = submitted /\ detached' = detached /\ target' = target /\ notice' = notice
      /\ escaped' = escaped /\ answerLost' = answerLost /\ othersActed' = othersActed /\ filled' = filled
  BY DEF screenVars
<1>2. PICK r \in Requests :
        /\ busy(r)
        /\ \A s \in Requests : s # r => req'[s] = req[s]
        /\ req[r].awaited => req'[r].pc # "idle"
        /\ req'[r].pc # "idle" => req'[r].q = req[r].q /\ req'[r].awaited = req[r].awaited
        /\ overlapped' = overlapped
        /\ \/ rows' = rows
           \/ \E now \in 0 .. MaxTime : Commits(r, now)
  BY ProgressFrame
<1>3. ~at(r, "idle") /\ ~at(r, "answered") /\ req[r].q \in Payload /\ req[r].q.id \in Ids
  BY <1>2, HandFacts DEF at, busy
<1>4. alone' => alone
  BY <1>1, <1>2, AloneBefore
<1>5. \A x \in Requests : busy(x)' => busy(x) /\ req'[x].q = req[x].q
  BY <1>2 DEF busy
<1>6. \A x \in Requests : busy(x) => req[x].q \in Payload
  BY HandFacts DEF busy
<1>7. \A s \in 1 .. MaxForms : pendingFor(s)' \subseteq pendingFor(s)
  BY <1>5 DEF pendingFor
<1>8. ScreenTypes' /\ DialogInv'
  BY <1>0, <1>1 DEF ScreenTypes, DialogInv
<1>9. HooksInv'
  <2>1. \A x \in Requests : ~at(x, "idle") /\ req[x].awaited /\ (x \in detached' \/ \E h \in Hooks : hook[h] = x)
           => req'[x].pc # "idle" /\ req'[x].awaited /\ req'[x].q = req[x].q
    BY <1>2 DEF at
  <2>2. detached' \subseteq detached /\ UNCHANGED <<tab, hook>>
    BY <1>1
  <2> QED BY <1>0, <2>1, <2>2, HooksKept
<1>10. OwnInv'
  <2>1. \A x \in Requests : req'[x].pc # "idle" => ~at(x, "idle")
    BY <1>2, <1>3 DEF at
  <2> QED BY <1>0, <1>1, <1>4, <2>1 DEF OwnInv, at
<1>11. form.serial \in Nat /\ (form.mode # "closed" => form.serial \in 1 .. MaxForms)
  BY <1>0, ScreenNumbers
<1>12. "form" \in Hooks /\ (hook["form"] # None => hook["form"] \in Requests)
  BY <1>0 DEF ScreenTypes, Hooks
<1>13. hook["form"] # None /\ at(hook["form"], "answered") => req'[hook["form"]] = req[hook["form"]]
  BY <1>2, <1>3, <1>12
<1>14. newsOfProducts => newsOfProducts'
  BY <1>2, <1>3 DEF newsOfProducts, at
<1>15. CASE rows' = rows
  <2>1. SerialsInv'
    BY <1>0, <1>1, <1>5, <1>6, <1>11, <1>15, SerialsKept
  <2>2. OneRowInv'
    BY <1>0, <1>1, <1>7, <1>11, <1>13, <1>15, OneRowKept
  <2>3. CacheInv'
    BY <1>0, <1>1, <1>4, <1>14, <1>15, CacheKept
  <2>4. AnnouncedInv'
    BY <1>0, <1>1, <1>4, <1>5, <1>15, AnnouncedKept
  <2> QED BY <1>0, <1>1, <1>8, <1>9, <1>10, <2>1, <2>2, <2>3, <2>4 DEF ScreensIInv
<1>16. ASSUME NEW now \in 0 .. MaxTime, Commits(r, now) PROVE ScreensIInv'
  <2>1. /\ ~busy(r)'
        /\ req[r].awaited => at(r, "answered")' /\ req'[r].answer = "ok" /\ req'[r].q = req[r].q
    BY <1>16, CommitAnswers
  <2>2. PICK q : q = req[r].q /\ q.id \in Ids /\ q \in Payload
    BY <1>3
  <2>3. /\ \A i \in Ids : i # q.id => rows'[i].exists = rows[i].exists /\ rows'[i].rev = rows[i].rev
        /\ rows'[q.id].rev = q.rev \/ (rows[q.id].exists /\ rows'[q.id].rev = rows[q.id].rev)
        /\ rows' \in [Ids -> Row]
    BY <1>16, <2>2, CommitSerials
  <2>4. SerialsInv'
    <3>1. ASSUME NEW i \in Ids PROVE rows'[i].rev <= form'.serial
      <4>1. rows[i].rev <= form.serial
        BY <1>0 DEF SerialsInv
      <4>2. CASE rows'[i].rev = rows[i].rev
        BY <1>1, <4>1, <4>2
      <4>3. CASE i = q.id /\ rows'[i].rev = q.rev
        <5>1. rows'[i].rev \in Nat
          BY <2>3 DEF Row
        <5>2. q.rev # None
          BY <4>3, <5>1, CatalogAssumption
        <5>3. q.rev <= form.serial
          BY <1>0, <1>2, <2>2, <5>2 DEF SerialsInv
        <5> QED BY <1>1, <4>3, <5>3
      <4> QED BY <2>3, <4>2, <4>3
    <3>2. \A x \in Requests : busy(x)' /\ req'[x].q.rev # None => req'[x].q.rev <= form'.serial
      BY <1>0, <1>1, <1>5 DEF SerialsInv
    <3> QED BY <3>1, <3>2 DEF SerialsInv
  <2>5. ASSUME NEW s \in 1 .. MaxForms
        PROVE  savedAs(s)' \subseteq savedAs(s) \cup {i \in {q.id} : q.rev = s}
    <3> SUFFICES ASSUME NEW i \in Ids, rows'[i].exists, rows'[i].rev = s
                 PROVE  (rows[i].exists /\ rows[i].rev = s) \/ (i = q.id /\ q.rev = s)
      BY DEF savedAs
    <3>1. CASE i # q.id
      BY <2>3, <3>1
    <3>2. CASE i = q.id
      BY <2>3, <3>2
    <3> QED BY <3>1, <3>2
  <2>6. OneRowInv'
    <3> SUFFICES ASSUME ~answerLost PROVE OneRowInv'
      BY <1>1 DEF OneRowInv
    <3>1. ASSUME NEW s \in 1 .. MaxForms
          PROVE  /\ \A i, j \in savedAs(s)' : i = j
                 /\ \A x \in pendingFor(s)' : savedAs(s)' = {} /\ pendingFor(s)' = {x}
      <4>1. CASE q.rev = s
        <5>1. r \in pendingFor(s)
          BY <1>2, <2>2, <4>1 DEF pendingFor
        <5>2. savedAs(s) = {} /\ pendingFor(s) = {r}
          BY <1>0, <5>1 DEF OneRowInv
        <5>3. r \notin pendingFor(s)'
          BY <2>1 DEF pendingFor
        <5>4. pendingFor(s)' = {}
          BY <1>7, <5>2, <5>3
        <5> QED BY <2>5, <5>2, <5>4
      <4>2. CASE q.rev # s
        <5>1. savedAs(s)' \subseteq savedAs(s) /\ pendingFor(s)' \subseteq pendingFor(s)
          BY <1>7, <2>5, <4>2
        <5> QED BY <1>0, <5>1 DEF OneRowInv
      <4> QED BY <4>1, <4>2
    <3>2. ASSUME form.mode # "closed"
          PROVE  /\ \A x \in pendingFor(form.serial)' : hook'["form"] = x
                 /\ savedAs(form.serial)' # {} =>
                      /\ hook'["form"] # None
                      /\ req'[hook'["form"]].pc = "answered" /\ req'[hook'["form"]].answer = "ok"
      <4>1. PICK n \in 1 .. MaxForms : n = form.serial
        BY <1>11, <3>2
      <4>2. pendingFor(form.serial)' = pendingFor(n)' /\ savedAs(form.serial)' = savedAs(n)'
        BY <1>1, <4>1 DEF pendingFor, savedAs
      <4>3. \A x \in pendingFor(n)' : hook'["form"] = x
        BY <1>0, <1>1, <1>7, <3>2, <4>1 DEF OneRowInv
      <4>4. ASSUME savedAs(n)' # {}
            PROVE  /\ hook'["form"] # None
                   /\ req'[hook'["form"]].pc = "answered" /\ req'[hook'["form"]].answer = "ok"
        <5>1. CASE q.rev = n
          <6>1. r \in pendingFor(n)
            BY <1>2, <2>2, <5>1 DEF pendingFor
          <6>2. hook["form"] = r
            BY <1>0, <3>2, <4>1, <6>1 DEF OneRowInv
          <6>3. r # None
            BY ScreenAssumption
          <6>4. req[r].awaited
            BY <1>0, <1>12, <6>2, <6>3 DEF HooksInv
          <6> QED BY <1>1, <2>1, <6>2, <6>3, <6>4 DEF at
        <5>2. CASE q.rev # n
          <6>1. savedAs(n) # {}
            BY <2>5, <4>4, <5>2
          <6>2. hook["form"] # None /\ at(hook["form"], "answered") /\ req[hook["form"]].answer = "ok"
            BY <1>0, <3>2, <4>1, <6>1 DEF OneRowInv
          <6> QED BY <1>1, <1>13, <6>2 DEF at
        <5> QED BY <5>1, <5>2
      <4> QED BY <4>2, <4>3, <4>4
    <3> QED BY <1>1, <3>1, <3>2 DEF OneRowInv, at
  <2>7. CacheInv'
    <3> SUFFICES ASSUME alone' PROVE CacheInv'
      BY DEF CacheInv
    <3>1. alone /\ ~overlapped
      BY <1>4 DEF alone
    <3>2. CASE q.kind \in {"product", "category"}
      <4>1. req[r].awaited
        BY <1>0, <1>3, <3>1, ScreenAssumption DEF OwnInv, HooksInv
      <4>2. newsOfProducts'
        BY <2>1, <2>2, <3>2, <4>1 DEF newsOfProducts, at
      <4> QED BY <4>2 DEF CacheInv
    <3>3. CASE q.kind \notin {"product", "category"}
      <4>1. snapshots("product")' = snapshots("product")
        BY <1>16, <2>2, <3>1, <3>3, ProductsUntouched
      <4> QED BY <1>0, <1>1, <1>14, <3>1, <4>1 DEF CacheInv
    <3> QED BY <3>2, <3>3
  <2>8. AnnouncedInv'
    <3> SUFFICES ASSUME alone', NEW x \in Requests, busy(x)' PROVE FALSE
      BY <1>0, <1>1 DEF AnnouncedInv, ScreenTypes, Hooks, busy
    <3>1. busy(x) /\ x # r /\ ~overlapped
      BY <1>4, <1>5, <2>1 DEF alone
    <3> QED BY <1>0, <1>2, <3>1 DEF LoneInv
  <2> QED BY <1>0, <1>1, <1>8, <1>9, <1>10, <2>4, <2>6, <2>7, <2>8 DEF ScreensIInv
<1> QED BY <1>2, <1>15, <1>16

-----------------------------------------------------------------------------
\* A screen that has just mounted.
LEMMA ScreensInitIInv == CatalogInit /\ FormInit /\ BackofficeInit => ScreensIInv
<1> SUFFICES ASSUME CatalogInit, FormInit, BackofficeInit PROVE ScreensIInv
  OBVIOUS
<1> USE SeedAssumption, CatalogAssumption, ScreenAssumption DEF BackofficeInit
<1>1. rows = SeedRows /\ req = [r \in Requests |-> Idle]
  BY DEF CatalogInit
<1>2. \A r \in Requests : at(r, "idle") /\ ~busy(r) /\ ~at(r, "answered")
  BY <1>1 DEF at, busy, Idle
<1>3. \A k \in Kinds : idsOf(k) \subseteq Ids
  BY DEF idsOf, Ids, Kinds
<1>4. ScreenTypes
  <2>1. \A k \in Kinds : cache[k] \in [idsOf(k) -> Row]
    <3>1. rows \in [Ids -> Row]
      BY <1>1
    <3> QED BY <3>1, ListTypes
  <2>2. form \in [mode : {"closed", "create", "edit"}, id : Ids \cup {None}, serial : 0 .. MaxForms,
                  error : (0 .. MaxForms) \cup {None}, row : Row]
    BY DEF Closed, NoRow, Row
  <2>3. form.mode = "closed"
    BY DEF Closed
  <2>4. hook \in [Hooks -> Requests \cup {None}] /\ DOMAIN cache = Kinds
    OBVIOUS
  <2>5. /\ tab \in Kinds /\ invalid \subseteq Kinds
        /\ submitted \in 0 .. MaxForms /\ detached \subseteq Requests /\ target \in Ids \cup {None}
    OBVIOUS
  <2>6. {escaped, answerLost, othersActed} \subseteq BOOLEAN
    OBVIOUS
  <2>7. form.mode # "closed" => form.serial # 0
    BY <2>3
  <2>8. \A k \in Kinds : cache[k] \in [idsOf(k) -> Row]
    BY <2>1
  <2> HIDE DEF BackofficeInit
  <2> QED BY <2>2, <2>4, <2>5, <2>6, <2>7, <2>8 DEF ScreenTypes
<1>5. HooksInv /\ OwnInv
  BY <1>2 DEF HooksInv, OwnInv
<1>6. DialogInv
  BY DEF DialogInv, Hooks, Closed
<1>7. SerialsInv
  BY <1>1, <1>2 DEF SerialsInv, Closed
<1>8. OneRowInv
  <2>1. \A s \in 1 .. MaxForms : savedAs(s) = {} /\ pendingFor(s) = {}
    BY <1>1, <1>2 DEF savedAs, pendingFor
  <2> QED BY <2>1 DEF OneRowInv, Closed
<1>9. CacheInv
  BY DEF CacheInv, Kinds
<1>10. AnnouncedInv
  BY DEF AnnouncedInv, Hooks
<1>11. filled \in Samples
  BY DEF FormInit, EmptyForm, Samples, Lengths, Amounts
<1> QED BY <1>4, <1>5, <1>6, <1>7, <1>8, <1>9, <1>10, <1>11 DEF ScreensIInv

\* Typing into a form, and a step that changes nothing.
LEMMA FillStep ==
  ASSUME ScreensIInv, UNCHANGED <<catalogVars, screenVars>>, filled' \in Samples
  PROVE  ScreensIInv'
<1> USE DEF ScreensIInv, catalogVars, screenVars
<1>1. ScreenTypes'
  BY DEF ScreenTypes
<1>2. HooksInv'
  BY DEF HooksInv, at
<1>3. DialogInv' /\ SerialsInv'
  BY DEF DialogInv, SerialsInv, busy
<1>4. OneRowInv'
  BY DEF OneRowInv, savedAs, pendingFor, busy, at
<1>5. OwnInv' /\ CacheInv'
  BY SameLists DEF OwnInv, CacheInv, alone, newsOfProducts, at
<1>6. AnnouncedInv'
  BY DEF AnnouncedInv, alone, busy, childrenOf, liveIn, live
<1> QED BY <1>1, <1>2, <1>3, <1>4, <1>5, <1>6

\* What the screens and the network do, the catalogue does or does not notice.
LEMMA OperatorIsCatalog ==
  ASSUME CatalogIInv, ScreensIInv, Operator(Kinds)
  PROVE  [CatalogNext]_catalogVars
<1>1. ScreenTypes
  BY DEF ScreensIInv
<1>2. \A r, q : Start(r, q, TRUE) => q \in Payload
  BY DEF Start, wellFormed
<1>3. ASSUME NEW r \in Requests,
             (\E q \in bodies : SubmitForm(r, q)) \/ ConfirmArchive(r)
               \/ (\E i \in Ids : RestoreRow(r, i) \/ ToggleRow(r, i))
      PROVE  CatalogNext
  <2>1. \E q : Start(r, q, TRUE)
    BY <1>3 DEF SubmitForm, ConfirmArchive, RestoreRow, ToggleRow
  <2> QED BY <1>2, <2>1 DEF CatalogNext
<1>4. ASSUME NEW r \in Requests, HearDetached(r) PROVE CatalogNext
  BY <1>4 DEF HearDetached, CatalogNext
<1>5. ASSUME NEW h \in Hooks, HearAnswer(h) \/ LoseAnswer(h) PROVE CatalogNext
  <2>1. hook[h] \in Requests
    BY <1>1, <1>5 DEF ScreenTypes, HearAnswer, LoseAnswer
  <2>2. Finish(hook[h]) \/ Abandon(hook[h])
    BY <1>5 DEF HearAnswer, LoseAnswer
  <2> QED BY <2>1, <2>2 DEF CatalogNext
<1>6. ASSUME (\E k \in Kinds : Fetch(k)) \/ (\E t \in Kinds : SwitchTab(t))
               \/ OpenCreate \/ CloseForm \/ CancelArchive
               \/ (\E i \in Ids : OpenEdit(i) \/ AskArchive(i))
      PROVE  UNCHANGED catalogVars
  BY <1>6 DEF Fetch, SwitchTab, OpenCreate, CloseForm, CancelArchive, OpenEdit, AskArchive
<1> QED BY <1>3, <1>4, <1>5, <1>6 DEF Operator

\* Every step of the back office is one of the catalogue's, or none.
LEMMA BackofficeStepIsCatalog ==
  ASSUME CatalogIInv, ScreensIInv, [BackofficeNext]_backofficeVars
  PROVE  [CatalogNext]_catalogVars
<1>1. CASE Operator(Kinds)
  BY <1>1, OperatorIsCatalog
<1>2. CASE \E r \in Requests, q \in Payload : Others(r, q)
  BY <1>2 DEF Others, CatalogNext
<1>3. CASE Progress \/ Auditing \/ Guests \/ BillingChanges \/ Tick
  BY <1>3 DEF CatalogNext
<1>4. CASE UNCHANGED catalogVars
  BY <1>4
<1> QED BY <1>1, <1>2, <1>3, <1>4 DEF BackofficeNext, backofficeVars

\* The screens keep their part of the invariant.
LEMMA BackofficeNextIInv ==
  ASSUME CatalogIInv, ScreensIInv, [BackofficeNext]_backofficeVars
  PROVE  ScreensIInv'
<1>1. CASE Operator(Kinds) /\ UNCHANGED filled
  <2>1. CASE \E k \in Kinds : Fetch(k)
    BY <1>1, <2>1, FetchStep
  <2>2. CASE \E t \in Kinds : SwitchTab(t)
    BY <1>1, <2>2, SwitchStep
  <2>3. CASE OpenCreate \/ \E i \in Ids : OpenEdit(i)
    BY <1>1, <2>3, OpenStep
  <2>4. CASE CloseForm \/ CancelArchive \/ \E i \in Ids : AskArchive(i)
    BY <1>1, <2>4, DialogStep
  <2>5. CASE \E r \in Requests : \E q \in bodies : SubmitForm(r, q)
    BY <1>1, <2>5, SubmitStep
  <2>6. CASE \E r \in Requests : ConfirmArchive(r)
    BY <1>1, <2>6, ConfirmStep
  <2>7. CASE \E r \in Requests : HearDetached(r)
    BY <1>1, <2>7, HearDetachedStep
  <2>8. CASE \E r \in Requests : \E i \in Ids : RestoreRow(r, i) \/ ToggleRow(r, i)
    BY <1>1, <2>8, ButtonStep
  <2>9. CASE \E h \in Hooks : HearAnswer(h)
    BY <1>1, <2>9, HearStep
  <2>10. CASE \E h \in Hooks : LoseAnswer(h)
    BY <1>1, <2>10, LoseStep
  <2> QED BY <1>1, <2>1, <2>2, <2>3, <2>4, <2>5, <2>6, <2>7, <2>8, <2>9, <2>10 DEF Operator
<1>2. CASE (\E r \in Requests, q \in Payload : q.rev \in {0, None} /\ Others(r, q)) /\ UNCHANGED filled
  BY <1>2, OthersStep
<1>3. CASE Progress /\ UNCHANGED <<screenVars, filled>>
  BY <1>3, ProgressStep
<1>4. CASE (Auditing \/ Guests \/ BillingChanges \/ Tick) /\ UNCHANGED <<screenVars, filled>>
  BY <1>4, SurroundingsStep
<1>5. CASE Fill /\ UNCHANGED <<catalogVars, screenVars>>
  BY <1>5, FillStep DEF Fill
<1>6. CASE UNCHANGED backofficeVars
  <2>1. UNCHANGED <<catalogVars, screenVars>> /\ filled' \in Samples
    BY <1>6 DEF backofficeVars, ScreensIInv
  <2> QED BY <2>1, FillStep
<1> QED BY <1>1, <1>2, <1>3, <1>4, <1>5, <1>6 DEF BackofficeNext

\* The invariant says what the screens promise.
LEMMA ScreensIInvInv == CatalogIInv /\ ScreensIInv => ScreensInv
<1> SUFFICES ASSUME CatalogIInv, ScreensIInv PROVE ScreensInv
  OBVIOUS
<1>0. ScreenTypes /\ HooksInv /\ OneRowInv /\ AnnouncedInv /\ filled \in Samples
  BY DEF ScreensIInv
<1>1. BackofficeTypeOK
  <2>1. \A g, h \in Hooks : g # h /\ hook[g] # None => hook[g] # hook[h]
    BY <1>0 DEF HooksInv
  <2>2. \A h \in Hooks : hook[h] \in Requests \cup {None}
    BY <1>0 DEF ScreenTypes
  <2>3. form.mode \in {"closed", "create", "edit"} /\ form.serial \in 0 .. MaxForms
    BY <1>0 DEF ScreenTypes
  <2>4. /\ tab \in Kinds /\ invalid \subseteq Kinds
        /\ \A k \in Kinds : cache[k] \in [idsOf(k) -> Row]
        /\ detached \subseteq Requests /\ target \in Ids \cup {None}
    BY <1>0 DEF ScreenTypes
  <2> QED BY <2>1, <2>2, <2>3, <2>4 DEF BackofficeTypeOK
<1>2. OneRowPerForm
  <2> SUFFICES ASSUME ~answerLost, NEW s \in 1 .. form.serial PROVE Cardinality(savedAs(s)) <= 1
    BY DEF OneRowPerForm, savedAs
  <2>1. s \in 1 .. MaxForms
    <3>1. form.serial \in 0 .. MaxForms
      BY <1>0 DEF ScreenTypes
    <3> QED BY <3>1, ScreenAssumption
  <2>2. \A i, j \in savedAs(s) : i = j
    BY <1>0, <2>1 DEF OneRowInv
  <2>3. CASE savedAs(s) = {}
    BY <2>3, FS_EmptySet
  <2>4. CASE savedAs(s) # {}
    <3>1. PICK i : savedAs(s) = {i}
      BY <2>2, <2>4
    <3>2. Cardinality({i}) = 1
      BY FS_Singleton, Zenon
    <3> QED BY <3>1, <3>2
  <2> QED BY <2>3, <2>4
<1>3. CascadeIsAnnounced
  <2> SUFFICES ASSUME hook["archive"] # None, at(hook["archive"], "write"),
                      req[hook["archive"]].q.kind = "category",
                      notice.settled, alone
               PROVE  Cardinality(req[hook["archive"]].batch) = notice.count
    BY DEF CascadeIsAnnounced, alone
  <2>1. PICK r \in Requests : r = hook["archive"]
    BY <1>0 DEF ScreenTypes, Hooks
  <2>2. busy(r) /\ req[r].q.op = "delete"
    BY <1>0, <2>1 DEF HooksInv, Hooks, busy, at
  <2>3. ReadsHold(r)
    BY DEF CatalogIInv, LoneInv, alone
  <2>4. req[r].batch = childrenOf(req[r].q.id)
    BY <2>1, <2>2, <2>3 DEF ReadsHold
  <2> QED BY <1>0, <2>1, <2>2, <2>4 DEF AnnouncedInv
<1>4. FormsMirrorDtos
  <2>1. filled.text \in Nat /\ filled.other \in Nat /\ filled.parent \in BOOLEAN
    BY <1>0 DEF Samples, Lengths
  <2>2. filled.amount = Blank \/ filled.amount \in Int
    BY <1>0 DEF Samples, Amounts
  <2> USE DEF within, number, optional
  <2>3. /\ validateProductForm(filled, "create") => createProductDto(filled)
        /\ validateProductForm(filled, "edit") => updateProductDto(filled)
    BY DEF validateProductForm, createProductDto, updateProductDto
  <2>4. /\ validateCategoryForm(filled, "create") => createCategoryDto(filled)
        /\ validateCategoryForm(filled, "edit") => updateCategoryDto(filled)
    BY DEF validateCategoryForm, createCategoryDto, updateCategoryDto
  <2> USE DEF isEmail, isObject, isObjectOrNull, looksLikeMail, isJson
  <2>5. /\ validateBranchForm(filled, "create") => (createBranchDto(filled) <=> ~branchSlips(filled, "create"))
        /\ validateBranchForm(filled, "edit") => (updateBranchDto(filled) <=> ~branchSlips(filled, "edit"))
    BY <2>1 DEF validateBranchForm, createBranchDto, updateBranchDto, branchSlips
  <2>6. /\ validateStaffForm(filled, "create") => (createUserDto(filled) <=> ~staffSlips(filled, "create"))
        /\ validateStaffForm(filled, "edit") => (updateUserDto(filled) <=> ~staffSlips(filled, "edit"))
    BY <2>1 DEF validateStaffForm, createUserDto, updateUserDto, staffSlips
  <2>7. /\ validateTableForm(filled, "create") => (createTableDto(filled) <=> ~tableSlips(filled))
        /\ validateTableForm(filled, "edit") => (updateTableDto(filled) <=> ~tableSlips(filled))
    BY <2>1, <2>2 DEF wholeAmount, validateTableForm, createTableDto, updateTableDto, tableSlips
  <2>8. /\ validateCustomerForm(filled, "create") => (createCustomerDto(filled) <=> ~customerSlips(filled, "create"))
        /\ validateCustomerForm(filled, "edit") => (updateCustomerDto(filled) <=> ~customerSlips(filled, "edit"))
    BY <2>1, <2>2 DEF wholeAmount, validateCustomerForm, createCustomerDto, updateCustomerDto, customerSlips
  <2> QED BY <2>3, <2>4, <2>5, <2>6, <2>7, <2>8 DEF FormsMirrorDtos
<1> QED BY <1>0, <1>1, <1>2, <1>3, <1>4 DEF ScreensInv

\* Only the success of the form's own hook closes an open form while a hook changes.
LEMMA ClosedByItsHook ==
  ASSUME CatalogIInv, ScreensIInv, [BackofficeNext]_backofficeVars,
         form.mode # "closed", form'.mode = "closed", hook' # hook
  PROVE  hook["form"] # None
<1> USE DEF historyKept, navigationKept
<1>1. ASSUME NEW h \in Hooks, NEW ok \in BOOLEAN, form' = formAfter(h, ok) PROVE h = "form"
  <2>1. form' # form
    OBVIOUS
  <2> QED BY <1>1, <2>1 DEF formAfter
<1>2. ASSUME NEW h \in Hooks, HearAnswer(h) \/ LoseAnswer(h) PROVE hook["form"] # None
  <2>1. PICK ok \in BOOLEAN : form' = formAfter(h, ok)
    <3>1. CASE HearAnswer(h)
      <4>1. PICK ok \in BOOLEAN : ok = (req[hook[h]].answer = "ok")
        OBVIOUS
      <4> QED BY <3>1, <4>1 DEF HearAnswer
    <3>2. CASE LoseAnswer(h)
      BY <3>2 DEF LoseAnswer
    <3> QED BY <1>2, <3>1, <3>2
  <2>2. h = "form"
    BY <1>1, <2>1
  <2> QED BY <1>2, <2>2 DEF HearAnswer, LoseAnswer
<1>3. ASSUME NEW k, Fetch(k) PROVE FALSE
  BY <1>3 DEF Fetch
<1>4. ASSUME NEW t, SwitchTab(t) PROVE FALSE
  BY <1>4 DEF SwitchTab, noDialog
<1>5. ASSUME OpenCreate \/ CloseForm \/ CancelArchive \/ \E i \in Ids : OpenEdit(i) \/ AskArchive(i)
      PROVE  FALSE
  BY <1>5 DEF OpenCreate, CloseForm, CancelArchive, OpenEdit, AskArchive
<1>6. ASSUME NEW r \in Requests, NEW q \in bodies, SubmitForm(r, q) PROVE FALSE
  <2>1. form'.mode = form.mode
    BY <1>6 DEF SubmitForm, ScreensIInv, ScreenTypes
  <2> QED BY <2>1
<1>7. ASSUME NEW r \in Requests,
             ConfirmArchive(r) \/ HearDetached(r) \/ \E i \in Ids : RestoreRow(r, i) \/ ToggleRow(r, i)
      PROVE  FALSE
  BY <1>7 DEF ConfirmArchive, HearDetached, RestoreRow, ToggleRow
<1>8. ASSUME NEW r, NEW q, Others(r, q) PROVE FALSE
  BY <1>8 DEF Others
<1>9. hook' = hook \/ Operator(Kinds)
  BY <1>8 DEF BackofficeNext, backofficeVars, screenVars
<1> QED BY <1>2, <1>3, <1>4, <1>5, <1>6, <1>7, <1>9 DEF Operator

-----------------------------------------------------------------------------
\* The two halves of the inductive invariant hold together: what the screens do is
\* allowed by the catalogue, and the screens may rely on the catalogue's promises.
LEMMA BackofficeInductive ==
  BackofficeSpec => [](CatalogIInv /\ ScreensIInv)
<1>1. CatalogInit /\ FormInit /\ BackofficeInit => CatalogIInv /\ ScreensIInv
  BY CatalogInitIInv, ScreensInitIInv
<1>2. CatalogIInv /\ ScreensIInv /\ [BackofficeNext]_backofficeVars => (CatalogIInv /\ ScreensIInv)'
  BY BackofficeStepIsCatalog, CatalogNextIInv, BackofficeNextIInv
<1> QED BY <1>1, <1>2, PTL DEF BackofficeSpec

\* api-client and the hooks: the back office beside colleagues, orders and billing is one
\* more caller of the services, and none of what the catalogue promises depends on it.
THEOREM BackofficeImplementsCatalog == BackofficeSpec => CatalogSpec
<1>1. CatalogIInv /\ ScreensIInv /\ [BackofficeNext]_backofficeVars => [CatalogNext]_catalogVars
  BY BackofficeStepIsCatalog
<1> QED BY <1>1, BackofficeInductive, PTL DEF BackofficeSpec, CatalogSpec

\* mutationBusy, closeForm and the archive dialog: whatever the operator, colleagues and
\* the network do on any screen, a filled-in form makes one row, the announced number of
\* products is archived and the forms let through exactly what is listed of what the DTOs refuse.
THEOREM ScreensCorrect == BackofficeSpec => []ScreensInv
<1>1. CatalogIInv /\ ScreensIInv => ScreensInv
  BY ScreensIInvInv
<1> QED BY <1>1, BackofficeInductive, PTL

\* onSuccess and onError: the form that is open closes for, and shows, its own answer only.
THEOREM FormsHearTheirAnswers == BackofficeSpec => FormHearsItsOwnAnswer
<1>1. ASSUME CatalogIInv, ScreensIInv, (CatalogIInv /\ ScreensIInv)', [BackofficeNext]_backofficeVars
      PROVE  /\ form.mode # "closed" /\ form'.mode = "closed" /\ hook' # hook
                  => escaped \/ submitted = form.serial
             /\ form'.error # None => escaped' \/ form'.error = form'.serial
  <2>1. DialogInv /\ DialogInv'
    BY <1>1 DEF ScreensIInv
  <2> QED BY <1>1, <2>1, ClosedByItsHook DEF DialogInv
<1>2. CatalogIInv /\ ScreensIInv /\ (CatalogIInv /\ ScreensIInv)' /\ [BackofficeNext]_backofficeVars =>
        [/\ form.mode # "closed" /\ form'.mode = "closed" /\ hook' # hook
              => escaped \/ submitted = form.serial
         /\ form'.error # None => escaped' \/ form'.error = form'.serial]_<<form, hook>>
  BY <1>1
<1> QED BY <1>2, BackofficeInductive, PTL DEF BackofficeSpec, FormHearsItsOwnAnswer
=============================================================================
