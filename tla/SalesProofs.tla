---------------------------- MODULE SalesProofs ----------------------------
(***************************************************************************)
(* Theorems about what is sold and what is told of it: checkouts and the   *)
(* guest's cart (Checkout, GuestMenu, for any set of requests, bodies,     *)
(* tables, prices, options and any discount), and the situations and       *)
(* figures of the executive (ElevaInsights, for any bounds and orders).  A *)
(* checkout's invariant says what it has established at each of its awaits *)
(* and who holds the discount row; as long as nothing has overlapped, it   *)
(* may rely on its earlier reads.  The sums of lib/pricing, of the server  *)
(* and of the metrics are folds over finite sets: what a fold adds up to   *)
(* is proved from the order in which it takes its elements, and the price  *)
(* rules and the segments follow.                                          *)
(***************************************************************************)
EXTENDS Checkout, GuestMenu, ElevaInsights, FiniteSetTheorems, SequenceTheorems,
        WellFoundedInduction, TLAPS

Bodies == Dtos \cup BoundDtos

\* The points of a checkout whose table has been validated.
Checked == {"items", "lookup", "increment", "commit"}

\* sum is what the first n lines of a cart cost: the running totals of the item
\* loop of createOrder lead to it, one line price at a time.
RunningTotal(items, n, sum) ==
  \E f \in [0 .. n -> Int] :
    /\ f[0] = 0 /\ f[n] = sum
    /\ \A i \in 1 .. n : f[i] = f[i - 1] + totalLinePrice(items[i])

\* The bounds of a discount on a subtotal.
Bounded(amount, sum) == 0 <= amount /\ (0 <= sum => amount <= sum) /\ (sum < 0 => amount = 0)

\* The body belongs to the table it names, if it names one.
Seated(d) == d.table # None => d.table \in Tables /\ BranchOf[d.table] = d.branch

\* What checkout r has established, whatever runs beside it.
RequestInv(r) ==
  /\ pc[r] # "new" => dto[r] \in Bodies
  /\ orders[r] # None <=> pc[r] \in {"broadcast", "done"}
  /\ pc[r] \notin {"new", "rejected", "failed"} /\ dto[r].token # None => dto[r].table = dto[r].token
  /\ pc[r] \in Checked => Seated(dto[r])
  /\ pc[r] \in {"new", "tenant", "table"} => priced[r] = 0 /\ subtotal[r] = 0
  /\ pc[r] = "items" => priced[r] < Len(dto[r].items)
  /\ pc[r] \in InTransaction => priced[r] = Len(dto[r].items)
  /\ pc[r] \in Checked => RunningTotal(dto[r].items, priced[r], subtotal[r])
  /\ pc[r] \in {"increment", "commit"} => Bounded(discount[r], subtotal[r])
  /\ pc[r] = "increment" => dto[r].code # None

\* The row lock of the discount is held by the transaction that will count a use.
LockInv == \A r \in Requests : lock = r <=> (pc[r] = "commit" /\ dto[r].code # None)

\* Every line of an order's cart is charged, once.
EveryLineCharged ==
  \A r \in Requests :
    orders[r] # None => RunningTotal(orders[r].items, Len(orders[r].items), orders[r].subtotal)

OrdersInv == EveryLineCharged /\ ChargesAreSound /\ OrdersAreAtTheirTable

\* Orders, tickets and announcements.
KitchenInv ==
  /\ KitchenHearsOfRealOrders
  /\ \A r \in Requests : orders[r] # None => r \in tickets
  /\ \A r \in open : orders[r] # None

UsageInv == IsFiniteSet(Discounted) /\ UsageCountsOrders

HasUse == Discount.usageLimit # None => usageCount < Discount.usageLimit

\* What checkout r has read still holds if it runs alone.
ReadsHold(r) ==
  /\ pc[r] \in Checked /\ dto[r].table # None => dto[r].table \in tables
  /\ pc[r] = "increment" \/ lock = r => HasUse

\* Until a checkout or a deletion overlaps another there is one at a time.
OneAtATime ==
  /\ \A q, r \in Requests : pc[q] \in Running /\ pc[r] \in Running => q = r
  /\ \A s, t \in Tables : deleting[s] = "counted" /\ deleting[t] = "counted" => s = t
  /\ \A r \in Requests, t \in Tables : ~(pc[r] \in Running /\ deleting[t] = "counted")

AloneInv ==
  ~overlapped =>
    /\ OneAtATime
    /\ \A r \in Requests : ReadsHold(r)
    /\ \A t \in Tables : deleting[t] = "counted" => OpenOrdersAt(t) = {}

\* The inductive invariant.
IInv ==
  /\ TypeOK
  /\ \A r \in Requests : RequestInv(r)
  /\ LockInv
  /\ OrdersInv
  /\ KitchenInv
  /\ UsageInv
  /\ AloneInv
  /\ OveruseNeedsOverlap
  /\ NoOpenOrderOnDeletedTable

-----------------------------------------------------------------------------
(* What a fold adds up to, by induction on the number of elements. *)

\* Every set of naturals has a least element.
LEMMA LeastElement ==
  ASSUME NEW S \in SUBSET Nat, S # {}
  PROVE  \E x \in S : \A y \in S : x <= y
<1>1. PICK R : R = OpToRel(<, Nat)
  OBVIOUS
<1>2. IsWellFoundedOn(R, Nat)
  BY <1>1, NatLessThanWellFounded
<1>3. PICK x \in S : \A y \in S : ~ (<<y, x>> \in R)
  BY <1>2, WFMin
<1>4. \A y \in S : ~(y < x)
  BY <1>1, <1>3 DEF OpToRel
<1> QED BY <1>3, <1>4

\* A set of finite sets has a smallest member.
LEMMA Smallest ==
  ASSUME NEW F, F # {}, \A s \in F : IsFiniteSet(s)
  PROVE  \E s \in F : \A x \in s : s \ {x} \notin F
<1> DEFINE sizes == {Cardinality(s) : s \in F}
<1>1. sizes \in SUBSET Nat /\ sizes # {}
  BY FS_CardinalityType
<1>2. PICK c \in sizes : \A d \in sizes : c <= d
  BY <1>1, LeastElement
<1>3. PICK s \in F : Cardinality(s) = c
  OBVIOUS
<1>4. ASSUME NEW x \in s, s \ {x} \in F PROVE FALSE
  <2>1. Cardinality(s \ {x}) = c - 1 /\ c \in Nat
    <3>1. IsFiniteSet(s)
      OBVIOUS
    <3>2. Cardinality(s \ {x}) = Cardinality(s) - 1 /\ Cardinality(s) \in Nat
      BY <3>1, FS_RemoveElement, FS_CardinalityType
    <3> QED BY <1>3, <3>2
  <2>2. Cardinality(s \ {x}) \in sizes
    BY <1>4
  <2>3. c <= c - 1
    BY <1>2, <2>1, <2>2
  <2> QED BY <2>1, <2>3
<1> QED BY <1>4

\* g adds up the values v over every part of D, in whatever order.
AddsUp(g, v, D) ==
  /\ g \in [SUBSET D -> Int]
  /\ g[{}] = 0
  /\ \A s \in SUBSET D : \A x \in s : g[s] = v[x] + g[s \ {x}]

\* One more value.
LEMMA AddsUpNext ==
  ASSUME NEW D, NEW k \in D, NEW v, v[k] \in Int, \A x \in D : v[x] \in Int,
         NEW g, AddsUp(g, v, D \ {k})
  PROVE  \E h : AddsUp(h, v, D)
<1> DEFINE own(s) == IF k \in s THEN v[k] ELSE 0
           h == [s \in SUBSET D |-> g[s \ {k}] + own(s)]
<1>1. g \in [SUBSET (D \ {k}) -> Int] /\ g[{}] = 0
      /\ \A s \in SUBSET (D \ {k}) : \A x \in s : g[s] = v[x] + g[s \ {x}]
  BY DEF AddsUp
<1>2. \A s \in SUBSET D : s \ {k} \in SUBSET (D \ {k}) /\ own(s) \in Int
  OBVIOUS
<1>3. h \in [SUBSET D -> Int]
  <2> HIDE DEF own
  <2> QED BY <1>1, <1>2
<1>4. h[{}] = 0
  BY <1>1
<1>5. ASSUME NEW s \in SUBSET D, NEW x \in s PROVE h[s] = v[x] + h[s \ {x}]
  <2>0. /\ h[s] = g[s \ {k}] + own(s) /\ s \ {x} \in SUBSET D
        /\ h[s \ {x}] = g[(s \ {x}) \ {k}] + own(s \ {x})
    OBVIOUS
  <2>1. v[x] \in Int /\ g[s \ {k}] \in Int /\ g[(s \ {x}) \ {k}] \in Int
    BY <1>1, <1>2, <2>0
  <2>2. CASE x = k
    <3>1. (s \ {x}) \ {k} = s \ {k} /\ own(s) = v[x] /\ own(s \ {x}) = 0
      BY <2>2
    <3> HIDE DEF h, own
    <3>2. h[s] = g[s \ {k}] + v[x] /\ h[s \ {x}] = g[s \ {k}] + 0
      BY <2>0, <3>1, Zenon
    <3>3. h[s \ {x}] = g[s \ {k}]
      BY <2>1, <3>2
    <3>4. g[s \ {k}] + v[x] = v[x] + g[s \ {k}]
      BY <2>1
    <3> QED BY <3>2, <3>3, <3>4
  <2>3. CASE x # k
    <3>1. (s \ {x}) \ {k} = (s \ {k}) \ {x} /\ own(s \ {x}) = own(s) /\ x \in s \ {k}
      BY <2>3
    <3>2. g[s \ {k}] = v[x] + g[(s \ {k}) \ {x}]
      BY <1>1, <1>2, <3>1
    <3>3. own(s) \in Int
      BY <1>2
    <3> HIDE DEF h, own
    <3>4. /\ h[s] = (v[x] + g[(s \ {k}) \ {x}]) + own(s)
          /\ h[s \ {x}] = g[(s \ {k}) \ {x}] + own(s)
      BY <2>0, <3>1, <3>2, Zenon
    <3>5. g[(s \ {k}) \ {x}] \in Int
      BY <2>1, <3>1, Zenon
    <3>6. (v[x] + g[(s \ {k}) \ {x}]) + own(s) = v[x] + (g[(s \ {k}) \ {x}] + own(s))
      BY <2>1, <3>3, <3>5
    <3> QED BY <3>4, <3>6
  <2> QED BY <2>2, <2>3
<1> HIDE DEF h
<1> QED BY <1>3, <1>4, <1>5 DEF AddsUp

\* Any values over a finite set add up.
LEMMA AddsUpExists ==
  ASSUME NEW D, IsFiniteSet(D), NEW v \in [D -> Int]
  PROVE  \E g : AddsUp(g, v, D)
<1> DEFINE Without == {s \in SUBSET D : ~ \E g : AddsUp(g, v, s)}
<1>1. ASSUME Without # {} PROVE FALSE
  <2>1. \A s \in Without : IsFiniteSet(s)
    BY FS_Subset
  <2>2. PICK s \in Without : \A x \in s : s \ {x} \notin Without
    <3> HIDE DEF Without
    <3> QED BY <1>1, <2>1, Smallest
  <2>3. CASE s = {}
    <3> DEFINE g == [x \in SUBSET {} |-> 0]
    <3>1. g \in [SUBSET {} -> Int] /\ g[{}] = 0
      OBVIOUS
    <3>2. \A t \in SUBSET {} : t = {}
      OBVIOUS
    <3> HIDE DEF g
    <3>3. AddsUp(g, v, {})
      BY <3>1, <3>2 DEF AddsUp
    <3> QED BY <2>2, <2>3, <3>3
  <2>4. ASSUME NEW x \in s PROVE FALSE
    <3>1. PICK g : AddsUp(g, v, s \ {x})
      BY <2>2
    <3>2. \A y \in s : v[y] \in Int
      OBVIOUS
    <3>3. \E h : AddsUp(h, v, s)
      BY <3>1, <3>2, AddsUpNext
    <3> QED BY <2>2, <3>3
  <2> QED BY <2>3, <2>4
<1>2. D \in SUBSET D
  OBVIOUS
<1> QED BY <1>1, <1>2

\* The recursion a fold runs, one chosen element at a time.
FoldOf(g, v, D) ==
  g = [s \in SUBSET D |->
         IF s = {} THEN 0 ELSE v[CHOOSE x \in s : TRUE] + g[s \ {CHOOSE x \in s : TRUE}]]

\* What it defines adds up the values.
LEMMA FoldAddsUp ==
  ASSUME NEW D, IsFiniteSet(D), NEW v \in [D -> Int],
         NEW g, AddsUp(g, v, D), NEW h, FoldOf(h, v, D)
  PROVE  h[D] = g[D]
<1> DEFINE Wrong == {s \in SUBSET D : h[s] # g[s]}
<1>1. ASSUME Wrong # {} PROVE FALSE
  <2>1. \A s \in Wrong : IsFiniteSet(s)
    BY FS_Subset
  <2>2. PICK s \in Wrong : \A x \in s : s \ {x} \notin Wrong
    <3> HIDE DEF Wrong
    <3> QED BY <1>1, <2>1, Smallest
  <2>3. h[s] = IF s = {} THEN 0 ELSE v[CHOOSE x \in s : TRUE] + h[s \ {CHOOSE x \in s : TRUE}]
    BY DEF FoldOf
  <2>4. s # {}
    BY <2>2, <2>3 DEF AddsUp
  <2>5. PICK x \in s : x = CHOOSE y \in s : TRUE
    BY <2>4
  <2>6. h[s \ {x}] = g[s \ {x}]
    BY <2>2
  <2>7. g[s] = v[x] + g[s \ {x}]
    BY DEF AddsUp
  <2> QED BY <2>2, <2>3, <2>4, <2>5, <2>6, <2>7
<1>2. D \in SUBSET D
  OBVIOUS
<1> QED BY <1>1, <1>2

\* And there is such a function, so that choosing it yields it.
LEMMA FoldExists ==
  ASSUME NEW D, IsFiniteSet(D), NEW v \in [D -> Int]
  PROVE  \E g : FoldOf(g, v, D) /\ AddsUp(g, v, D)
<1>1. PICK g : AddsUp(g, v, D)
  BY AddsUpExists
<1>2. \A s \in SUBSET D :
        g[s] = IF s = {} THEN 0 ELSE v[CHOOSE x \in s : TRUE] + g[s \ {CHOOSE x \in s : TRUE}]
  <2> SUFFICES ASSUME NEW s \in SUBSET D, s # {}
               PROVE  g[s] = v[CHOOSE x \in s : TRUE] + g[s \ {CHOOSE x \in s : TRUE}]
    BY <1>1 DEF AddsUp
  <2>1. PICK x \in s : x = CHOOSE y \in s : TRUE
    OBVIOUS
  <2> QED BY <1>1, <2>1 DEF AddsUp
<1>3. g = [s \in SUBSET D |-> g[s]]
  BY <1>1 DEF AddsUp
<1> QED BY <1>1, <1>2, <1>3 DEF FoldOf

\* The sum of a function is what its values add up to.
LEMMA SumAddsUp ==
  ASSUME NEW D, IsFiniteSet(D), NEW v \in [D -> Int], NEW g, AddsUp(g, v, D)
  PROVE  Sum(v) = g[D]
<1> DEFINE h == CHOOSE f : FoldOf(f, v, D)
<1>1. Sum(v) =
       (CHOOSE f : f = [s \in SUBSET DOMAIN v |->
          IF s = {} THEN 0 ELSE v[CHOOSE x \in s : TRUE] + f[s \ {CHOOSE x \in s : TRUE}]])[DOMAIN v]
  BY Zenon DEF Sum, FoldFunction, FoldFunctionOnSet, MapThenFoldSet
<1>2. DOMAIN v = D
  OBVIOUS
<1>3. Sum(v) = h[D]
  BY <1>1, <1>2 DEF FoldOf
<1>4. FoldOf(h, v, D)
  BY FoldExists
<1> HIDE DEF h
<1> QED BY <1>3, <1>4, FoldAddsUp

\* The sum of integers over a finite set is an integer.
LEMMA SumType ==
  ASSUME NEW D, IsFiniteSet(D), NEW v \in [D -> Int]
  PROVE  Sum(v) \in Int
<1>1. PICK g : AddsUp(g, v, D)
  BY AddsUpExists
<1>2. g[D] \in Int
  BY <1>1 DEF AddsUp
<1> QED BY <1>1, <1>2, SumAddsUp

\* Values carried along by a renaming of the elements have the same sum.
LEMMA SumRenamed ==
  ASSUME NEW D, IsFiniteSet(D), NEW E, IsFiniteSet(E), NEW b \in [D -> E],
         \A x, y \in D : b[x] = b[y] => x = y, \A y \in E : \E x \in D : b[x] = y,
         NEW v \in [D -> Int], NEW w \in [E -> Int], \A x \in D : v[x] = w[b[x]]
  PROVE  Sum(v) = Sum(w)
<1>1. PICK h : AddsUp(h, w, E)
  BY AddsUpExists
<1> DEFINE image(s) == {b[x] : x \in s}
           g == [s \in SUBSET D |-> h[image(s)]]
<1>2. \A s \in SUBSET D : image(s) \in SUBSET E
  OBVIOUS
<1>3. image({}) = {} /\ image(D) = E
  OBVIOUS
<1>4. ASSUME NEW s \in SUBSET D, NEW x \in s
      PROVE  image(s \ {x}) = image(s) \ {b[x]} /\ b[x] \in image(s)
  OBVIOUS
<1> HIDE DEF image
<1>5. AddsUp(g, v, D)
  <2>1. g \in [SUBSET D -> Int] /\ g[{}] = 0
    BY <1>1, <1>2, <1>3 DEF AddsUp
  <2>2. ASSUME NEW s \in SUBSET D, NEW x \in s PROVE g[s] = v[x] + g[s \ {x}]
    <3>1. h[image(s)] = w[b[x]] + h[image(s) \ {b[x]}]
      BY <1>1, <1>2, <1>4 DEF AddsUp
    <3>2. g[s] = h[image(s)] /\ g[s \ {x}] = h[image(s \ {x})]
      OBVIOUS
    <3>3. v[x] = w[b[x]]
      OBVIOUS
    <3> HIDE DEF g
    <3> QED BY <1>4, <3>1, <3>2, <3>3
  <2> HIDE DEF g
  <2> QED BY <2>1, <2>2 DEF AddsUp
<1>6. g[D] = h[E]
  BY <1>3
<1> HIDE DEF g
<1> QED BY <1>1, <1>5, <1>6, SumAddsUp

\* The fold of createOrder over the prices of the addons is a sum as well.
LEMMA AddonsAddUp ==
  ASSUME NEW D, IsFiniteSet(D), NEW item, DOMAIN item.addons = D,
         \A j \in D : AddonPrice[item.addons[j]] \in Int
  PROVE  /\ lineAddonsTotal(item) \in Int
         /\ lineAddonsTotal(item) = Sum([j \in DOMAIN item.addons |-> AddonPrice[item.addons[j]]])
<1> DEFINE v == [j \in DOMAIN item.addons |-> AddonPrice[item.addons[j]]]
           Eq(f) == f = [s \in SUBSET D |->
                     IF s = {} THEN 0
                     ELSE AddonPrice[item.addons[CHOOSE x \in s : TRUE]] + f[s \ {CHOOSE x \in s : TRUE}]]
           h == CHOOSE f : Eq(f)
<1>1. lineAddonsTotal(item) =
       (CHOOSE f : f = [s \in SUBSET DOMAIN item.addons |->
          IF s = {} THEN 0
          ELSE AddonPrice[item.addons[CHOOSE x \in s : TRUE]]
                 + f[s \ {CHOOSE x \in s : TRUE}]])[DOMAIN item.addons]
  BY Zenon DEF lineAddonsTotal, FoldFunction, FoldFunctionOnSet, MapThenFoldSet
<1>2. lineAddonsTotal(item) = h[D]
  BY <1>1
<1>3. v \in [D -> Int]
  OBVIOUS
<1>4. ASSUME NEW f PROVE Eq(f) <=> FoldOf(f, v, D)
  <2>1. ASSUME NEW s \in SUBSET D, s # {}
        PROVE  v[CHOOSE x \in s : TRUE] = AddonPrice[item.addons[CHOOSE x \in s : TRUE]]
    <3>1. (CHOOSE x \in s : TRUE) \in D
      BY <2>1
    <3> QED BY <3>1
  <2> HIDE DEF v
  <2>2. [s \in SUBSET D |->
           IF s = {} THEN 0 ELSE v[CHOOSE x \in s : TRUE] + f[s \ {CHOOSE x \in s : TRUE}]]
        = [s \in SUBSET D |->
           IF s = {} THEN 0
           ELSE AddonPrice[item.addons[CHOOSE x \in s : TRUE]] + f[s \ {CHOOSE x \in s : TRUE}]]
    BY <2>1
  <2> QED BY <2>2 DEF FoldOf
<1>5. PICK g : FoldOf(g, v, D) /\ AddsUp(g, v, D)
  BY <1>3, FoldExists
<1>6. Eq(h)
  <2> HIDE DEF Eq, v
  <2> QED BY <1>4, <1>5
<1>7. FoldOf(h, v, D)
  BY <1>4, <1>6
<1> HIDE DEF h, v, Eq
<1>8. h[D] = g[D] /\ Sum(v) = g[D]
  BY <1>3, <1>5, <1>7, FoldAddsUp, SumAddsUp
<1>9. g[D] \in Int
  BY <1>5 DEF AddsUp
<1> QED BY <1>2, <1>8, <1>9 DEF v

\* Running totals end at the sum, by induction on the number of lines.
LEMMA RunningTotalIsSum ==
  ASSUME NEW n \in Nat, NEW v \in [1 .. n -> Int], NEW f \in [0 .. n -> Int], f[0] = 0,
         \A i \in 1 .. n : f[i] = f[i - 1] + v[i]
  PROVE  f[n] = Sum(v)
<1>0. IsFiniteSet(1 .. n)
  BY FS_Interval
<1>1. PICK g : AddsUp(g, v, 1 .. n)
  BY <1>0, AddsUpExists
<1> DEFINE Wrong == {k \in 0 .. n : f[k] # g[1 .. k]}
<1>2. ASSUME Wrong # {} PROVE FALSE
  <2>0. Wrong \in SUBSET Nat
    OBVIOUS
  <2>1. PICK k \in Wrong : \A j \in Wrong : k <= j
    BY <1>2, <2>0, LeastElement
  <2>2. CASE k = 0
    <3>1. 1 .. 0 = {}
      OBVIOUS
    <3> QED BY <1>1, <2>1, <2>2, <3>1 DEF AddsUp
  <2>3. CASE k # 0
    <3>1. k \in 1 .. n /\ k - 1 \in 0 .. n /\ ~(k <= k - 1)
      BY <2>1, <2>3
    <3>2. f[k - 1] = g[1 .. (k - 1)]
      BY <2>1, <3>1
    <3>3. (1 .. k) \ {k} = 1 .. (k - 1) /\ 1 .. k \in SUBSET (1 .. n) /\ k \in 1 .. k
      <4>1. k \in Nat /\ k <= n /\ 0 < k
        BY <3>1
      <4>2. ASSUME NEW j \in Int PROVE j \in (1 .. k) \ {k} <=> j \in 1 .. (k - 1)
        BY <4>1
      <4>3. 1 .. k \subseteq 1 .. n /\ k \in 1 .. k
        BY <4>1
      <4>4. (1 .. k) \ {k} \subseteq Int /\ 1 .. (k - 1) \subseteq Int
        OBVIOUS
      <4>5. (1 .. k) \ {k} = 1 .. (k - 1)
        BY <4>2, <4>4, Zenon
      <4> QED BY <4>3, <4>5
    <3>4. g[1 .. k] = v[k] + g[(1 .. k) \ {k}]
      BY <1>1, <3>3 DEF AddsUp
    <3>5. f[k] = f[k - 1] + v[k] /\ f[k - 1] \in Int /\ v[k] \in Int
      BY <3>1
    <3>6. f[k - 1] + v[k] = v[k] + f[k - 1]
      BY <3>5
    <3>7. g[1 .. k] = f[k]
      BY <3>2, <3>3, <3>4, <3>5, <3>6, Zenon
    <3> QED BY <2>1, <3>7
  <2> QED BY <2>2, <2>3
<1>3. f[n] = g[1 .. n]
  <2>1. n \in 0 .. n
    OBVIOUS
  <2> QED BY <1>2, <2>1
<1> QED BY <1>0, <1>1, <1>3, SumAddsUp

-----------------------------------------------------------------------------
(* Lemmas about request bodies and money. *)

\* Binding a body to the scanned table changes its table only.
LEMMA BoundBody ==
  ASSUME NEW d \in Dtos, NEW t
  PROVE  LET b == [d EXCEPT !.table = t]
         IN /\ b.table = t /\ b.token = d.token /\ b.branch = d.branch
            /\ b.items = d.items /\ b.code = d.code
BY DtoAssumption

\* A body bound to a table of the tenant is one of the bound bodies.
LEMMA TableBound ==
  ASSUME NEW d \in Dtos, NEW t \in Tables
  PROVE  [d EXCEPT !.table = t] \in BoundDtos
BY DEF BoundDtos

\* The price of a line is what the reference charges for it.
LEMMA LinePrice ==
  ASSUME NEW item, Priced(item)
  PROVE  /\ totalLinePrice(item) \in Int
         /\ totalLinePrice(item) =
              item.quantity *
                (unitPrice(item) + Sum([j \in DOMAIN item.addons |-> AddonPrice[item.addons[j]]]))
<1> DEFINE sum == Sum([j \in DOMAIN item.addons |-> AddonPrice[item.addons[j]]])
<1>1. lineAddonsTotal(item) \in Int /\ lineAddonsTotal(item) = sum
  <2>1. IsFiniteSet(DOMAIN item.addons)
    BY FS_Interval DEF Priced
  <2> QED BY <2>1, AddonsAddUp DEF Priced
<1> HIDE DEF sum
<1>2. unitPrice(item) \in Int /\ item.quantity \in Int /\ sum \in Int
  BY <1>1 DEF Priced
<1>3. \A u, s, q \in Int : (u + s) * q \in Int /\ (u + s) * q = q * (u + s)
  OBVIOUS
<1>4. totalLinePrice(item) = (unitPrice(item) + sum) * item.quantity
  BY <1>1, Zenon DEF totalLinePrice
<1>5. /\ (unitPrice(item) + sum) * item.quantity \in Int
      /\ (unitPrice(item) + sum) * item.quantity = item.quantity * (unitPrice(item) + sum)
  BY <1>2, <1>3, Zenon
<1> QED BY <1>4, <1>5, Zenon DEF sum

\* A cart whose lines the item loop has charged costs what the reference says.
LEMMA CartPrice ==
  ASSUME NEW items, NEW total, Len(items) \in Nat, DOMAIN items = 1 .. Len(items),
         \A i \in DOMAIN items : Priced(items[i]),
         RunningTotal(items, Len(items), total)
  PROVE  total = ReferenceSubtotal(items)
<1> DEFINE n == Len(items)
           v == [i \in DOMAIN items |-> totalLinePrice(items[i])]
           unit(x) == IF x.variant # None THEN VariantPrice[x.variant]
                      ELSE BasePrice[x.product] + (IF x.size # None THEN SizeAdjust[x.size] ELSE 0)
           price(x) == x.quantity *
                         (unit(x) + Sum([j \in DOMAIN x.addons |-> AddonPrice[x.addons[j]]]))
<1>1. v \in [1 .. n -> Int]
  BY LinePrice
<1>2. PICK f \in [0 .. n -> Int] :
        f[0] = 0 /\ f[n] = total /\ \A i \in 1 .. n : f[i] = f[i - 1] + totalLinePrice(items[i])
  BY Zenon DEF RunningTotal
<1>3. \A i \in 1 .. n : v[i] = totalLinePrice(items[i])
  OBVIOUS
<1>4. total = Sum(v)
  <2>1. \A i \in 1 .. n : f[i] = f[i - 1] + v[i]
    BY <1>2, <1>3, Zenon
  <2> HIDE DEF v
  <2> QED BY <1>1, <1>2, <2>1, RunningTotalIsSum
<1>5. \A i \in DOMAIN items : totalLinePrice(items[i]) = price(items[i])
  BY LinePrice, Zenon DEF unitPrice
<1>6. v = [i \in DOMAIN items |-> price(items[i])]
  <2> HIDE DEF price
  <2> QED BY <1>5, Zenon
<1>7. ReferenceSubtotal(items) = Sum([i \in DOMAIN items |-> price(items[i])])
  BY Zenon DEF ReferenceSubtotal
<1> HIDE DEF v, price
<1> QED BY <1>4, <1>6, <1>7

\* What every body brings: a cart with prices, a branch and a table of the bodies.
LEMMA BodyFields ==
  ASSUME NEW b \in Bodies
  PROVE  /\ b.branch \in {d.branch : d \in Dtos} /\ b.items \in {d.items : d \in Dtos}
         /\ b.table \in {d.table : d \in Dtos} \cup Tables
         /\ Len(b.items) \in Nat \ {0}
         /\ \A i \in 1 .. Len(b.items) : totalLinePrice(b.items[i]) \in Int
<1>0. ASSUME NEW d \in Dtos
      PROVE  \A i \in 1 .. Len(d.items) : totalLinePrice(d.items[i]) \in Int
  BY DtoAssumption, LinePrice
<1>1. CASE b \in Dtos
  BY <1>0, <1>1, DtoAssumption
<1>2. CASE b \in BoundDtos
  <2>1. PICK d \in Dtos, t \in Tables : b = [d EXCEPT !.table = t]
    BY <1>2 DEF BoundDtos
  <2>2. b.table = t /\ b.branch = d.branch /\ b.items = d.items
    BY <2>1, BoundBody
  <2> QED BY <1>0, <2>2, DtoAssumption
<1> QED BY <1>1, <1>2 DEF Bodies

\* The item loop starts with nothing charged.
LEMMA NoLineYet ==
  ASSUME NEW items
  PROVE  RunningTotal(items, 0, 0)
<1> DEFINE f == [i \in 0 .. 0 |-> 0]
<1>1. f \in [0 .. 0 -> Int] /\ f[0] = 0 /\ \A i \in 1 .. 0 : FALSE
  OBVIOUS
<1> HIDE DEF f
<1> QED BY <1>1 DEF RunningTotal

\* A pass of the item loop charges one more line.
LEMMA NextLine ==
  ASSUME NEW items, NEW n \in Nat, NEW sum \in Int, RunningTotal(items, n, sum),
         totalLinePrice(items[n + 1]) \in Int
  PROVE  RunningTotal(items, n + 1, sum + totalLinePrice(items[n + 1]))
<1> DEFINE p(i) == totalLinePrice(items[i])
<1>1. PICK f \in [0 .. n -> Int] :
        f[0] = 0 /\ f[n] = sum /\ \A i \in 1 .. n : f[i] = f[i - 1] + p(i)
  BY DEF RunningTotal
<1> DEFINE g == [i \in 0 .. n + 1 |-> IF i = n + 1 THEN sum + p(n + 1) ELSE f[i]]
<1>0. p(n + 1) \in Int
  OBVIOUS
<1> HIDE DEF p
<1>2. g \in [0 .. n + 1 -> Int] /\ g[0] = 0 /\ g[n + 1] = sum + p(n + 1)
  BY <1>0, <1>1
<1>3. \A i \in 1 .. n + 1 : g[i] = g[i - 1] + p(i)
  <2> SUFFICES ASSUME NEW i \in 1 .. n + 1 PROVE g[i] = g[i - 1] + p(i)
    OBVIOUS
  <2>1. CASE i = n + 1
    BY <1>1, <2>1
  <2>2. CASE i # n + 1
    <3>1. i \in 1 .. n /\ i - 1 \in 0 .. n /\ i \in 0 .. n + 1 /\ i - 1 \in 0 .. n + 1
          /\ i - 1 # n + 1
      BY <2>2
    <3> QED BY <1>1, <2>2, <3>1
  <2> QED BY <2>1, <2>2
<1> HIDE DEF g
<1> QED BY <1>2, <1>3 DEF RunningTotal, p

\* A percentage of a natural amount is natural; of any amount, an integer.
LEMMA PercentType ==
  ASSUME NEW a \in Int, NEW n \in Int
  PROVE  /\ PercentOf(a, n) \in Int
         /\ 0 <= a /\ 0 <= n => 0 <= PercentOf(a, n)
<1> DEFINE p == a * n
<1>1. p \in Int /\ (0 <= a /\ 0 <= n => 0 <= p)
  OBVIOUS
<1> HIDE DEF p
<1>2. (p + 50) \div 100 \in Int /\ (0 <= p => 0 <= (p + 50) \div 100)
  BY <1>1
<1> QED BY <1>1, <1>2 DEF PercentOf, p

\* The discount engine keeps the discount between zero and the subtotal.
LEMMA DiscountBounded ==
  ASSUME NEW sum \in Int
  PROVE  computeDiscountAmount(sum) \in Int /\ Bounded(computeDiscountAmount(sum), sum)
<1> USE RateAssumption
<1>1. CASE Discount.value <= 0 \/ sum <= 0
  BY <1>1 DEF computeDiscountAmount, Bounded
<1>2. CASE ~(Discount.value <= 0 \/ sum <= 0)
  <2>1. PercentOf(sum, Discount.value) \in Int /\ 0 <= PercentOf(sum, Discount.value)
    <3>1. Discount.value \in Int /\ 0 <= Discount.value /\ 0 <= sum
      BY <1>2
    <3> QED BY <3>1, PercentType
  <2> QED BY <1>2, <2>1 DEF computeDiscountAmount, Bounded, Least
<1> QED BY <1>1, <1>2

-----------------------------------------------------------------------------
\* Before the first checkout.
LEMMA InitIInv == Init => IInv
<1> SUFFICES ASSUME Init PROVE IInv
  OBVIOUS
<1> USE NoneAssumption, RateAssumption DEF Init
<1>1. TypeOK
  <2>1. active \in BOOLEAN /\ overlapped \in BOOLEAN
    OBVIOUS
  <2> QED BY <2>1 DEF TypeOK
<1>2. (\A r \in Requests : RequestInv(r)) /\ LockInv
  BY DEF RequestInv, LockInv, Checked, InTransaction
<1>3. OrdersInv /\ KitchenInv /\ NoOpenOrderOnDeletedTable
  BY DEF OrdersInv, EveryLineCharged, ChargesAreSound, OrdersAreAtTheirTable, KitchenInv,
         KitchenHearsOfRealOrders, NoOpenOrderOnDeletedTable
<1>4. UsageInv
  <2>1. Discounted = {}
    BY DEF Discounted
  <2> QED BY <2>1, FS_EmptySet DEF UsageInv, UsageCountsOrders
<1>5. AloneInv /\ OveruseNeedsOverlap
  <2>1. AloneInv
    BY DEF AloneInv, OneAtATime, ReadsHold, Checked, Running
  <2>2. WithinUsageLimit
    BY DEF WithinUsageLimit
  <2> QED BY <2>1, <2>2 DEF OveruseNeedsOverlap
<1> QED BY <1>1, <1>2, <1>3, <1>4, <1>5 DEF IInv

-----------------------------------------------------------------------------
(* Steps *)

\* A checkout that a step does not touch keeps what it has established.
LEMMA OthersKeep ==
  ASSUME NEW q \in Requests, RequestInv(q),
         pc'[q] = pc[q], dto'[q] = dto[q], priced'[q] = priced[q], subtotal'[q] = subtotal[q],
         discount'[q] = discount[q], orders'[q] = orders[q]
  PROVE  RequestInv(q)'
BY DEF RequestInv, Seated

\* A step of checkout r between its start and its commit: what is shared stays.
LEMMA StepKeeps ==
  ASSUME IInv, NEW r \in Requests, pc[r] \in Running \ {"broadcast"}, TypeOK', RequestInv(r)',
         lock' = r <=> (pc'[r] = "commit" /\ dto[r].code # None),
         \A q \in Requests \ {r} : lock' = q <=> lock = q,
         \A q \in Requests \ {r} : /\ pc'[q] = pc[q] /\ priced'[q] = priced[q]
                                   /\ subtotal'[q] = subtotal[q] /\ discount'[q] = discount[q],
         UNCHANGED <<dto, kitchen, tables, usageCount, deleting, overlapped>>,
         ~overlapped => ReadsHold(r)'
  PROVE  IInv'
<1> USE DEF kitchen
<1>0. orders[r] = None
  BY DEF IInv, RequestInv, Running
<1>1. \A q \in Requests : RequestInv(q)'
  BY OthersKeep DEF IInv
<1>2. LockInv'
  BY DEF IInv, LockInv
<1>3. OrdersInv'
  BY <1>0 DEF IInv, OrdersInv, EveryLineCharged, ChargesAreSound, OrdersAreAtTheirTable
<1>4. KitchenInv' /\ UsageInv' /\ OveruseNeedsOverlap' /\ NoOpenOrderOnDeletedTable'
  BY DEF IInv, KitchenInv, KitchenHearsOfRealOrders, UsageInv, UsageCountsOrders, Discounted,
         OveruseNeedsOverlap, WithinUsageLimit, NoOpenOrderOnDeletedTable
<1>5. AloneInv'
  <2> SUFFICES ASSUME ~overlapped
               PROVE  /\ OneAtATime' /\ \A q \in Requests : ReadsHold(q)'
                      /\ \A t \in Tables : deleting[t] = "counted" => OpenOrdersAt(t)' = {}
    BY DEF AloneInv
  <2>1. /\ OneAtATime /\ \A q \in Requests : ReadsHold(q)
        /\ \A t \in Tables : deleting[t] = "counted" => OpenOrdersAt(t) = {}
    BY DEF IInv, AloneInv
  <2>2. OneAtATime'
    BY <2>1 DEF OneAtATime
  <2>3. \A q \in Requests \ {r} : ReadsHold(q)'
    BY <2>1 DEF ReadsHold, HasUse
  <2>4. \A t \in Tables : deleting[t] = "counted" => OpenOrdersAt(t)' = {}
    BY <2>1 DEF OpenOrdersAt
  <2> QED BY <2>2, <2>3, <2>4
<1> QED BY <1>1, <1>2, <1>3, <1>4, <1>5 DEF IInv

\* createGuestOrder up to the tenant gate, and createOrder of the staff.
LEMMA StartSteps ==
  ASSUME IInv, NEW r \in Requests, NEW d \in Dtos, CreateGuestOrder(r, d) \/ CreateOrder(r, d)
  PROVE  IInv'
<1> USE NoneAssumption DEF menu, kitchen, locals
<1>0. TypeOK /\ RequestInv(r) /\ pc[r] = "new" /\ NoteOverlap
      /\ UNCHANGED <<unavailable, tenant, active, orders, tickets, open, announced, tables,
                     usageCount, lock, priced, subtotal, discount, deleting>>
  BY DEF IInv, CreateGuestOrder, CreateOrder, Start
<1>1. /\ pc'[r] \in {"tenant", "table", "items", "rejected"}
      /\ dto'[r] \in Bodies
      /\ pc'[r] # "rejected" /\ dto'[r].token # None => dto'[r].table = dto'[r].token
      /\ pc'[r] = "items" => dto'[r].table = None
      /\ pc' \in [Requests -> Running \cup {"new", "rejected", "failed", "done"}]
      /\ dto' \in [Requests -> Bodies \cup {None}]
      /\ \A q \in Requests \ {r} : pc'[q] = pc[q] /\ dto'[q] = dto[q]
  <2>1. CASE CreateGuestOrder(r, d)
    <3> DEFINE b == IF QrTokenAccepted(d) THEN [d EXCEPT !.table = d.token] ELSE d
               p == IF QrTokenAccepted(d) THEN "tenant" ELSE "rejected"
    <3>1. pc' = [pc EXCEPT ![r] = p] /\ dto' = [dto EXCEPT ![r] = b]
      BY <2>1 DEF CreateGuestOrder, GotoIf, Goto
    <3>2. b \in Bodies /\ p \in {"tenant", "rejected"} /\ (p # "rejected" => b.table = b.token)
      <4>1. CASE QrTokenAccepted(d)
        <5>1. d.token \in Tables
          BY <1>0, <4>1 DEF QrTokenAccepted, TypeOK
        <5>2. b = [d EXCEPT !.table = d.token] /\ p = "tenant"
          BY <4>1
        <5> HIDE DEF b, p
        <5>3. [d EXCEPT !.table = d.token] \in BoundDtos
          BY <5>1, TableBound
        <5>4. b.table = b.token
          BY <5>2, BoundBody
        <5> QED BY <5>2, <5>3, <5>4 DEF Bodies
      <4>2. CASE ~QrTokenAccepted(d)
        BY <4>2 DEF Bodies
      <4> QED BY <4>1, <4>2
    <3> HIDE DEF b, p
    <3> QED BY <1>0, <3>1, <3>2 DEF TypeOK, Running, Bodies
  <2>2. CASE CreateOrder(r, d)
    <3> DEFINE p == IF d.table = None THEN "items" ELSE "table"
    <3>1. pc' = [pc EXCEPT ![r] = p] /\ dto' = [dto EXCEPT ![r] = d] /\ d.token = None
      BY <2>2 DEF CreateOrder, Goto
    <3>2. d \in Bodies /\ p \in {"items", "table"} /\ (p = "items" => d.table = None)
      BY DEF Bodies
    <3> HIDE DEF p
    <3> QED BY <1>0, <3>1, <3>2 DEF TypeOK, Running, Bodies
  <2> QED BY <2>1, <2>2
<1>2. TypeOK'
  <2>1. overlapped' \in BOOLEAN
    BY <1>0 DEF NoteOverlap
  <2> QED BY <1>0, <1>1, <2>1 DEF TypeOK, Bodies
<1>3. orders[r] = None /\ priced[r] = 0 /\ subtotal[r] = 0
  BY <1>0 DEF RequestInv
<1>4. \A q \in Requests : RequestInv(q)'
  <2>1. RequestInv(r)'
    <3>1. Len(dto'[r].items) \in Nat \ {0} /\ RunningTotal(dto'[r].items, 0, 0)
      BY <1>1, BodyFields, NoLineYet
    <3> QED BY <1>0, <1>1, <1>3, <3>1 DEF RequestInv, Seated, Checked, InTransaction
  <2>2. ASSUME NEW q \in Requests \ {r} PROVE RequestInv(q)'
    BY <1>0, <1>1, OthersKeep DEF IInv
  <2> QED BY <2>1, <2>2
<1>5. LockInv'
  BY <1>0, <1>1 DEF IInv, LockInv
<1>6. OrdersInv'
  BY <1>0, <1>1, <1>3 DEF IInv, OrdersInv, EveryLineCharged, ChargesAreSound, OrdersAreAtTheirTable
<1>7. overlapped => overlapped'
  BY <1>0 DEF NoteOverlap, TypeOK
<1>8. KitchenInv' /\ UsageInv'
  BY <1>0 DEF IInv, KitchenInv, KitchenHearsOfRealOrders, UsageInv, UsageCountsOrders, Discounted
<1>9. OveruseNeedsOverlap' /\ NoOpenOrderOnDeletedTable'
  BY <1>0, <1>7 DEF IInv, OveruseNeedsOverlap, WithinUsageLimit, NoOpenOrderOnDeletedTable
<1>10. AloneInv'
  <2> SUFFICES ASSUME ~overlapped'
               PROVE  /\ OneAtATime' /\ \A q \in Requests : ReadsHold(q)'
                      /\ \A t \in Tables : deleting[t] = "counted" => OpenOrdersAt(t)' = {}
    BY <1>0 DEF AloneInv
  <2>1. /\ \A q \in Requests : pc[q] \notin Running
        /\ \A t \in Tables : deleting[t] = "no"
    BY <1>0 DEF NoteOverlap, Idle, InFlight
  <2>2. OneAtATime'
    BY <1>0, <1>1, <2>1 DEF OneAtATime
  <2>3. \A q \in Requests \ {r} : pc'[q] \notin Running /\ lock # q
    BY <1>1, <2>1 DEF IInv, LockInv, Running
  <2>4. lock # r
    BY <1>0 DEF IInv, LockInv
  <2>5. \A q \in Requests : ReadsHold(q)'
    BY <1>0, <1>1, <2>3, <2>4 DEF ReadsHold, Checked, Running
  <2> QED BY <2>1, <2>2, <2>5
<1> QED BY <1>2, <1>4, <1>5, <1>6, <1>8, <1>9, <1>10 DEF IInv

\* The tenant gate, and step 1b of createOrder.
LEMMA GateSteps ==
  ASSUME IInv, NEW r \in Requests, CheckTenantStatus(r) \/ ValidateTable(r)
  PROVE  IInv'
<1> USE NoneAssumption DEF menu, kitchen, locals
<1>0. TypeOK /\ RequestInv(r) /\ pc[r] \in {"tenant", "table"}
      /\ UNCHANGED <<unavailable, tenant, active, orders, tickets, open, announced, dto, priced,
                     subtotal, discount, tables, usageCount, lock, deleting, overlapped>>
  BY DEF IInv, CheckTenantStatus, ValidateTable
<1>1. /\ pc'[r] \in {"table", "items", "rejected"}
      /\ pc'[r] = "items" => dto[r].table \in tables /\ BranchOf[dto[r].table] = dto[r].branch
      /\ pc' \in [Requests -> Running \cup {"new", "rejected", "failed", "done"}]
      /\ \A q \in Requests \ {r} : pc'[q] = pc[q]
  BY <1>0 DEF CheckTenantStatus, ValidateTable, GotoIf, Goto, TypeOK, Running
<1>2. TypeOK'
  BY <1>0, <1>1 DEF TypeOK
<1>3. RequestInv(r)'
  <2>1. Len(dto[r].items) \in Nat \ {0} /\ RunningTotal(dto[r].items, 0, 0)
    BY <1>0, BodyFields, NoLineYet DEF RequestInv
  <2> QED BY <1>0, <1>1, <2>1 DEF RequestInv, Seated, Checked, InTransaction, TypeOK
<1>4. lock # r
  BY <1>0 DEF IInv, LockInv
<1>5. ReadsHold(r)'
  BY <1>0, <1>1, <1>4 DEF ReadsHold, Checked
<1> QED BY <1>0, <1>1, <1>2, <1>3, <1>4, <1>5, StepKeeps DEF Running

\* A pass of the item loop.
LEMMA PriceStep ==
  ASSUME IInv, NEW r \in Requests, PriceItem(r)
  PROVE  IInv'
<1> USE DEF menu, kitchen, locals
<1> DEFINE n == priced[r]
           items == dto[r].items
           price == totalLinePrice(items[n + 1])
<1>0. TypeOK /\ RequestInv(r) /\ pc[r] = "items"
      /\ UNCHANGED <<unavailable, tenant, active, orders, tickets, open, announced, dto,
                     discount, tables, usageCount, lock, deleting, overlapped>>
  BY DEF IInv, PriceItem
<1>1. /\ n \in Nat /\ subtotal[r] \in Int /\ Len(items) \in Nat /\ n < Len(items)
      /\ price \in Int /\ RunningTotal(items, n, subtotal[r])
      /\ dto[r] \in Bodies /\ Seated(dto[r])
  <2>1. /\ n \in Nat /\ subtotal[r] \in Int /\ dto[r] \in Bodies /\ n < Len(items)
        /\ RunningTotal(items, n, subtotal[r]) /\ Seated(dto[r])
    BY <1>0 DEF RequestInv, TypeOK, Checked
  <2>2. Len(items) \in Nat /\ \A i \in 1 .. Len(items) : totalLinePrice(items[i]) \in Int
    BY <2>1, BodyFields
  <2>3. n + 1 \in 1 .. Len(items)
    BY <2>1, <2>2
  <2> QED BY <2>1, <2>2, <2>3
<1>2. RunningTotal(items, n + 1, subtotal[r] + price)
  BY <1>1, NextLine
<1>3. /\ \/ pc' = [pc EXCEPT ![r] = "rejected"]
         \/ /\ pc' = [pc EXCEPT ![r] = IF n + 1 = Len(items) THEN "lookup" ELSE "items"]
            /\ subtotal' = [subtotal EXCEPT ![r] = @ + price]
      /\ \E s \in {subtotal[r], subtotal[r] + price} : subtotal' = [subtotal EXCEPT ![r] = s]
      /\ priced' = [priced EXCEPT ![r] = n + 1]
  BY <1>0 DEF PriceItem, GotoIf, Goto, TypeOK
<1> HIDE DEF price
<1>4. /\ pc'[r] \in {"rejected", "lookup", "items"}
      /\ pc'[r] = "lookup" => n + 1 = Len(items)
      /\ pc'[r] = "items" => n + 1 # Len(items)
      /\ pc'[r] # "rejected" => subtotal'[r] = subtotal[r] + price
      /\ priced'[r] = n + 1
  BY <1>0, <1>3 DEF TypeOK
<1>5. \A q \in Requests \ {r} : /\ pc'[q] = pc[q] /\ priced'[q] = priced[q]
                                /\ subtotal'[q] = subtotal[q] /\ discount'[q] = discount[q]
  BY <1>0, <1>3 DEF TypeOK
<1>6. TypeOK'
  <2>1. priced' \in [Requests -> Nat]
    BY <1>0, <1>1, <1>3 DEF TypeOK
  <2>2. subtotal' \in [Requests -> Int]
    BY <1>0, <1>1, <1>3 DEF TypeOK
  <2>3. pc' \in [Requests -> Running \cup {"new", "rejected", "failed", "done"}]
    BY <1>0, <1>3 DEF TypeOK, Running
  <2> QED BY <1>0, <2>1, <2>2, <2>3 DEF TypeOK
<1>7. RequestInv(r)'
  <2>1. pc'[r] = "items" => n + 1 < Len(items)
    BY <1>1, <1>4
  <2> QED BY <1>0, <1>1, <1>2, <1>4, <2>1 DEF RequestInv, Seated, Checked, InTransaction
<1>8. lock # r
  BY <1>0 DEF IInv, LockInv
<1>9. ~overlapped => ReadsHold(r)'
  BY <1>0, <1>4, <1>8 DEF IInv, AloneInv, ReadsHold, Checked
<1> QED BY <1>0, <1>4, <1>5, <1>6, <1>7, <1>8, <1>9, StepKeeps DEF Running

\* Step 4: the discount is looked up and validated.
LEMMA LookupStep ==
  ASSUME IInv, NEW r \in Requests, LookUpDiscount(r)
  PROVE  IInv'
<1> USE DEF menu, kitchen, locals
<1>0. TypeOK /\ RequestInv(r) /\ pc[r] = "lookup"
      /\ UNCHANGED <<unavailable, tenant, active, orders, tickets, open, announced, dto,
                     priced, subtotal, tables, usageCount, lock, deleting, overlapped>>
  BY DEF IInv, LookUpDiscount
<1>1. subtotal[r] \in Int
  BY <1>0 DEF TypeOK
<1> DEFINE full == computeDiscountAmount(subtotal[r])
<1>2. full \in Int /\ Bounded(full, subtotal[r]) /\ Bounded(0, subtotal[r])
  <2>1. Bounded(0, subtotal[r])
    BY <1>1 DEF Bounded
  <2> QED BY <1>1, <2>1, DiscountBounded
<1>3. PICK p \in {"commit", "increment", "rejected"}, a \in {full, 0} :
        /\ pc' = [pc EXCEPT ![r] = p] /\ discount' = [discount EXCEPT ![r] = a]
        /\ (p = "commit") = (dto[r].code = None)
        /\ p = "increment" => validateDiscount(active, usageCount, subtotal[r])
  BY <1>0 DEF LookUpDiscount, Goto, GotoIf
<1> HIDE DEF full
<1>4. /\ pc'[r] = p /\ discount'[r] = a /\ a \in Int /\ Bounded(a, subtotal[r])
      /\ \A q \in Requests \ {r} : pc'[q] = pc[q] /\ discount'[q] = discount[q]
  BY <1>0, <1>2, <1>3 DEF TypeOK
<1>5. TypeOK'
  <2>1. discount' \in [Requests -> Int]
    BY <1>0, <1>3, <1>4 DEF TypeOK
  <2>2. pc' \in [Requests -> Running \cup {"new", "rejected", "failed", "done"}]
    BY <1>0, <1>3 DEF TypeOK, Running
  <2> QED BY <1>0, <2>1, <2>2 DEF TypeOK
<1>6. RequestInv(r)'
  BY <1>0, <1>3, <1>4 DEF RequestInv, Seated, Checked, InTransaction
<1>7. lock # r
  BY <1>0 DEF IInv, LockInv
<1>8. ~overlapped => ReadsHold(r)'
  <2>1. p = "increment" => HasUse
    BY <1>3 DEF validateDiscount, HasUse
  <2> QED BY <1>0, <1>3, <1>4, <1>7, <2>1 DEF IInv, AloneInv, ReadsHold, Checked, HasUse
<1> QED BY <1>0, <1>3, <1>4, <1>5, <1>6, <1>7, <1>8, StepKeeps DEF Running

\* The use is counted under the row lock.
LEMMA IncrementStep ==
  ASSUME IInv, NEW r \in Requests, IncrementUsage(r)
  PROVE  IInv'
<1> USE NoneAssumption DEF menu, kitchen, locals
<1>0. TypeOK /\ RequestInv(r) /\ pc[r] = "increment" /\ lock = None /\ lock' = r
      /\ pc' = [pc EXCEPT ![r] = "commit"]
      /\ UNCHANGED <<unavailable, tenant, active, orders, tickets, open, announced, dto, priced,
                     subtotal, discount, tables, usageCount, deleting, overlapped>>
  BY DEF IInv, IncrementUsage, Goto
<1>1. pc'[r] = "commit" /\ \A q \in Requests \ {r} : pc'[q] = pc[q]
  BY <1>0 DEF TypeOK
<1>2. TypeOK'
  BY <1>0 DEF TypeOK, Running
<1>3. RequestInv(r)' /\ dto[r].code # None
  BY <1>0, <1>1 DEF RequestInv, Seated, Checked, InTransaction
<1>4. ~overlapped => ReadsHold(r)'
  BY <1>0, <1>1 DEF IInv, AloneInv, ReadsHold, Checked, HasUse
<1> QED BY <1>0, <1>1, <1>2, <1>3, <1>4, StepKeeps DEF Running

\* The transaction is rolled back and its row lock released.
LEMMA RollbackStep ==
  ASSUME IInv, NEW r \in Requests, Rollback(r)
  PROVE  IInv'
<1> USE NoneAssumption DEF menu, kitchen, locals
<1>0. /\ TypeOK /\ RequestInv(r) /\ pc[r] \in InTransaction
      /\ lock' = IF lock = r THEN None ELSE lock
      /\ pc' = [pc EXCEPT ![r] = "failed"]
      /\ UNCHANGED <<unavailable, tenant, active, orders, tickets, open, announced, dto, priced,
                     subtotal, discount, tables, usageCount, deleting, overlapped>>
  BY DEF IInv, Rollback, Goto
<1>1. pc'[r] = "failed" /\ \A q \in Requests \ {r} : pc'[q] = pc[q]
  BY <1>0 DEF TypeOK
<1>2. TypeOK'
  BY <1>0 DEF TypeOK
<1>3. RequestInv(r)'
  BY <1>0, <1>1 DEF RequestInv, Checked, InTransaction
<1>4. /\ lock' # r
      /\ \A q \in Requests \ {r} : lock' = q <=> lock = q
  BY <1>0
<1>5. ReadsHold(r)'
  BY <1>1, <1>4 DEF ReadsHold, Checked
<1> QED BY <1>0, <1>1, <1>2, <1>3, <1>4, <1>5, StepKeeps DEF Running, InTransaction

\* The commit: the order, its ticket and the use become visible together.
LEMMA CommitStep ==
  ASSUME IInv, NEW r \in Requests, Commit(r)
  PROVE  IInv'
<1> USE NoneAssumption, RateAssumption DEF menu, kitchen, locals
<1> DEFINE o == NewOrder(r)
           tax == taxAmount(subtotal[r])
<1>0. /\ TypeOK /\ RequestInv(r) /\ pc[r] = "commit" /\ LockInv
      /\ orders' = [orders EXCEPT ![r] = o] /\ tickets' = tickets \cup {r} /\ open' = open \cup {r}
      /\ usageCount' = IF lock = r THEN usageCount + 1 ELSE usageCount
      /\ lock' = IF lock = r THEN None ELSE lock
      /\ pc' = [pc EXCEPT ![r] = "broadcast"]
      /\ UNCHANGED <<unavailable, tenant, active, announced, dto, priced,
                     subtotal, discount, tables, deleting, overlapped>>
  BY DEF IInv, Commit, Goto
<1>1. /\ dto[r] \in Bodies /\ Seated(dto[r]) /\ subtotal[r] \in Int /\ discount[r] \in Int
      /\ Bounded(discount[r], subtotal[r]) /\ usageCount \in Nat
      /\ RunningTotal(dto[r].items, Len(dto[r].items), subtotal[r])
      /\ dto[r].token # None => dto[r].table = dto[r].token
      /\ orders[r] = None
  BY <1>0 DEF RequestInv, TypeOK, Checked, InTransaction
<1>2. tax \in Int /\ (0 <= subtotal[r] => 0 <= tax)
  <2>1. TaxPercent \in Int /\ 0 <= TaxPercent
    OBVIOUS
  <2> QED BY <1>1, <2>1, PercentType DEF taxAmount
<1> HIDE DEF tax
<1>3. /\ o.branch = dto[r].branch /\ o.table = dto[r].table /\ o.items = dto[r].items
      /\ o.subtotal = subtotal[r] /\ o.discount = discount[r] /\ o.tax = tax
      /\ o.total = subtotal[r] + tax - discount[r]
      /\ o.discounted = (dto[r].code # None)
  BY DEF NewOrder, tax
<1>4. o \in Order /\ o # None
  <2>1. /\ dto[r].branch \in {d.branch : d \in Dtos} /\ dto[r].items \in {d.items : d \in Dtos}
        /\ dto[r].table \in {d.table : d \in Dtos} \cup Tables
    BY <1>1, BodyFields
  <2>2. (dto[r].code # None) \in BOOLEAN /\ subtotal[r] + tax - discount[r] \in Int
    BY <1>1, <1>2
  <2>3. o \in Order
    BY <1>1, <1>2, <2>1, <2>2 DEF NewOrder, Order, tax
  <2> QED BY <2>3
<1> HIDE DEF o
<1>5. /\ orders'[r] = o /\ \A q \in Requests \ {r} : orders'[q] = orders[q]
      /\ orders' \in [Requests -> Order \cup {None}]
      /\ pc'[r] = "broadcast" /\ \A q \in Requests \ {r} : pc'[q] = pc[q]
  BY <1>0, <1>4 DEF TypeOK
<1>6. TypeOK'
  <2>1. usageCount' \in Nat /\ lock' \in Requests \cup {None}
    BY <1>0, <1>1 DEF TypeOK
  <2>2. pc' \in [Requests -> Running \cup {"new", "rejected", "failed", "done"}]
    BY <1>0 DEF TypeOK, Running
  <2> QED BY <1>0, <1>5, <2>1, <2>2 DEF TypeOK
<1>7. \A q \in Requests : RequestInv(q)'
  <2>1. RequestInv(r)'
    BY <1>0, <1>1, <1>4, <1>5 DEF RequestInv, Checked, InTransaction
  <2>2. ASSUME NEW q \in Requests \ {r} PROVE RequestInv(q)'
    BY <1>0, <1>5, OthersKeep DEF IInv
  <2> QED BY <2>1, <2>2
<1>8. LockInv'
  BY <1>0, <1>5 DEF LockInv
<1>9. OrdersInv'
  <2>1. EveryLineCharged'
    BY <1>1, <1>3, <1>5 DEF IInv, OrdersInv, EveryLineCharged
  <2>2. ChargesAreSound'
    <3>1. /\ o.total = o.subtotal + o.tax - o.discount
          /\ 0 <= o.discount
          /\ 0 <= o.subtotal => o.discount <= o.subtotal /\ 0 <= o.total
          /\ o.subtotal < 0 => o.discount = 0
      BY <1>1, <1>2, <1>3 DEF Bounded
    <3> QED BY <1>5, <3>1 DEF IInv, OrdersInv, ChargesAreSound
  <2>3. OrdersAreAtTheirTable'
    BY <1>0, <1>1, <1>3, <1>5 DEF IInv, OrdersInv, OrdersAreAtTheirTable, Seated
  <2> QED BY <2>1, <2>2, <2>3 DEF OrdersInv
<1>10. KitchenInv'
  <2>1. KitchenInv
    BY DEF IInv
  <2>2. \A e \in announced : e[1] \in Requests
    BY <1>0 DEF TypeOK
  <2> QED BY <1>0, <1>4, <1>5, <2>1, <2>2 DEF KitchenInv, KitchenHearsOfRealOrders
<1>11. UsageInv'
  <2>1. r \notin Discounted /\ IsFiniteSet(Discounted) /\ usageCount = Cardinality(Discounted)
    BY <1>1 DEF IInv, UsageInv, UsageCountsOrders, Discounted
  <2>2. lock = r <=> dto[r].code # None
    BY <1>0 DEF LockInv
  <2>3. CASE lock = r
    <3>1. Discounted' = Discounted \cup {r}
      BY <1>3, <1>4, <1>5, <2>2, <2>3 DEF Discounted
    <3> QED BY <1>0, <2>1, <2>3, <3>1, FS_AddElement DEF UsageInv, UsageCountsOrders
  <2>4. CASE lock # r
    <3>1. Discounted' = Discounted
      BY <1>1, <1>3, <1>5, <2>2, <2>4 DEF Discounted
    <3> QED BY <1>0, <2>1, <2>4, <3>1 DEF UsageInv, UsageCountsOrders
  <2> QED BY <2>3, <2>4
<1>12. ASSUME ~overlapped
       PROVE  /\ OneAtATime /\ \A q \in Requests : ReadsHold(q)
              /\ \A q \in Requests \ {r} : pc[q] \notin Running /\ lock # q
              /\ \A t \in Tables : deleting[t] # "counted"
  <2>1. OneAtATime /\ \A q \in Requests : ReadsHold(q)
    BY <1>12 DEF IInv, AloneInv
  <2>2. \A q \in Requests \ {r} : pc[q] \notin Running
    BY <1>0, <2>1 DEF OneAtATime, Running
  <2>3. \A t \in Tables : deleting[t] # "counted"
    BY <1>0, <2>1 DEF OneAtATime, Running
  <2> QED BY <1>0, <2>1, <2>2, <2>3 DEF LockInv, Running
<1>13. AloneInv'
  <2> SUFFICES ASSUME ~overlapped
               PROVE  OneAtATime' /\ \A q \in Requests : ReadsHold(q)'
    BY <1>0, <1>12 DEF AloneInv
  <2>1. OneAtATime'
    BY <1>0, <1>5, <1>12 DEF OneAtATime
  <2>2. \A q \in Requests : lock' # q /\ pc'[q] \notin Checked
    BY <1>0, <1>5, <1>12 DEF Checked, Running
  <2> QED BY <2>1, <2>2 DEF ReadsHold, Checked
<1>14. OveruseNeedsOverlap'
  BY <1>0, <1>1, <1>12 DEF IInv, OveruseNeedsOverlap, WithinUsageLimit, ReadsHold, HasUse
<1>15. NoOpenOrderOnDeletedTable'
  <2>1. ~overlapped => (o.table # None => o.table \in tables)
    BY <1>0, <1>3, <1>12 DEF ReadsHold, Checked
  <2>2. open \subseteq Requests
    BY <1>0 DEF TypeOK
  <2> QED BY <1>0, <1>5, <2>1, <2>2 DEF IInv, NoOpenOrderOnDeletedTable
<1> QED BY <1>6, <1>7, <1>8, <1>9, <1>10, <1>11, <1>13, <1>14, <1>15 DEF IInv

\* The announcements after the commit.
LEMMA BroadcastStep ==
  ASSUME IInv, NEW r \in Requests, Broadcast(r)
  PROVE  IInv'
<1> USE NoneAssumption DEF menu, locals
<1>0. /\ TypeOK /\ RequestInv(r) /\ pc[r] = "broadcast" /\ LockInv
      /\ pc' = [pc EXCEPT ![r] = "done"]
      /\ announced' \subseteq announced \cup {<<r, "order.created">>, <<r, "ticket.created">>}
      /\ UNCHANGED <<unavailable, tenant, active, dto, priced, subtotal, discount, orders, tickets,
                     open, tables, usageCount, lock, deleting, overlapped>>
  BY DEF IInv, Broadcast, Goto
<1>1. pc'[r] = "done" /\ \A q \in Requests \ {r} : pc'[q] = pc[q]
  BY <1>0 DEF TypeOK
<1>2. TypeOK'
  <2>1. announced' \subseteq Requests \X {"ticket.created", "order.created"}
    BY <1>0 DEF TypeOK
  <2>2. pc' \in [Requests -> Running \cup {"new", "rejected", "failed", "done"}]
    BY <1>0 DEF TypeOK
  <2> QED BY <1>0, <2>1, <2>2 DEF TypeOK
<1>3. \A q \in Requests : RequestInv(q)'
  <2>1. RequestInv(r)'
    BY <1>0, <1>1 DEF RequestInv, Checked, InTransaction
  <2>2. ASSUME NEW q \in Requests \ {r} PROVE RequestInv(q)'
    BY <1>0, <1>1, OthersKeep DEF IInv
  <2> QED BY <2>1, <2>2
<1>4. LockInv' /\ OrdersInv' /\ UsageInv'
  BY <1>0, <1>1 DEF IInv, LockInv, OrdersInv, EveryLineCharged, ChargesAreSound,
                    OrdersAreAtTheirTable, UsageInv, UsageCountsOrders, Discounted
<1>5. KitchenInv'
  <2>1. KitchenInv /\ orders[r] # None
    BY <1>0 DEF IInv, RequestInv
  <2>2. \A e \in announced' : e \in announced \/ e[1] = r
    BY <1>0
  <2> QED BY <1>0, <2>1, <2>2 DEF KitchenInv, KitchenHearsOfRealOrders
<1>6. OveruseNeedsOverlap' /\ NoOpenOrderOnDeletedTable'
  BY <1>0 DEF IInv, OveruseNeedsOverlap, WithinUsageLimit, NoOpenOrderOnDeletedTable
<1>7. AloneInv'
  <2> SUFFICES ASSUME ~overlapped
               PROVE  /\ OneAtATime' /\ \A q \in Requests : ReadsHold(q)'
                      /\ \A t \in Tables : deleting[t] = "counted" => OpenOrdersAt(t)' = {}
    BY <1>0 DEF AloneInv
  <2>1. /\ OneAtATime /\ \A q \in Requests : ReadsHold(q)
        /\ \A t \in Tables : deleting[t] = "counted" => OpenOrdersAt(t) = {}
    BY DEF IInv, AloneInv
  <2>2. OneAtATime'
    BY <1>0, <1>1, <2>1 DEF OneAtATime, Running
  <2>3. \A q \in Requests : ReadsHold(q)'
    BY <1>0, <1>1, <2>1 DEF ReadsHold, HasUse, Checked
  <2>4. \A t \in Tables : deleting[t] = "counted" => OpenOrdersAt(t)' = {}
    BY <1>0, <2>1 DEF OpenOrdersAt
  <2> QED BY <2>2, <2>3, <2>4
<1> QED BY <1>2, <1>3, <1>4, <1>5, <1>6, <1>7 DEF IInv

\* deleteTable, the end of an order, and what staff and billing change beside
\* the checkouts.
LEMMA OtherSteps ==
  ASSUME IInv,
         \/ \E r \in Requests : OrderEnds(r)
         \/ \E t \in Tables : CountActiveOrders(t) \/ DeleteTable(t)
         \/ \E x \in DOMAIN BasePrice \cup DOMAIN AddonPrice : MarkUnavailable(x)
         \/ DeactivateDiscount
         \/ TenantBecomesUnpaid
         \/ UNCHANGED vars
  PROVE  IInv'
<1> USE NoneAssumption DEF menu, locals, kitchen
<1>0. /\ UNCHANGED <<usageCount, lock, orders, tickets, announced, pc, dto, priced, subtotal,
                     discount>>
      /\ open' \subseteq open /\ tables' \subseteq tables
  BY DEF OrderEnds, CountActiveOrders, DeleteTable, MarkUnavailable, DeactivateDiscount,
         TenantBecomesUnpaid, vars
<1>1. TypeOK
  BY DEF IInv
<1>2. (\A q \in Requests : RequestInv(q)') /\ LockInv' /\ OrdersInv' /\ UsageInv' /\ KitchenInv'
  <2>1. \A q \in Requests : RequestInv(q)'
    BY <1>0, OthersKeep DEF IInv
  <2>2. LockInv' /\ OrdersInv' /\ UsageInv'
    BY <1>0 DEF IInv, LockInv, OrdersInv, EveryLineCharged, ChargesAreSound,
                OrdersAreAtTheirTable, UsageInv, UsageCountsOrders, Discounted
  <2>3. KitchenInv'
    BY <1>0 DEF IInv, KitchenInv, KitchenHearsOfRealOrders
  <2> QED BY <2>1, <2>2, <2>3
<1>3. ASSUME overlapped => overlapped', TypeOK',
             ~overlapped' =>
               /\ OneAtATime'
               /\ \A q \in Requests : ReadsHold(q)'
               /\ \A t \in Tables : deleting'[t] = "counted" => OpenOrdersAt(t)' = {}
               /\ \A r \in open' : orders[r].table # None => orders[r].table \in tables'
      PROVE  IInv'
  <2>1. AloneInv' /\ NoOpenOrderOnDeletedTable'
    BY <1>0, <1>3 DEF AloneInv, NoOpenOrderOnDeletedTable
  <2>2. OveruseNeedsOverlap'
    BY <1>0, <1>3 DEF IInv, OveruseNeedsOverlap, WithinUsageLimit
  <2> QED BY <1>2, <1>3, <2>1, <2>2 DEF IInv
<1>4. ASSUME ~overlapped
      PROVE  /\ OneAtATime /\ \A q \in Requests : ReadsHold(q)
             /\ \A t \in Tables : deleting[t] = "counted" => OpenOrdersAt(t) = {}
             /\ \A r \in open : orders[r].table # None => orders[r].table \in tables
  BY <1>4 DEF IInv, AloneInv, NoOpenOrderOnDeletedTable
<1>5. CASE UNCHANGED <<tables, deleting, overlapped>>
  <2>1. TypeOK'
    <3>1. tenant' \in {"ACTIVE", "UNPAID"} /\ active' \in BOOLEAN
      BY <1>1 DEF TypeOK, OrderEnds, CountActiveOrders, DeleteTable, MarkUnavailable,
                  DeactivateDiscount, TenantBecomesUnpaid, vars
    <3> QED BY <1>0, <1>1, <1>5, <3>1 DEF TypeOK
  <2>2. ~overlapped => /\ OneAtATime' /\ \A q \in Requests : ReadsHold(q)'
                       /\ \A t \in Tables : deleting[t] = "counted" => OpenOrdersAt(t)' = {}
    BY <1>0, <1>4, <1>5 DEF OneAtATime, ReadsHold, HasUse, OpenOrdersAt
  <2> QED BY <1>0, <1>3, <1>4, <1>5, <2>1, <2>2
<1>6. ASSUME NEW t \in Tables, CountActiveOrders(t) PROVE IInv'
  <2>1. /\ NoteOverlap /\ OpenOrdersAt(t) = {} /\ deleting' = [deleting EXCEPT ![t] = "counted"]
        /\ UNCHANGED <<unavailable, tenant, active, tables, open>>
    BY <1>6 DEF CountActiveOrders
  <2>2. TypeOK'
    <3>1. overlapped' \in BOOLEAN
      BY <2>1 DEF NoteOverlap
    <3> QED BY <1>0, <1>1, <2>1, <3>1 DEF TypeOK
  <2>3. overlapped => overlapped'
    BY <1>1, <2>1 DEF NoteOverlap, TypeOK
  <2>4. ASSUME ~overlapped'
        PROVE  /\ OneAtATime' /\ \A q \in Requests : ReadsHold(q)'
               /\ \A s \in Tables : deleting'[s] = "counted" => OpenOrdersAt(s)' = {}
    <3>1. /\ ~overlapped /\ (\A q \in Requests : pc[q] \notin Running)
          /\ \A s \in Tables : deleting[s] = "no"
      BY <2>1, <2>4 DEF NoteOverlap, Idle, InFlight
    <3>2. \A s \in Tables : deleting'[s] = "counted" => s = t
      BY <1>1, <2>1, <3>1 DEF TypeOK
    <3>3. OneAtATime'
      BY <1>0, <3>1, <3>2 DEF OneAtATime
    <3>4. \A q \in Requests : ReadsHold(q)'
      BY <1>0, <1>4, <2>1, <3>1 DEF ReadsHold, HasUse
    <3> QED BY <1>0, <2>1, <3>2, <3>3, <3>4 DEF OpenOrdersAt
  <2> QED BY <1>0, <1>3, <1>4, <2>1, <2>2, <2>3, <2>4
<1>7. ASSUME NEW t \in Tables, DeleteTable(t) PROVE IInv'
  <2>1. /\ deleting[t] = "counted" /\ deleting' = [deleting EXCEPT ![t] = "no"]
        /\ tables' = tables \ {t} /\ UNCHANGED <<unavailable, tenant, active, open, overlapped>>
    BY <1>7 DEF DeleteTable
  <2>2. TypeOK'
    BY <1>0, <1>1, <2>1 DEF TypeOK
  <2>3. ASSUME ~overlapped
        PROVE  /\ OneAtATime' /\ \A q \in Requests : ReadsHold(q)'
               /\ \A s \in Tables : deleting'[s] = "counted" => OpenOrdersAt(s)' = {}
               /\ \A r \in open' : orders[r].table # None => orders[r].table \in tables'
    <3>1. \A s \in Tables : deleting'[s] = "counted" => deleting[s] = "counted"
      BY <1>1, <2>1 DEF TypeOK
    <3>2. \A q \in Requests : pc[q] \notin Running
      BY <1>4, <2>1, <2>3 DEF OneAtATime
    <3>3. OneAtATime'
      BY <1>0, <1>4, <2>3, <3>1 DEF OneAtATime
    <3>4. \A q \in Requests : ReadsHold(q)'
      BY <1>0, <1>4, <2>3, <3>2 DEF ReadsHold, HasUse, Checked, Running
    <3>5. \A s \in Tables : deleting'[s] = "counted" => OpenOrdersAt(s)' = {}
      BY <1>0, <1>4, <2>1, <2>3, <3>1 DEF OpenOrdersAt
    <3>6. \A r \in open' : orders[r].table # None => orders[r].table \in tables'
      BY <1>4, <2>1, <2>3 DEF OpenOrdersAt
    <3> QED BY <3>3, <3>4, <3>5, <3>6
  <2> QED BY <1>3, <2>1, <2>2, <2>3
<1> QED
  BY <1>5, <1>6, <1>7 DEF OrderEnds, MarkUnavailable, DeactivateDiscount, TenantBecomesUnpaid, vars

-----------------------------------------------------------------------------
\* Every step keeps the inductive invariant.
LEMMA NextIInv == IInv /\ [Next]_vars => IInv'
<1> SUFFICES ASSUME IInv, [Next]_vars PROVE IInv'
  OBVIOUS
<1>1. ASSUME NEW r \in Requests, CheckoutStep(r) \/ Rollback(r) PROVE IInv'
  BY <1>1, GateSteps, PriceStep, LookupStep, IncrementStep, CommitStep, BroadcastStep, RollbackStep
  DEF CheckoutStep
<1>2. ASSUME NEW r \in Requests, NEW d \in Dtos, CreateGuestOrder(r, d) \/ CreateOrder(r, d)
      PROVE  IInv'
  BY <1>2, StartSteps
<1> QED BY <1>1, <1>2, OtherSteps DEF Next

\* The inductive invariant holds in every reachable state.
LEMMA Reachable == Spec => []IInv
BY InitIInv, NextIInv, PTL DEF Spec

\* createGuestOrder and createOrder, whatever overlaps or fails: sound charges,
\* the right table and branch, no announcement of an order that was rolled back;
\* and if nothing overlaps, the usage limit and the tables of open orders.
THEOREM CheckoutCorrect == Spec => []CheckoutInv
<1>1. IInv => CheckoutInv
  BY DEF IInv, OrdersInv, KitchenInv, CheckoutInv
<1> QED BY <1>1, Reachable, PTL

\* "A successful usage increment is atomic with the order creation".
THEOREM UsageIsAtomic == Spec => []UsageCountsOrders
<1>1. IInv => UsageCountsOrders
  BY DEF IInv, UsageInv
<1> QED BY <1>1, Reachable, PTL

\* The subtotal of an order is the running total of the item loop over its
\* whole cart: no line is skipped or charged twice, whatever changes meanwhile.
THEOREM NoLineSkipped == Spec => []EveryLineCharged
<1>1. IInv => EveryLineCharged
  BY DEF IInv, OrdersInv
<1> QED BY <1>1, Reachable, PTL

\* What an order is charged is the price of its cart by the reference, every
\* line with its variant, size and modifiers, whatever changes meanwhile.
THEOREM PricesAreReference == Spec => []PricesMatchReference
<1>1. ASSUME IInv, NEW r \in Requests, orders[r] # None
      PROVE  orders[r].subtotal = ReferenceSubtotal(orders[r].items)
  <2>1. orders[r] \in Order
    BY <1>1 DEF IInv, TypeOK
  <2>2. PICK d \in Dtos : orders[r].items = d.items
    BY <2>1 DEF Order
  <2>3. RunningTotal(orders[r].items, Len(orders[r].items), orders[r].subtotal)
    BY <1>1 DEF IInv, OrdersInv, EveryLineCharged
  <2> QED BY <2>2, <2>3, DtoAssumption, CartPrice
<1>2. IInv => PricesMatchReference
  BY <1>1 DEF PricesMatchReference
<1> QED BY <1>2, Reachable, PTL
-----------------------------------------------------------------------------
(* The guest's page *)

\* What a configuration costs at a version of the menu.
priceFrom(version, c) ==
  (IF c.variant # None THEN VariantPrice[c.variant]
   ELSE priceAt(version, c.product) + (IF c.size # None THEN SizeAdjust[c.size] ELSE 0))
    + Sum([a \in c.addons |-> AddonPrice[a]])

itemsAt(version, items) == Sum([i \in items |-> priceFrom(version, i.config) * i.quantity])

Selections == [config : Configurations, quantity : Nat]
Lines == [config : Configurations, quantity : Nat \ {0}, unitPrice : Int]
Answers == {"none", "accepted", "refused", "heard", "lost"}
Submissions ==
  [items : SUBSET Selections, quoted : Int, cart : Nat, page : {0, 1}, menu : {0, 1},
   answer : Answers, taken : BOOLEAN, charged : Int]

\* A configuration the dialog can lead to.
WithinGroups(c) ==
  /\ IsFiniteSet(c.addons)
  /\ \A g \in GroupsOf[c.product] :
       LET picked == c.addons \cap OptionsOf[g]
       IN picked # {} => Cardinality(picked) <= MaxSelections[g]

PageTypes ==
  /\ modal \in Dialogs \cup {None}
  /\ lines \in SUBSET Lines
  /\ cartOpen \in BOOLEAN /\ submitting \in BOOLEAN /\ checkoutError \in BOOLEAN
  /\ submissions \in Seq(Submissions)
  /\ confirmation \in {None} \cup DOMAIN submissions
  /\ carts \in Nat /\ menuVersion \in {0, 1} /\ pageVersion \in {0, 1}

DialogInv == modal # None => WithinGroups(modal.config)

\* The cart has one line per configuration, at the prices of the page.
CartInv ==
  /\ IsFiniteSet(lines)
  /\ \A l \in lines : WithinGroups(l.config) /\ l.unitPrice = priceFrom(pageVersion, l.config)
  /\ \A k, l \in lines : k.config = l.config => k = l

\* What a submission quotes is what its items cost on the page it came from.
SubmissionInv(s) ==
  /\ IsFiniteSet(s.items) /\ \A i \in s.items : WithinGroups(i.config)
  /\ s.answer = "none" => s.quoted = itemsAt(s.page, s.items)
  /\ s.answer \in {"none", "refused"} => ~s.taken
  /\ s.taken /\ s.menu = s.page => s.charged = s.quoted
SubmissionsInv ==
  \A n \in DOMAIN submissions : SubmissionInv(submissions[n]) /\ submissions[n].cart <= carts

\* A cart is submitted again only when its earlier submissions are over, and not taken as
\* far as the page knows.
Over(s) == s.answer \in {"refused", "lost"}
ResubmissionInv ==
  /\ \A m, n \in DOMAIN submissions :
       m < n /\ submissions[m].cart = submissions[n].cart => Over(submissions[m])
  /\ ~submitting => \A n \in DOMAIN submissions : submissions[n].cart = carts => Over(submissions[n])

GuestIInv ==
  /\ PageTypes
  /\ DialogInv
  /\ CartInv
  /\ SubmissionsInv
  /\ ResubmissionInv

\* What the page asks for a configuration is an integer.
LEMMA PriceType ==
  ASSUME NEW c \in Configurations, IsFiniteSet(c.addons), NEW v \in {0, 1}
  PROVE  /\ priceFrom(v, c) \in Int
         /\ Sum([a \in c.addons |-> AddonPrice[a]]) \in Int
<1>1. Sum([a \in c.addons |-> AddonPrice[a]]) \in Int
  <2>1. [a \in c.addons |-> AddonPrice[a]] \in [c.addons -> Int]
    BY MenuAssumption DEF Configurations
  <2> QED BY <2>1, SumType
<1>2. c.variant # None => VariantPrice[c.variant] \in Int
  BY MenuAssumption DEF Configurations
<1>3. c.size # None => SizeAdjust[c.size] \in Int
  BY MenuAssumption DEF Configurations
<1>4. priceAt(v, c.product) \in Int
  <2>1. BasePrice[c.product] \in Int /\ PriceRise \in Int
    BY MenuAssumption DEF Configurations
  <2>2. CASE v = 0
    BY <2>1, <2>2 DEF priceAt
  <2>3. CASE v = 1
    BY <2>1, <2>3 DEF priceAt
  <2> QED BY <2>2, <2>3
<1> DEFINE sum == Sum([a \in c.addons |-> AddonPrice[a]])
           base == priceAt(v, c.product)
<1>5. priceFrom(v, c) = (IF c.variant # None THEN VariantPrice[c.variant]
                         ELSE base + (IF c.size # None THEN SizeAdjust[c.size] ELSE 0)) + sum
  BY DEF priceFrom
<1>6. sum \in Int /\ base \in Int
  BY <1>1, <1>4
<1> HIDE DEF sum, base
<1> QED BY <1>1, <1>2, <1>3, <1>5, <1>6

\* The server's price of an item is the page's, at the same version of the menu.
LEMMA ServerPrice ==
  ASSUME NEW i \in Selections, IsFiniteSet(i.config.addons), NEW v \in {0, 1}
  PROVE  Server(v)!totalLinePrice(selection(i)) = priceFrom(v, i.config) * i.quantity
<1> DEFINE x == selection(i)
           c == i.config
           unit == IF c.variant # None THEN VariantPrice[c.variant]
                   ELSE priceAt(v, c.product) + (IF c.size # None THEN SizeAdjust[c.size] ELSE 0)
<1>0. c \in Configurations
  BY DEF Selections
<1>1. /\ x.product = c.product /\ x.size = c.size /\ x.variant = c.variant
      /\ x.quantity = i.quantity /\ x.addons = [a \in c.addons |-> a]
  BY DEF selection
<1> HIDE DEF x
<1>2. Server(v)!totalLinePrice(x) = (Server(v)!unitPrice(x) + lineAddonsTotal(x)) * x.quantity
  BY Zenon DEF Server!totalLinePrice, lineAddonsTotal, Server!lineAddonsTotal, FoldFunction,
       FoldFunctionOnSet, MapThenFoldSet, Server!FoldFunction, Server!FoldFunctionOnSet,
       Server!MapThenFoldSet
<1>3. Server(v)!unitPrice(x) = unit
  <2>1. c.product \in MenuItems
    BY <1>0 DEF Configurations
  <2>2. [p \in MenuItems |-> priceAt(v, p)][c.product] = priceAt(v, c.product)
    BY <2>1
  <2> QED BY <1>1, <2>2 DEF Server!unitPrice
<1>4. lineAddonsTotal(x) = Sum([a \in c.addons |-> AddonPrice[a]])
  <2>1. DOMAIN x.addons = c.addons /\ \A a \in c.addons : x.addons[a] = a
    BY <1>1
  <2>2. \A a \in c.addons : AddonPrice[x.addons[a]] \in Int
    BY <1>0, <2>1, MenuAssumption DEF Configurations
  <2>3. lineAddonsTotal(x) = Sum([a \in DOMAIN x.addons |-> AddonPrice[x.addons[a]]])
    BY <2>1, <2>2, AddonsAddUp
  <2>4. [a \in DOMAIN x.addons |-> AddonPrice[x.addons[a]]] = [a \in c.addons |-> AddonPrice[a]]
    BY <2>1
  <2> QED BY <2>3, <2>4
<1>5. priceFrom(v, c) = unit + Sum([a \in c.addons |-> AddonPrice[a]])
  BY DEF priceFrom
<1> HIDE DEF unit, c
<1>6. Server(v)!totalLinePrice(x) = priceFrom(v, c) * i.quantity
  BY <1>1, <1>2, <1>3, <1>4, <1>5, Zenon
<1> QED BY <1>6 DEF x, c

\* So is what it charges for a whole submission.
LEMMA ChargeIsPrice ==
  ASSUME NEW items \in SUBSET Selections, \A i \in items : WithinGroups(i.config),
         menuVersion \in {0, 1}
  PROVE  chargeFor(items) = itemsAt(menuVersion, items)
<1>1. ASSUME NEW v \in {0, 1}
      PROVE  [i \in items |-> Server(v)!totalLinePrice(selection(i))]
             = [i \in items |-> priceFrom(v, i.config) * i.quantity]
  <2>1. \A i \in items : Server(v)!totalLinePrice(selection(i)) = priceFrom(v, i.config) * i.quantity
    BY ServerPrice DEF WithinGroups
  <2> QED BY <2>1, Zenon
<1>2. CASE menuVersion = 0
  BY <1>1, <1>2, Zenon DEF chargeFor, itemsAt
<1>3. CASE menuVersion = 1
  <2>1. menuVersion # 0
    BY <1>3
  <2> QED BY <1>1, <1>3, <2>1, Zenon DEF chargeFor, itemsAt
<1> QED BY <1>2, <1>3

\* What the cart shows is what its lines cost as submitted items.
LEMMA CartIsPrice ==
  ASSUME lines \in SUBSET Lines, CartInv, pageVersion \in {0, 1}
  PROVE  LET items == buildCheckoutPayload(lines)
         IN /\ items \in SUBSET Selections /\ IsFiniteSet(items)
            /\ \A i \in items : WithinGroups(i.config)
            /\ computeCartSubtotal(lines) = itemsAt(pageVersion, items)
            /\ computeCartSubtotal(lines) \in Int
<1> DEFINE items == buildCheckoutPayload(lines)
           item(l) == [config |-> l.config, quantity |-> l.quantity]
           b == [l \in lines |-> item(l)]
           v == [l \in lines |-> l.unitPrice * l.quantity]
           w == [i \in items |-> priceFrom(pageVersion, i.config) * i.quantity]
<1>1. /\ items \in SUBSET Selections
      /\ \A l \in lines : /\ item(l) \in items
                          /\ item(l).config = l.config /\ item(l).quantity = l.quantity
      /\ \A i \in items : \E l \in lines : item(l) = i
  BY DEF buildCheckoutPayload, Lines, Selections
<1>2. \A k, l \in lines : item(k) = item(l) => k = l
  BY DEF CartInv
<1> HIDE DEF items, item
<1>4. IsFiniteSet(items)
  <2>1. b \in Surjection(lines, items)
    BY <1>1 DEF Surjection
  <2> HIDE DEF b
  <2> QED BY <2>1, FS_Surjection DEF CartInv
<1>5. \A i \in items : WithinGroups(i.config)
  BY <1>1 DEF CartInv
<1>6. v \in [lines -> Int]
  <2>1. ASSUME NEW l \in lines PROVE l.unitPrice * l.quantity \in Int
    <3>1. l.unitPrice \in Int /\ l.quantity \in Int
      BY DEF Lines
    <3> QED BY <3>1
  <2> QED BY <2>1
<1>7. w \in [items -> Int]
  <2>1. ASSUME NEW i \in items PROVE priceFrom(pageVersion, i.config) * i.quantity \in Int
    <3>1. i.config \in Configurations /\ i.quantity \in Int
      BY <1>1 DEF Selections
    <3>2. priceFrom(pageVersion, i.config) \in Int
      BY <1>5, <3>1, PriceType DEF WithinGroups
    <3> QED BY <3>1, <3>2
  <2> QED BY <2>1
<1>8. \A l \in lines : v[l] = w[b[l]]
  BY <1>1 DEF CartInv
<1>9. b \in [lines -> items] /\ (\A k, l \in lines : b[k] = b[l] => k = l)
      /\ \A i \in items : \E l \in lines : b[l] = i
  BY <1>1, <1>2
<1> HIDE DEF v, w, b
<1>10. Sum(v) = Sum(w) /\ Sum(v) \in Int
  <2>1. IsFiniteSet(lines)
    BY DEF CartInv
  <2>2. Sum(v) = Sum(w)
    BY <1>4, <1>6, <1>7, <1>8, <1>9, <2>1, SumRenamed
  <2>3. Sum(v) \in Int
    BY <1>6, <2>1, SumType
  <2> QED BY <2>2, <2>3
<1>11. computeCartSubtotal(lines) = Sum(v) /\ itemsAt(pageVersion, items) = Sum(w)
  BY DEF computeCartSubtotal, itemsAt, v, w
<1> QED BY <1>1, <1>4, <1>5, <1>10, <1>11 DEF items

\* Before the guest touches anything.
LEMMA GuestInitIInv == GuestInit => GuestIInv
<1> SUFFICES ASSUME GuestInit PROVE GuestIInv
  OBVIOUS
<1> USE DEF GuestInit
<1>1. PageTypes
  <2>1. cartOpen \in BOOLEAN /\ submitting \in BOOLEAN /\ checkoutError \in BOOLEAN
    OBVIOUS
  <2>2. submissions \in Seq(Submissions) /\ carts \in Nat
    OBVIOUS
  <2> QED BY <2>1, <2>2 DEF PageTypes
<1>2. DialogInv /\ SubmissionsInv /\ ResubmissionInv
  BY DEF DialogInv, SubmissionsInv, ResubmissionInv
<1>3. CartInv
  BY FS_EmptySet DEF CartInv
<1> QED BY <1>1, <1>2, <1>3 DEF GuestIInv

\* A page that keeps its submissions keeps what is known of them.
LEMMA SubmissionsStay ==
  ASSUME GuestIInv, UNCHANGED submissions, carts' \in Nat, carts <= carts',
         (carts' = carts /\ submitting' = submitting) \/ carts' = carts + 1
  PROVE  SubmissionsInv' /\ ResubmissionInv'
<1>1. ASSUME NEW n \in DOMAIN submissions
      PROVE  /\ SubmissionInv(submissions'[n]) /\ submissions[n].cart \in Nat
             /\ submissions[n].cart <= carts /\ carts \in Nat
  <2>1. submissions[n] \in Submissions /\ carts \in Nat
    BY DEF GuestIInv, PageTypes
  <2>2. submissions[n].cart \in Nat
    BY <2>1 DEF Submissions
  <2>3. SubmissionInv(submissions[n]) /\ submissions[n].cart <= carts
    BY DEF GuestIInv, SubmissionsInv
  <2> QED BY <2>1, <2>2, <2>3
<1>2. SubmissionsInv'
  BY <1>1 DEF SubmissionsInv
<1>3. ResubmissionInv'
  BY <1>1 DEF GuestIInv, PageTypes, ResubmissionInv, Over
<1> QED BY <1>2, <1>3

\* The dialog: whatever is chosen, a group's maximum is respected.
LEMMA ClickKeepsGroups ==
  ASSUME NEW d \in Dialogs, WithinGroups(d.config),
         NEW g \in GroupsOf[d.config.product], NEW a \in OptionsOf[g]
  PROVE  LET c == [d.config EXCEPT !.addons = handleAddonClick(@, a, g)]
         IN c \in Configurations /\ WithinGroups(c)
<1> DEFINE chosen == d.config.addons
           new == handleAddonClick(chosen, a, g)
           c == [d.config EXCEPT !.addons = handleAddonClick(@, a, g)]
           product == d.config.product
<1>0. d.config \in Configurations /\ product \in MenuItems /\ IsFiniteSet(chosen)
  BY DEF Dialogs, Configurations, WithinGroups
<1>1. c = [d.config EXCEPT !.addons = new] /\ c.addons = new /\ c.product = product
  BY <1>0 DEF Configurations
<1>2. new \in {chosen \ {a}, chosen \cup {a}, (chosen \ OptionsOf[g]) \cup {a}, chosen}
  BY DEF handleAddonClick
<1>3. a \in AllAddons
  BY <1>0 DEF AllAddons
<1>4. new \in SUBSET AllAddons
  BY <1>0, <1>2, <1>3 DEF Configurations
<1>5. IsFiniteSet(new)
  <2>1. IsFiniteSet(chosen \ {a}) /\ IsFiniteSet(chosen \cup {a})
        /\ IsFiniteSet(chosen \ OptionsOf[g])
    BY <1>0, FS_Subset, FS_AddElement
  <2>2. IsFiniteSet((chosen \ OptionsOf[g]) \cup {a})
    BY <2>1, FS_AddElement
  <2> QED BY <1>0, <1>2, <2>1, <2>2
<1>6. ASSUME NEW h \in GroupsOf[product], new \cap OptionsOf[h] # {}
      PROVE  Cardinality(new \cap OptionsOf[h]) <= MaxSelections[h]
  <2>0. MaxSelections[h] \in Int /\ MaxSelections[g] \in Int
        /\ (OptionsOf[g] \cap OptionsOf[h] # {} => g = h)
    BY <1>0, MenuAssumption
  <2> DEFINE picked == chosen \cap OptionsOf[h]
  <2>1. IsFiniteSet(picked) /\ Cardinality(picked) \in Nat
        /\ (picked # {} => Cardinality(picked) <= MaxSelections[h])
    BY <1>0, FS_Subset, FS_CardinalityType DEF WithinGroups
  <2>2. CASE new \cap OptionsOf[h] \subseteq picked
    <3>1. Cardinality(new \cap OptionsOf[h]) <= Cardinality(picked)
          /\ Cardinality(new \cap OptionsOf[h]) \in Nat
      BY <2>1, <2>2, FS_Subset, FS_CardinalityType
    <3>2. picked # {}
      BY <1>6, <2>2
    <3> QED BY <2>0, <2>1, <3>1, <3>2
  <2>3. CASE ~(new \cap OptionsOf[h] \subseteq picked)
    <3>1. a \in OptionsOf[h] /\ a \notin chosen /\ a \in new
      BY <1>2, <2>3
    <3>2. g = h
      BY <2>0, <3>1
    <3>3. CASE Cardinality(picked) < MaxSelections[h]
      <4>1. new = chosen \cup {a}
        BY <3>1, <3>2, <3>3 DEF handleAddonClick
      <4>2. new \cap OptionsOf[h] = picked \cup {a} /\ a \notin picked
        BY <3>1, <4>1
      <4>3. Cardinality(picked \cup {a}) = Cardinality(picked) + 1
        BY <2>1, <4>2, FS_AddElement
      <4>4. Cardinality(new \cap OptionsOf[h]) = Cardinality(picked) + 1
        BY <4>2, <4>3
      <4>5. ASSUME NEW n \in Nat, NEW limit \in Int, n < limit
            PROVE  n + 1 <= limit
        BY <4>5
      <4> HIDE DEF picked, new
      <4> QED BY <2>0, <2>1, <3>3, <4>4, <4>5
    <3>4. CASE ~(Cardinality(picked) < MaxSelections[h])
      <4>1. MaxSelections[h] = 1 /\ new = (chosen \ OptionsOf[g]) \cup {a}
        BY <3>1, <3>2, <3>4 DEF handleAddonClick
      <4>2. new \cap OptionsOf[h] = {a}
        BY <3>1, <3>2, <4>1
      <4>3. Cardinality({a}) = 1
        BY FS_Singleton, Zenon
      <4> QED BY <4>1, <4>2, <4>3
    <3> QED BY <3>3, <3>4
  <2> QED BY <2>2, <2>3
<1> HIDE DEF new
<1>7. c \in Configurations
  <2> HIDE DEF c
  <2> QED BY <1>0, <1>1, <1>4 DEF Configurations
<1>8. WithinGroups(c)
  <2> HIDE DEF c
  <2> QED BY <1>1, <1>5, <1>6 DEF WithinGroups
<1> QED BY <1>7, <1>8

\* The dialog stays a configuration within its groups.
LEMMA DialogSteps ==
  ASSUME GuestIInv,
         \/ \E p \in MenuItems : OpenProduct(p)
         \/ \E s \in AllSizes : SelectSize(s)
         \/ \E v \in AllVariants : SelectVariant(v)
         \/ \E g \in DOMAIN OptionsOf, a \in AllAddons : ClickAddon(g, a)
         \/ \E n \in 1..MaxQuantity : SetQuantity(n)
         \/ ResetCartModal
  PROVE  GuestIInv'
<1>0. /\ modal \in Dialogs \cup {None} /\ (modal # None => WithinGroups(modal.config))
      /\ UNCHANGED <<lines, cartOpen, submitting, checkoutError, confirmation, carts, submissions,
                     menuVersion, pageVersion, additions>>
  BY DEF GuestIInv, PageTypes, DialogInv, OpenProduct, SelectSize, SelectVariant, ClickAddon,
         SetQuantity, ResetCartModal, cartSame
<1> DEFINE Good(d) == d \in Dialogs /\ WithinGroups(d.config)
<1>1. modal' = None \/ Good(modal')
  <2>1. ASSUME NEW p \in MenuItems, OpenProduct(p) PROVE Good(modal')
    <3> DEFINE c == configuration(p, None, None, {})
    <3>1. modal' = [config |-> c, quantity |-> 1]
      BY <2>1 DEF OpenProduct
    <3>2. c \in Configurations /\ c.addons = {}
      BY DEF configuration, Configurations
    <3>3. WithinGroups(c)
      BY <3>2, FS_EmptySet DEF WithinGroups
    <3>4. 1 \in 1..MaxQuantity
      BY MenuAssumption
    <3> HIDE DEF c
    <3> QED BY <3>1, <3>2, <3>3, <3>4 DEF Dialogs
  <2>2. ASSUME NEW s \in AllSizes, SelectSize(s) PROVE Good(modal')
    <3>1. Good(modal) /\ modal' = [modal EXCEPT !.config.size = s, !.config.variant = None]
      BY <1>0, <2>2 DEF SelectSize, inModal
    <3> QED BY <3>1 DEF Dialogs, Configurations, WithinGroups
  <2>3. ASSUME NEW v \in AllVariants, SelectVariant(v) PROVE Good(modal')
    <3>1. Good(modal) /\ modal' = [modal EXCEPT !.config.variant = v, !.config.size = None]
      BY <1>0, <2>3 DEF SelectVariant, inModal
    <3> QED BY <3>1 DEF Dialogs, Configurations, WithinGroups
  <2>4. ASSUME NEW g \in DOMAIN OptionsOf, NEW a \in AllAddons, ClickAddon(g, a) PROVE Good(modal')
    <3>1. Good(modal) /\ g \in GroupsOf[modal.config.product] /\ a \in OptionsOf[g]
          /\ modal' = [modal EXCEPT !.config.addons = handleAddonClick(@, a, g)]
      BY <1>0, <2>4 DEF ClickAddon, inModal
    <3> DEFINE c == [modal.config EXCEPT !.addons = handleAddonClick(@, a, g)]
    <3>2. c \in Configurations /\ WithinGroups(c)
      BY <3>1, ClickKeepsGroups
    <3>3. modal' = [modal EXCEPT !.config = c]
      BY <3>1 DEF Dialogs, Configurations
    <3> HIDE DEF c
    <3> QED BY <3>1, <3>2, <3>3 DEF Dialogs
  <2>5. ASSUME NEW n \in 1..MaxQuantity, SetQuantity(n) PROVE Good(modal')
    <3>1. Good(modal) /\ modal' = [modal EXCEPT !.quantity = n]
      BY <1>0, <2>5 DEF SetQuantity, inModal
    <3> QED BY <3>1 DEF Dialogs, WithinGroups
  <2>6. ASSUME ResetCartModal PROVE modal' = None
    BY <2>6 DEF ResetCartModal
  <2> QED BY <2>1, <2>2, <2>3, <2>4, <2>5, <2>6
<1>2. PageTypes'
  BY <1>0, <1>1 DEF GuestIInv, PageTypes
<1>3. DialogInv'
  BY <1>1 DEF DialogInv
<1>4. CartInv'
  BY <1>0 DEF GuestIInv, CartInv
<1>5. SubmissionsInv' /\ ResubmissionInv'
  <2>1. carts \in Nat
    BY DEF GuestIInv, PageTypes
  <2> QED BY <1>0, <2>1, SubmissionsStay
<1> QED BY <1>0, <1>2, <1>3, <1>4, <1>5 DEF GuestIInv

\* A step that changes the cart only.
LEMMA CartSteps ==
  ASSUME GuestIInv,
         \/ AddToCartFromModal
         \/ \E l \in lines : RemoveLine(l) \/ ChangeLineQuantity(l, -1) \/ ChangeLineQuantity(l, 1)
  PROVE  GuestIInv'
<1>0. /\ PageTypes /\ CartInv /\ DialogInv
      /\ UNCHANGED <<cartOpen, submitting, checkoutError, confirmation, carts, submissions,
                     menuVersion, pageVersion>>
  BY DEF GuestIInv, AddToCartFromModal, RemoveLine, ChangeLineQuantity
<1> DEFINE Priced1(l) == WithinGroups(l.config) /\ l.unitPrice = priceFrom(pageVersion, l.config)
<1>1. ASSUME NEW new \in Lines, NEW rest \in SUBSET lines, Priced1(new),
             \A k \in rest : k.config # new.config
      PROVE  LET all == rest \cup {new}
             IN /\ all \in SUBSET Lines /\ IsFiniteSet(all) /\ \A l \in all : Priced1(l)
                /\ \A k, l \in all : k.config = l.config => k = l
  <2>1. IsFiniteSet(rest)
    BY <1>0, FS_Subset DEF CartInv
  <2>2. IsFiniteSet(rest \cup {new})
    BY <2>1, FS_AddElement
  <2> QED BY <1>0, <1>1, <2>2 DEF CartInv, PageTypes
<1>2. \E all \in SUBSET Lines :
        /\ lines' \subseteq all /\ IsFiniteSet(all) /\ \A l \in all : Priced1(l)
        /\ \A k, l \in all : k.config = l.config => k = l
  <2>1. CASE AddToCartFromModal
    <3> DEFINE c == modal.config
               same == {l \in lines : cartItemKey(l.config) = cartItemKey(c)}
               added(l) == [l EXCEPT !.quantity = @ + modal.quantity]
               first == [config |-> c, quantity |-> modal.quantity, unitPrice |-> computeUnitPrice(c)]
    <3>1. modal \in Dialogs /\ WithinGroups(c)
      BY <1>0, <2>1 DEF AddToCartFromModal, inModal, PageTypes, DialogInv
    <3>2. c \in Configurations /\ modal.quantity \in Nat \ {0}
      BY <3>1, MenuAssumption DEF Dialogs
    <3>3. lines' = (lines \ same) \cup (IF same # {} THEN {added(l) : l \in same} ELSE {first})
      BY <2>1 DEF AddToCartFromModal
    <3>4. CASE same = {}
      <4>1. computeUnitPrice(c) = priceFrom(pageVersion, c)
        BY DEF computeUnitPrice, priceFrom
      <4>2. priceFrom(pageVersion, c) \in Int
        BY <1>0, <3>1, <3>2, PriceType DEF PageTypes, WithinGroups
      <4>3. first \in Lines /\ first.config = c /\ first.unitPrice = priceFrom(pageVersion, c)
        BY <3>2, <4>1, <4>2 DEF Lines
      <4>4. \A k \in lines : k.config # c
        BY <3>4 DEF cartItemKey
      <4>5. lines' = lines \cup {first}
        BY <3>3, <3>4
      <4> HIDE DEF c, first, same
      <4> QED BY <1>1, <3>1, <4>3, <4>4, <4>5
    <3>5. ASSUME NEW l \in same PROVE \E all \in SUBSET Lines :
            /\ lines' \subseteq all /\ IsFiniteSet(all) /\ \A k \in all : Priced1(k)
            /\ \A j, k \in all : j.config = k.config => j = k
      <4>1. l \in lines /\ l \in Lines /\ l.config = c
        BY <1>0 DEF cartItemKey, PageTypes
      <4>2. same = {l}
        BY <1>0, <4>1 DEF CartInv, cartItemKey
      <4>3. added(l) \in Lines /\ added(l).config = c /\ added(l).unitPrice = l.unitPrice
        <5>1. l.quantity \in Nat \ {0}
          BY <4>1 DEF Lines
        <5>2. l.quantity + modal.quantity \in Nat \ {0}
          BY <3>2, <5>1
        <5> QED BY <4>1, <5>2 DEF Lines
      <4>4. lines' = (lines \ {l}) \cup {added(l)}
        BY <3>3, <4>2
      <4>5. \A k \in lines \ {l} : k.config # c
        BY <1>0, <4>1 DEF CartInv
      <4>6. Priced1(added(l))
        BY <1>0, <4>1, <4>3 DEF CartInv
      <4> HIDE DEF c, added, same, Priced1
      <4> DEFINE new == added(l)
                 rest == lines \ {l}
                 all == rest \cup {new}
      <4>8. new \in Lines /\ rest \in SUBSET lines /\ Priced1(new) /\ lines' \subseteq all
        BY <4>3, <4>4, <4>6
      <4>9. \A k \in rest : k.config # new.config
        BY <4>3, <4>5
      <4> HIDE DEF new, rest
      <4>10. /\ all \in SUBSET Lines /\ IsFiniteSet(all) /\ \A k \in all : Priced1(k)
             /\ \A j, k \in all : j.config = k.config => j = k
        BY <1>1, <4>8, <4>9
      <4> HIDE DEF all
      <4> QED BY <4>8, <4>10
    <3> QED BY <3>4, <3>5
  <2>2. ASSUME NEW l \in lines, RemoveLine(l)
        PROVE  lines' = lines \ {l}
    BY <2>2 DEF RemoveLine
  <2>3. ASSUME NEW l \in lines, NEW delta \in {-1, 1}, ChangeLineQuantity(l, delta)
        PROVE  \E all \in SUBSET Lines :
            /\ lines' \subseteq all /\ IsFiniteSet(all) /\ \A k \in all : Priced1(k)
            /\ \A j, k \in all : j.config = k.config => j = k
    <3> DEFINE new == [l EXCEPT !.quantity = @ + delta]
    <3>1. lines' = {x \in (lines \ {l}) \cup {new} : x.quantity > 0}
      BY <2>3 DEF ChangeLineQuantity
    <3>2. l \in Lines /\ l.quantity \in Nat /\ l.quantity + delta \in Int
          /\ new.quantity = l.quantity + delta
      BY <1>0 DEF PageTypes, Lines
    <3>3. CASE l.quantity + delta > 0
      <4>1. new \in Lines /\ new.config = l.config /\ new.unitPrice = l.unitPrice
        BY <3>2, <3>3 DEF Lines
      <4>2. Priced1(new) /\ \A k \in lines \ {l} : k.config # new.config
        BY <1>0, <4>1 DEF CartInv
      <4>3. lines' \subseteq (lines \ {l}) \cup {new}
        BY <3>1
      <4> HIDE DEF new, Priced1
      <4> DEFINE all == (lines \ {l}) \cup {new}
      <4>4. /\ all \in SUBSET Lines /\ IsFiniteSet(all) /\ \A k \in all : Priced1(k)
            /\ \A j, k \in all : j.config = k.config => j = k
        <5>1. lines \ {l} \in SUBSET lines
          OBVIOUS
        <5> QED BY <1>1, <4>1, <4>2, <5>1
      <4>5. lines' \subseteq all
        BY <4>3
      <4> HIDE DEF all
      <4> QED BY <4>4, <4>5
    <3>4. CASE ~(l.quantity + delta > 0)
      <4>1. lines' \subseteq lines
        BY <3>1, <3>2, <3>4
      <4> QED BY <1>0, <4>1 DEF CartInv, PageTypes
    <3> QED BY <3>3, <3>4
  <2>4. ASSUME NEW l \in lines, RemoveLine(l) PROVE \E all \in SUBSET Lines :
          /\ lines' \subseteq all /\ IsFiniteSet(all) /\ \A k \in all : Priced1(k)
          /\ \A j, k \in all : j.config = k.config => j = k
    BY <1>0, <2>2, <2>4 DEF CartInv, PageTypes
  <2> QED BY <2>1, <2>3, <2>4
<1>3. lines' \in SUBSET Lines /\ CartInv'
  <2>1. PICK all \in SUBSET Lines :
          /\ lines' \subseteq all /\ IsFiniteSet(all) /\ \A l \in all : Priced1(l)
          /\ \A k, l \in all : k.config = l.config => k = l
    BY <1>2
  <2>2. IsFiniteSet(lines')
    BY <2>1, FS_Subset
  <2> QED BY <1>0, <2>1, <2>2 DEF CartInv
<1>4. modal' = None \/ modal' = modal
  BY DEF AddToCartFromModal, RemoveLine, ChangeLineQuantity
<1>5. PageTypes' /\ DialogInv'
  BY <1>0, <1>3, <1>4 DEF PageTypes, DialogInv
<1>6. SubmissionsInv' /\ ResubmissionInv'
  BY <1>0, SubmissionsStay DEF PageTypes
<1> QED BY <1>0, <1>3, <1>5, <1>6 DEF GuestIInv

\* The drawer, the confirmation screen, a new page and a new menu.
LEMMA PageSteps ==
  ASSUME GuestIInv, OpenCart \/ CloseCart \/ StartNewOrder \/ ReloadMenu \/ MenuChanges
  PROVE  GuestIInv'
<1>0. PageTypes /\ CartInv /\ DialogInv /\ UNCHANGED submissions
  BY DEF GuestIInv, OpenCart, CloseCart, StartNewOrder, ReloadMenu, MenuChanges
<1>1. PageTypes'
  <2>1. CASE OpenCart \/ CloseCart \/ StartNewOrder
    <3>1. cartOpen' \in BOOLEAN /\ checkoutError' \in BOOLEAN
      BY <1>0, <2>1 DEF OpenCart, CloseCart, StartNewOrder, PageTypes
    <3>2. confirmation' \in {None, confirmation}
      BY <2>1 DEF OpenCart, CloseCart, StartNewOrder
    <3>3. UNCHANGED <<modal, lines, submitting, carts, menuVersion, pageVersion>>
      BY <2>1 DEF OpenCart, CloseCart, StartNewOrder
    <3> QED BY <1>0, <3>1, <3>2, <3>3 DEF PageTypes
  <2>2. CASE ReloadMenu
    <3>1. cartOpen' \in BOOLEAN /\ submitting' \in BOOLEAN /\ checkoutError' \in BOOLEAN
      BY <2>2 DEF ReloadMenu
    <3>2. modal' = None /\ lines' = {} /\ confirmation' = None /\ carts' \in Nat
          /\ pageVersion' = menuVersion /\ menuVersion' = menuVersion
      BY <1>0, <2>2 DEF ReloadMenu, PageTypes
    <3> QED BY <1>0, <3>1, <3>2 DEF PageTypes
  <2>3. CASE MenuChanges
    BY <1>0, <2>3 DEF MenuChanges, PageTypes
  <2> QED BY <2>1, <2>2, <2>3
<1>2. DialogInv' /\ CartInv'
  <2>1. CASE ReloadMenu
    BY <2>1, FS_EmptySet DEF ReloadMenu, DialogInv, CartInv
  <2>2. CASE OpenCart \/ CloseCart \/ StartNewOrder \/ MenuChanges
    <3>1. UNCHANGED <<modal, lines, pageVersion>>
      BY <2>2 DEF OpenCart, CloseCart, StartNewOrder, MenuChanges
    <3> QED BY <1>0, <3>1 DEF DialogInv, CartInv
  <2> QED BY <2>1, <2>2
<1>3. carts' \in Nat /\ carts <= carts' /\
      ((carts' = carts /\ submitting' = submitting) \/ carts' = carts + 1)
  BY <1>0 DEF OpenCart, CloseCart, StartNewOrder, ReloadMenu, MenuChanges, PageTypes
<1>4. SubmissionsInv' /\ ResubmissionInv'
  BY <1>0, <1>3, SubmissionsStay
<1> QED BY <1>0, <1>1, <1>2, <1>4 DEF GuestIInv

\* A submission is replaced by what became of it.
LEMMA ReplaceSubmission ==
  ASSUME GuestIInv, NEW n \in DOMAIN submissions, NEW new \in Submissions,
         new.cart = submissions[n].cart, submissions' = [submissions EXCEPT ![n] = new],
         SubmissionInv(new), Over(submissions[n]) => Over(new), carts' \in Nat, carts <= carts'
  PROVE  /\ submissions' \in Seq(Submissions) /\ DOMAIN submissions' = DOMAIN submissions
         /\ SubmissionsInv'
         /\ \A k, m \in DOMAIN submissions' :
              k < m /\ submissions'[k].cart = submissions'[m].cart => Over(submissions'[k])
         /\ \A k \in DOMAIN submissions' :
              /\ submissions'[k].cart = submissions[k].cart /\ submissions[k].cart <= carts
              /\ submissions[k].cart \in Nat /\ carts \in Nat
              /\ Over(submissions[k]) => Over(submissions'[k])
<1>0. submissions \in Seq(Submissions) /\ carts \in Nat
  BY DEF GuestIInv, PageTypes
<1>1. /\ submissions' \in Seq(Submissions) /\ DOMAIN submissions' = DOMAIN submissions
      /\ submissions'[n] = new
      /\ \A k \in DOMAIN submissions \ {n} : submissions'[k] = submissions[k]
  BY <1>0
<1>2. ASSUME NEW k \in DOMAIN submissions
      PROVE  /\ submissions[k] \in Submissions /\ SubmissionInv(submissions[k])
             /\ submissions[k].cart <= carts /\ submissions[k].cart \in Nat
  <2>1. submissions[k] \in Submissions
    BY <1>0
  <2>2. submissions[k].cart \in Nat
    BY <2>1 DEF Submissions
  <2> QED BY <2>1, <2>2 DEF GuestIInv, SubmissionsInv
<1>3. ASSUME NEW k \in DOMAIN submissions
      PROVE  /\ submissions'[k].cart = submissions[k].cart
             /\ Over(submissions[k]) => Over(submissions'[k])
  BY <1>1
<1>4. \A k \in DOMAIN submissions : SubmissionInv(submissions'[k])
  BY <1>1, <1>2
<1>5. \A k \in DOMAIN submissions : submissions'[k].cart <= carts'
  BY <1>0, <1>2, <1>3
<1>6. SubmissionsInv'
  BY <1>1, <1>4, <1>5 DEF SubmissionsInv
<1>7. \A k, m \in DOMAIN submissions :
        k < m /\ submissions'[k].cart = submissions'[m].cart => Over(submissions'[k])
  BY <1>3 DEF GuestIInv, ResubmissionInv
<1> QED BY <1>0, <1>1, <1>2, <1>3, <1>6, <1>7

\* The charge of a submission is an integer.
LEMMA ItemsType ==
  ASSUME NEW items \in SUBSET Selections, IsFiniteSet(items), \A i \in items : WithinGroups(i.config),
         NEW v \in {0, 1}
  PROVE  itemsAt(v, items) \in Int
<1>1. ASSUME NEW i \in items PROVE priceFrom(v, i.config) * i.quantity \in Int
  <2>1. i.config \in Configurations /\ i.quantity \in Int
    BY DEF Selections
  <2>2. priceFrom(v, i.config) \in Int
    BY <2>1, PriceType DEF WithinGroups
  <2> QED BY <2>1, <2>2
<1> DEFINE w == [i \in items |-> priceFrom(v, i.config) * i.quantity]
<1>2. w \in [items -> Int]
  BY <1>1
<1> HIDE DEF w
<1>3. Sum(w) \in Int
  BY <1>2, SumType
<1> QED BY <1>3 DEF itemsAt, w

\* The server takes an order at its prices, or refuses it.
LEMMA ServerSteps ==
  ASSUME GuestIInv, NEW n \in DOMAIN submissions, ServerTakesOrder(n) \/ ServerRefusesOrder(n)
  PROVE  GuestIInv'
<1> DEFINE s == submissions[n]
<1>0. /\ PageTypes /\ CartInv /\ DialogInv /\ s \in Submissions /\ SubmissionInv(s)
      /\ s.answer = "none" /\ carts \in Nat /\ menuVersion \in {0, 1}
      /\ UNCHANGED <<modal, lines, cartOpen, submitting, checkoutError, confirmation, carts,
                     menuVersion, pageVersion, additions>>
  BY DEF GuestIInv, SubmissionsInv, PageTypes, ServerTakesOrder, ServerRefusesOrder
<1>1. PICK new \in Submissions :
        /\ submissions' = [submissions EXCEPT ![n] = new] /\ new.cart = s.cart
        /\ SubmissionInv(new)
  <2>1. CASE ServerTakesOrder(n)
    <3> DEFINE charge == chargeFor(s.items)
               new == [s EXCEPT !.answer = "accepted", !.taken = TRUE, !.charged = charge,
                                !.menu = menuVersion]
    <3>1. submissions' = [submissions EXCEPT ![n] = new]
      BY <1>0, <2>1 DEF ServerTakesOrder
    <3>2. s.items \in SUBSET Selections /\ s.page \in {0, 1}
      BY <1>0 DEF Submissions
    <3>3. charge = itemsAt(menuVersion, s.items) /\ charge \in Int
      BY <1>0, <3>2, ChargeIsPrice, ItemsType DEF SubmissionInv
    <3> HIDE DEF charge
    <3>4. /\ new \in Submissions /\ new.cart = s.cart /\ new.items = s.items /\ new.page = s.page
          /\ new.quoted = s.quoted /\ new.answer = "accepted" /\ new.menu = menuVersion
          /\ new.charged = charge
      BY <1>0, <3>3 DEF Submissions, Answers
    <3> HIDE DEF new
    <3>5. SubmissionInv(new)
      BY <1>0, <3>3, <3>4 DEF SubmissionInv
    <3> QED BY <3>1, <3>4, <3>5
  <2>2. CASE ServerRefusesOrder(n)
    <3> DEFINE new == [s EXCEPT !.answer = "refused"]
    <3>1. submissions' = [submissions EXCEPT ![n] = new]
      BY <2>2 DEF ServerRefusesOrder
    <3>2. /\ new \in Submissions /\ new.cart = s.cart /\ new.items = s.items /\ new.page = s.page
          /\ new.quoted = s.quoted /\ new.answer = "refused" /\ new.menu = s.menu
          /\ new.charged = s.charged /\ new.taken = s.taken
      BY <1>0 DEF Submissions, Answers
    <3> HIDE DEF new
    <3>3. SubmissionInv(new)
      BY <1>0, <3>2 DEF SubmissionInv
    <3> QED BY <3>1, <3>2, <3>3
  <2> QED BY <2>1, <2>2
<1>2. ~Over(submissions[n])
  BY <1>0 DEF Over
<1> HIDE DEF s
<1>3. /\ submissions' \in Seq(Submissions) /\ DOMAIN submissions' = DOMAIN submissions
      /\ SubmissionsInv'
      /\ \A k, m \in DOMAIN submissions' :
           k < m /\ submissions'[k].cart = submissions'[m].cart => Over(submissions'[k])
      /\ \A k \in DOMAIN submissions' :
           /\ submissions'[k].cart = submissions[k].cart
           /\ Over(submissions[k]) => Over(submissions'[k])
  <2>1. s = submissions[n] /\ (Over(submissions[n]) => Over(new)) /\ carts' \in Nat /\ carts <= carts'
    BY <1>0, <1>2 DEF s
  <2> QED BY <1>1, <2>1, ReplaceSubmission
<1>4. ResubmissionInv'
  <2>1. ~submitting => \A k \in DOMAIN submissions : submissions[k].cart = carts => Over(submissions[k])
    BY DEF GuestIInv, ResubmissionInv
  <2> QED BY <1>0, <1>3, <2>1 DEF ResubmissionInv, Over
<1>5. PageTypes'
  BY <1>0, <1>3 DEF PageTypes
<1>6. DialogInv' /\ CartInv'
  BY <1>0 DEF DialogInv, CartInv
<1> QED BY <1>3, <1>4, <1>5, <1>6 DEF GuestIInv

\* The page hears the answer, or that there is none.
LEMMA HearSteps ==
  ASSUME GuestIInv, NEW n \in DOMAIN submissions, HearAccepted(n) \/ HearFailure(n)
  PROVE  GuestIInv'
<1> DEFINE s == submissions[n]
           answer == IF HearAccepted(n) THEN "heard"
                     ELSE IF s.answer = "refused" THEN "refused" ELSE "lost"
           new == settled(s, answer)
<1>0. /\ PageTypes /\ CartInv /\ DialogInv /\ s \in Submissions /\ SubmissionInv(s)
      /\ carts \in Nat /\ s.cart = carts /\ submitting' = FALSE /\ submitting
      /\ UNCHANGED <<modal, menuVersion, pageVersion, additions>>
  BY DEF GuestIInv, SubmissionsInv, PageTypes, HearAccepted, HearFailure
<1>1. submissions' = [submissions EXCEPT ![n] = new]
  <2>1. CASE HearAccepted(n)
    BY <2>1 DEF HearAccepted
  <2>2. CASE ~HearAccepted(n)
    BY <2>2 DEF HearFailure
  <2> QED BY <2>1, <2>2
<1>2. answer \in {"heard", "refused", "lost"} /\ (answer = "refused" => s.answer = "refused")
      /\ (~HearAccepted(n) => answer \in {"refused", "lost"})
  OBVIOUS
<1> HIDE DEF answer
<1>3. /\ new \in Submissions /\ new.cart = s.cart /\ new.items = {} /\ new.answer = answer
      /\ new.taken = s.taken /\ new.quoted = 0 /\ new.charged = 0
  <2>1. s \in Submissions /\ answer \in Answers /\ {} \in SUBSET Selections
    BY <1>0, <1>2 DEF Answers
  <2> HIDE DEF s
  <2>2. new = [s EXCEPT !.answer = answer, !.items = {}, !.quoted = 0, !.charged = 0]
    BY DEF settled
  <2> HIDE DEF new
  <2>3. /\ new.cart = s.cart /\ new.items = {} /\ new.answer = answer
        /\ new.taken = s.taken /\ new.quoted = 0 /\ new.charged = 0
    BY <2>1, <2>2 DEF Submissions
  <2>4. new \in Submissions
    <3>1. new = [items |-> {}, quoted |-> 0, cart |-> s.cart, page |-> s.page, menu |-> s.menu,
                 answer |-> answer, taken |-> s.taken, charged |-> 0]
      BY <2>1, <2>2 DEF Submissions
    <3>2. s.cart \in Nat /\ s.page \in {0, 1} /\ s.menu \in {0, 1} /\ s.taken \in BOOLEAN
      BY <2>1 DEF Submissions
    <3> QED BY <2>1, <3>1, <3>2 DEF Submissions
  <2> QED BY <2>3, <2>4
<1> HIDE DEF new
<1>4. SubmissionInv(new)
  BY <1>0, <1>2, <1>3, FS_EmptySet DEF SubmissionInv
<1>5. /\ carts' \in Nat /\ carts <= carts'
      /\ HearAccepted(n) => carts' = carts + 1 /\ lines' = {} /\ confirmation' = n
                            /\ cartOpen' = FALSE /\ checkoutError' = checkoutError
      /\ ~HearAccepted(n) =>
           /\ carts' = carts /\ checkoutError' = TRUE /\ UNCHANGED <<lines, cartOpen, confirmation>>
           /\ \A m \in DOMAIN submissions : m > n => submissions[m].cart # carts
  BY <1>0 DEF HearAccepted, HearFailure
<1>6. Over(submissions[n]) => Over(new)
  <2>1. CASE HearAccepted(n)
    BY <2>1 DEF HearAccepted, Over
  <2>2. CASE ~HearAccepted(n)
    BY <1>2, <1>3, <2>2 DEF Over
  <2> QED BY <2>1, <2>2
<1>7. /\ submissions' \in Seq(Submissions) /\ DOMAIN submissions' = DOMAIN submissions
      /\ SubmissionsInv'
      /\ \A k, m \in DOMAIN submissions' :
           k < m /\ submissions'[k].cart = submissions'[m].cart => Over(submissions'[k])
      /\ \A k \in DOMAIN submissions' :
              /\ submissions'[k].cart = submissions[k].cart /\ submissions[k].cart <= carts
              /\ submissions[k].cart \in Nat
              /\ Over(submissions[k]) => Over(submissions'[k])
  BY <1>1, <1>3, <1>4, <1>5, <1>6, ReplaceSubmission
<1>8. ASSUME NEW k \in DOMAIN submissions', submissions'[k].cart = carts'
      PROVE  Over(submissions'[k])
  <2>1. CASE HearAccepted(n)
    BY <1>0, <1>5, <1>7, <1>8, <2>1
  <2>2. CASE ~HearAccepted(n)
    <3>1. submissions[k].cart = carts /\ k \in DOMAIN submissions /\ ~(k > n)
      BY <1>5, <1>7, <1>8, <2>2
    <3>2. submissions'[n] = new /\ Over(new)
      BY <1>1, <1>2, <1>3, <2>2 DEF Over
    <3>3. CASE k = n
      BY <3>2, <3>3
    <3>4. CASE k # n
      <4>1. k < n
        <5>1. DOMAIN submissions = 1 .. Len(submissions) /\ Len(submissions) \in Nat
          BY <1>0 DEF PageTypes
        <5>2. k \in Nat /\ n \in Nat
          BY <3>1, <5>1
        <5> QED BY <3>1, <3>4, <5>2
      <4> QED BY <1>0, <1>7, <3>1, <4>1
    <3> QED BY <3>3, <3>4
  <2> QED BY <2>1, <2>2
<1>9. ResubmissionInv'
  BY <1>7, <1>8 DEF ResubmissionInv, Over
<1>10. PageTypes'
  <2>1. /\ cartOpen' \in BOOLEAN /\ checkoutError' \in BOOLEAN /\ lines' \in SUBSET Lines
        /\ confirmation' \in {None} \cup DOMAIN submissions
    BY <1>0, <1>5 DEF PageTypes
  <2> QED BY <1>0, <1>5, <1>7, <2>1 DEF PageTypes
<1>11. DialogInv' /\ CartInv'
  BY <1>0, <1>5, FS_EmptySet DEF DialogInv, CartInv
<1> QED BY <1>7, <1>9, <1>10, <1>11 DEF GuestIInv

\* The order button: the cart as it is, unless a submission is under way.
LEMMA PlaceStep ==
  ASSUME GuestIInv, PlaceOrder
  PROVE  GuestIInv'
<1> DEFINE items == buildCheckoutPayload(lines)
           quoted == computeCartSubtotal(lines)
           new == submission
<1>0. /\ PageTypes /\ CartInv /\ DialogInv /\ ResubmissionInv /\ ~submitting
      /\ submitting' = TRUE /\ checkoutError' = FALSE
      /\ submissions' = Append(submissions, new)
      /\ UNCHANGED <<modal, lines, cartOpen, confirmation, carts, menuVersion, pageVersion, additions>>
  BY DEF GuestIInv, PlaceOrder
<1>1. /\ carts \in Nat /\ pageVersion \in {0, 1} /\ submissions \in Seq(Submissions)
      /\ lines \in SUBSET Lines
  BY <1>0 DEF PageTypes
<1>2. /\ items \in SUBSET Selections /\ IsFiniteSet(items) /\ \A i \in items : WithinGroups(i.config)
      /\ quoted = itemsAt(pageVersion, items) /\ quoted \in Int
  BY <1>0, <1>1, CartIsPrice
<1>3. new = [items |-> items, quoted |-> quoted, cart |-> carts, page |-> pageVersion,
             menu |-> pageVersion, answer |-> "none", taken |-> FALSE, charged |-> 0]
  BY DEF submission
<1> HIDE DEF items, quoted, new
<1>4. /\ new \in Submissions /\ new.items = items /\ new.quoted = quoted /\ new.page = pageVersion
      /\ new.cart = carts /\ new.answer = "none" /\ new.taken = FALSE
  BY <1>1, <1>2, <1>3 DEF Submissions, Answers
<1>5. SubmissionInv(new)
  BY <1>1, <1>2, <1>4 DEF SubmissionInv
<1> DEFINE last == Len(submissions) + 1
<1>6. /\ submissions' \in Seq(Submissions) /\ DOMAIN submissions' = DOMAIN submissions \cup {last}
      /\ submissions'[last] = new /\ \A k \in DOMAIN submissions : submissions'[k] = submissions[k]
      /\ \A k \in DOMAIN submissions : k < last /\ ~(last < k)
      /\ last \in Nat
  BY <1>0, <1>1, <1>4
<1> HIDE DEF last
<1>7. SubmissionsInv'
  <2>1. \A k \in DOMAIN submissions' : SubmissionInv(submissions'[k])
    BY <1>5, <1>6 DEF GuestIInv, SubmissionsInv
  <2>2. \A k \in DOMAIN submissions' : submissions'[k].cart <= carts'
    BY <1>0, <1>1, <1>4, <1>6 DEF GuestIInv, SubmissionsInv
  <2> QED BY <2>1, <2>2 DEF SubmissionsInv
<1>8. ResubmissionInv'
  <2>1. ASSUME NEW k \in DOMAIN submissions', NEW m \in DOMAIN submissions', k < m,
               submissions'[k].cart = submissions'[m].cart
        PROVE  Over(submissions'[k])
    <3>1. k \in DOMAIN submissions /\ submissions'[k] = submissions[k]
      BY <1>6, <2>1
    <3>2. CASE m = last
      BY <1>0, <1>4, <1>6, <2>1, <3>1, <3>2 DEF ResubmissionInv
    <3>3. CASE m # last
      BY <1>0, <1>6, <2>1, <3>1, <3>3 DEF ResubmissionInv
    <3> QED BY <3>2, <3>3
  <2> QED BY <1>0, <2>1 DEF ResubmissionInv, Over
<1>9. PageTypes'
  <2>1. confirmation' \in {None} \cup DOMAIN submissions'
    BY <1>0, <1>6 DEF PageTypes
  <2>2. submitting' \in BOOLEAN /\ checkoutError' \in BOOLEAN
    BY <1>0
  <2> QED BY <1>0, <1>6, <2>1, <2>2 DEF PageTypes
<1>10. DialogInv' /\ CartInv'
  BY <1>0 DEF DialogInv, CartInv
<1> QED BY <1>7, <1>8, <1>9, <1>10 DEF GuestIInv

\* Every step of a guest, the server and the menu keeps the inductive invariant.
LEMMA GuestNextIInv ==
  GuestIInv /\ [GuestNext(MenuItems, 1..MaxQuantity)]_guestVars => GuestIInv'
<1> SUFFICES ASSUME GuestIInv, [GuestNext(MenuItems, 1..MaxQuantity)]_guestVars PROVE GuestIInv'
  OBVIOUS
<1>1. CASE UNCHANGED guestVars
  <2>1. PageTypes' /\ DialogInv' /\ CartInv'
    BY <1>1 DEF guestVars, GuestIInv, PageTypes, DialogInv, CartInv
  <2>2. SubmissionsInv' /\ ResubmissionInv'
    BY <1>1, SubmissionsStay DEF guestVars, GuestIInv, PageTypes
  <2> QED BY <1>1, <2>1, <2>2 DEF GuestIInv, guestVars
<1> QED BY <1>1, DialogSteps, CartSteps, PageSteps, ServerSteps, HearSteps, PlaceStep DEF GuestNext

\* MenuBrowser and lib/pricing: whatever a guest puts together, an order respects the
\* groups, costs what the page quoted if the menu has not changed, and is taken once per
\* cart unless an answer was lost.
THEOREM GuestCorrect == GuestSpec => []GuestInv
<1>1. GuestIInv => GuestInv
  <2> SUFFICES ASSUME GuestIInv PROVE GuestInv
    OBVIOUS
  <2>1. \A n \in DOMAIN submissions : submissions[n] \in Submissions /\ SubmissionInv(submissions[n])
    BY DEF GuestIInv, PageTypes, SubmissionsInv
  <2>2. GuestTypeOK
    <3>1. \A l \in lines : l.config \in Configurations /\ l.quantity > 0
      BY DEF GuestIInv, PageTypes, Lines
    <3>2. \A n \in DOMAIN submissions : submissions[n].answer \in Answers
      BY <2>1 DEF Submissions
    <3> QED BY <3>1, <3>2 DEF GuestIInv, PageTypes, GuestTypeOK, Answers
  <2>3. AddonsWithinGroup
    BY <2>1 DEF AddonsWithinGroup, SubmissionInv, WithinGroups
  <2>4. QuotedIsCharged
    BY <2>1 DEF QuotedIsCharged, SubmissionInv
  <2>5. OneOrderPerCart
    BY <2>1 DEF OneOrderPerCart, GuestIInv, ResubmissionInv, Over, SubmissionInv
  <2> QED BY <2>2, <2>3, <2>4, <2>5 DEF GuestInv
<1> QED BY <1>1, GuestInitIInv, GuestNextIInv, PTL DEF GuestSpec

(***************************************************************************)
(* The figures of the executive (ElevaInsights): sums over segments.       *)
(***************************************************************************)

\* Nothing adds up to nothing.
LEMMA SumEmpty ==
  ASSUME NEW v, DOMAIN v = {}, v \in [{} -> Int]
  PROVE  Sum(v) = 0
<1>1. IsFiniteSet({})
  BY FS_EmptySet
<1>2. PICK g : AddsUp(g, v, {})
  BY <1>1, AddsUpExists
<1> QED BY <1>1, <1>2, SumAddsUp DEF AddsUp

\* Some of the values of a function.
Part(f, K) == [k \in K |-> f[k]]

\* Values that are equal make equal parts.
LEMMA PartEqual ==
  ASSUME NEW f, NEW g, NEW K, \A k \in K : f[k] = g[k]
  PROVE  Part(f, K) = Part(g, K)
BY DEF Part

\* A part of integers.
LEMMA PartType ==
  ASSUME NEW D, NEW f \in [D -> Int], NEW K \in SUBSET D
  PROVE  Part(f, K) \in [K -> Int]
BY DEF Part

\* A value of a part is the value.
LEMMA PartAt ==
  ASSUME NEW f, NEW K, NEW k \in K
  PROVE  Part(f, K)[k] = f[k]
BY DEF Part

\* A part of a part is a part.
LEMMA PartOfPart ==
  ASSUME NEW f, NEW K, NEW L \in SUBSET K
  PROVE  Part(Part(f, K), L) = Part(f, L)
<1>1. \A k \in L : Part(f, K)[k] = f[k]
  BY PartAt
<1> QED BY <1>1, PartEqual

\* A sum is one of its values and the sum of the others.
LEMMA SumRemove ==
  ASSUME NEW D, IsFiniteSet(D), NEW v \in [D -> Int], NEW x \in D
  PROVE  Sum(v) = v[x] + Sum(Part(v, D \ {x}))
<1> DEFINE E == D \ {x}
           w == Part(v, E)
<1>1. PICK g : AddsUp(g, v, D)
  BY AddsUpExists
<1> DEFINE h == [s \in SUBSET E |-> g[s]]
<1>2. w \in [E -> Int]
  BY PartType
<1>3. IsFiniteSet(E)
  BY FS_RemoveElement
<1>4. \A y \in E : w[y] = v[y]
  BY PartAt
<1> HIDE DEF w
<1>5. AddsUp(h, w, E)
  <2>1. h \in [SUBSET E -> Int] /\ h[{}] = 0
    BY <1>1 DEF AddsUp
  <2>2. ASSUME NEW s \in SUBSET E, NEW y \in s PROVE h[s] = w[y] + h[s \ {y}]
    <3>1. g[s] = v[y] + g[s \ {y}]
      BY <1>1 DEF AddsUp
    <3>2. h[s] = g[s] /\ h[s \ {y}] = g[s \ {y}] /\ w[y] = v[y]
      BY <1>4
    <3> QED BY <3>1, <3>2
  <2> HIDE DEF h, E
  <2> QED BY <2>1, <2>2 DEF AddsUp
<1>6. Sum(w) = h[E]
  <2> HIDE DEF h, E
  <2> QED BY <1>2, <1>3, <1>5, SumAddsUp
<1>7. h[E] = g[E]
  OBVIOUS
<1>8. Sum(v) = g[D] /\ g[D] = v[x] + g[E]
  BY <1>1, SumAddsUp DEF AddsUp
<1> QED BY <1>6, <1>7, <1>8 DEF w

\* The amount under a key, and an amount that is added under it.
At(segments, key) == IF key \in DOMAIN segments THEN segments[key] ELSE 0
Added(segments, key, total) ==
  [k \in DOMAIN segments \cup {key} |-> At(segments, k) + IF k = key THEN total ELSE 0]

LEMMA AtIs ==
  ASSUME NEW D, NEW f \in [D -> Int]
  PROVE  \A k : At(f, k) \in Int /\ (k \in D => At(f, k) = f[k]) /\ (k \notin D => At(f, k) = 0)
BY DEF At

\* An amount is added under a key.
LEMMA AddedType ==
  ASSUME NEW D, NEW f \in [D -> Int], NEW key, NEW total \in Int
  PROVE  Added(f, key, total) \in [D \cup {key} -> Int]
<1>1. Added(f, key, total) = [k \in D \cup {key} |-> At(f, k) + IF k = key THEN total ELSE 0]
  BY DEF Added
<1>2. \A k : At(f, k) \in Int
  BY AtIs
<1>3. \A k : (IF k = key THEN total ELSE 0) \in Int
  OBVIOUS
<1> QED BY <1>1, <1>2, <1>3

\* The key's amount grows.
LEMMA AddedAt ==
  ASSUME NEW D, NEW f \in [D -> Int], NEW key, NEW total \in Int
  PROVE  Added(f, key, total)[key] = At(f, key) + total
<1>1. key \in DOMAIN f \cup {key}
  OBVIOUS
<1> QED BY <1>1 DEF Added

\* The others stay.
LEMMA AddedOthers ==
  ASSUME NEW D, NEW f \in [D -> Int], NEW key, NEW total \in Int, NEW k \in D \ {key}
  PROVE  Added(f, key, total)[k] = f[k]
<1>1. k \in DOMAIN f \cup {key} /\ k # key
  OBVIOUS
<1>2. Added(f, key, total)[k] = At(f, k) + 0
  BY <1>1 DEF Added
<1>3. At(f, k) = f[k] /\ f[k] \in Int
  BY DEF At
<1> QED BY <1>2, <1>3

\* A sum over keys the key is one of grows by the amount.
LEMMA AddedIn ==
  ASSUME NEW D, IsFiniteSet(D), NEW f \in [D -> Int], NEW key, NEW total \in Int, NEW K, key \in K
  PROVE  SumOver(Added(f, key, total), (D \cup {key}) \cap K) = SumOver(f, D \cap K) + total
<1> DEFINE g == Added(f, key, total)
           EK == (D \cup {key}) \cap K
           DK == D \cap K
           rest == Part(f, DK \ {key})
<1>1. g \in [D \cup {key} -> Int]
  BY AddedType
<1>2. g[key] = At(f, key) + total
  BY AddedAt
<1>3. \A k \in D \ {key} : g[k] = f[k]
  BY AddedOthers
<1> HIDE DEF g
<1>4. IsFiniteSet(EK) /\ IsFiniteSet(DK)
  <2>1. IsFiniteSet(D \cup {key})
    BY FS_AddElement
  <2> QED BY <2>1, FS_Intersection
<1>5. EK \in SUBSET (D \cup {key}) /\ DK \in SUBSET D /\ key \in EK /\ EK \ {key} = DK \ {key}
      /\ DK \ {key} \in SUBSET D /\ DK \ {key} \in SUBSET DK /\ EK \ {key} \in SUBSET EK
  OBVIOUS
<1>6. SumOver(g, EK) = Sum(Part(g, EK)) /\ SumOver(f, DK) = Sum(Part(f, DK))
  BY DEF SumOver, Part
<1>7. Part(g, DK \ {key}) = rest
  <2>1. \A k \in DK \ {key} : g[k] = f[k]
    BY <1>3
  <2> HIDE DEF DK
  <2> QED BY <2>1, PartEqual
<1> HIDE DEF EK, DK
<1>8. Sum(Part(g, EK)) = g[key] + Sum(rest)
  <2>1. Part(g, EK) \in [EK -> Int]
    BY <1>1, <1>5, PartType
  <2>2. Sum(Part(g, EK)) = Part(g, EK)[key] + Sum(Part(Part(g, EK), EK \ {key}))
    BY <1>4, <1>5, <2>1, SumRemove
  <2>3. Part(g, EK)[key] = g[key]
    BY <1>5, PartAt
  <2>4. Part(Part(g, EK), EK \ {key}) = Part(g, EK \ {key})
    BY <1>5, PartOfPart
  <2> HIDE DEF rest
  <2> QED BY <1>5, <1>7, <2>2, <2>3, <2>4
<1>9. Part(f, DK) \in [DK -> Int]
  BY <1>5, PartType
<1>10. rest \in [DK \ {key} -> Int] /\ IsFiniteSet(DK \ {key})
  <2>1. rest \in [DK \ {key} -> Int]
    BY <1>5, PartType
  <2>2. IsFiniteSet(DK \ {key})
    BY <1>4, FS_RemoveElement
  <2> QED BY <2>1, <2>2
<1>11. Sum(rest) \in Int
  <2> HIDE DEF rest
  <2> QED BY <1>10, SumType
<1>12. Sum(Part(f, DK)) = At(f, key) + Sum(rest)
  <2>1. CASE key \in D
    <3>1. key \in DK
      BY <2>1 DEF DK
    <3>2. Sum(Part(f, DK)) = Part(f, DK)[key] + Sum(Part(Part(f, DK), DK \ {key}))
      BY <1>4, <1>9, <3>1, SumRemove
    <3>3. Part(f, DK)[key] = f[key]
      BY <3>1, PartAt
    <3>4. Part(Part(f, DK), DK \ {key}) = rest
      BY <1>5, PartOfPart
    <3>5. At(f, key) = f[key]
      BY <2>1 DEF At
    <3> HIDE DEF rest
    <3> QED BY <3>2, <3>3, <3>4, <3>5
  <2>2. CASE key \notin D
    <3>1. DK \ {key} = DK
      BY <2>2 DEF DK
    <3>2. At(f, key) = 0
      BY <2>2 DEF At
    <3>3. Part(f, DK) = rest
      BY <3>1
    <3> HIDE DEF rest
    <3> QED BY <1>11, <3>2, <3>3
  <2> QED BY <2>1, <2>2
<1>13. At(f, key) \in Int
  BY AtIs
<1> HIDE DEF rest
<1>14. Sum(Part(g, EK)) = Sum(Part(f, DK)) + total
  <2>1. ASSUME NEW a \in Int, NEW r \in Int PROVE (a + total) + r = (a + r) + total
    OBVIOUS
  <2> QED BY <1>2, <1>8, <1>11, <1>12, <1>13, <2>1
<1> QED BY <1>6, <1>14 DEF g, EK, DK

\* Rows are finitely many.
LEMMA RowsFinite ==
  ASSUME orderRows \in Seq(OrderRows), NEW rows \in SUBSET DOMAIN orderRows
  PROVE  IsFiniteSet(rows)
<1>1. DOMAIN orderRows = 1 .. Len(orderRows) /\ Len(orderRows) \in Nat
  OBVIOUS
<1>2. IsFiniteSet(1 .. Len(orderRows))
  BY <1>1, FS_Interval
<1> QED BY <1>1, <1>2, FS_Subset

\* The rows of a status segment.
Of(rows, k) == {j \in rows : segmentOf(j) = k}

\* A segment counts the rows that belong to it.
LEMMA StatusAt ==
  ASSUME NEW rows, NEW k
  PROVE  At(StatusSegments(rows), k) = Cardinality(Of(rows, k))
<1>1. DOMAIN StatusSegments(rows) = {segmentOf(i) : i \in rows}
  BY DEF StatusSegments
<1>2. CASE k \in {segmentOf(i) : i \in rows}
  BY <1>1, <1>2 DEF StatusSegments, At, Of
<1>3. CASE k \notin {segmentOf(i) : i \in rows}
  <2>1. Of(rows, k) = {}
    BY <1>3 DEF Of
  <2> QED BY <1>1, <1>3, <2>1, FS_EmptySet DEF At
<1> QED BY <1>2, <1>3

\* One more row: its status is counted once more.
LEMMA StatusNext ==
  ASSUME NEW rows, IsFiniteSet(rows), NEW i, i \notin rows
  PROVE  StatusSegments(rows \cup {i}) = Added(StatusSegments(rows), segmentOf(i), 1)
<1> DEFINE more == rows \cup {i}
           keys == {segmentOf(j) : j \in more}
           total(k) == IF k = segmentOf(i) THEN 1 ELSE 0
<1>1. keys = DOMAIN StatusSegments(rows) \cup {segmentOf(i)}
  BY DEF StatusSegments
<1>2. ASSUME NEW k PROVE Cardinality(Of(more, k)) = At(StatusSegments(rows), k) + total(k)
  <2>1. IsFiniteSet(Of(rows, k)) /\ Cardinality(Of(rows, k)) \in Nat
    <3>1. Of(rows, k) \in SUBSET rows
      BY DEF Of
    <3>2. IsFiniteSet(Of(rows, k))
      BY <3>1, FS_Subset
    <3> QED BY <3>2, FS_CardinalityType
  <2>2. At(StatusSegments(rows), k) = Cardinality(Of(rows, k))
    BY StatusAt
  <2>3. CASE k = segmentOf(i)
    <3>1. Of(more, k) = Of(rows, k) \cup {i} /\ i \notin Of(rows, k)
      BY <2>3 DEF Of
    <3>2. Cardinality(Of(rows, k) \cup {i}) = Cardinality(Of(rows, k)) + 1
      BY <2>1, <3>1, FS_AddElement
    <3> QED BY <2>2, <2>3, <3>1, <3>2
  <2>4. CASE k # segmentOf(i)
    <3>1. Of(more, k) = Of(rows, k)
      BY <2>4 DEF Of
    <3> QED BY <2>1, <2>2, <2>4, <3>1
  <2> QED BY <2>3, <2>4
<1>3. StatusSegments(more) = [k \in keys |-> Cardinality(Of(more, k))]
  BY Zenon DEF StatusSegments, Of
<1>4. Added(StatusSegments(rows), segmentOf(i), 1) = [k \in keys |-> At(StatusSegments(rows), k) + total(k)]
  BY <1>1, Zenon DEF Added
<1> HIDE DEF keys, total
<1>5. StatusSegments(more) = Added(StatusSegments(rows), segmentOf(i), 1)
  <2> HIDE DEF more
  <2> QED BY <1>2, <1>3, <1>4
<1> QED BY <1>5

\* The segments count every row once.
CountsAddUp(rows) ==
  \E D : /\ IsFiniteSet(D) /\ StatusSegments(rows) \in [D -> Int]
         /\ SumOver(StatusSegments(rows), D) = Cardinality(rows)

\* So they do for any rows.
LEMMA StatusesAddUp ==
  ASSUME NEW rows, IsFiniteSet(rows)
  PROVE  CountsAddUp(rows)
<1> DEFINE Not == {s \in SUBSET rows : ~ CountsAddUp(s)}
<1>1. ASSUME Not # {} PROVE FALSE
  <2>1. \A s \in Not : IsFiniteSet(s)
    BY FS_Subset
  <2>2. PICK s \in Not : \A x \in s : s \ {x} \notin Not
    <3> HIDE DEF Not
    <3> QED BY <1>1, <2>1, Smallest
  <2>3. CASE s = {}
    <3> DEFINE f == StatusSegments({})
    <3>1. f \in [{} -> Int]
      BY DEF StatusSegments
    <3> DEFINE v == Part(f, {})
    <3>2. SumOver(f, {}) = Sum(v)
      BY DEF SumOver, Part
    <3>3. v \in [{} -> Int] /\ DOMAIN v = {}
      BY DEF Part
    <3> HIDE DEF f, v
    <3>4. Sum(v) = 0
      BY <3>3, SumEmpty
    <3>5. IsFiniteSet({}) /\ Cardinality({}) = 0
      BY FS_EmptySet
    <3>6. CountsAddUp({})
      BY <3>1, <3>2, <3>4, <3>5 DEF CountsAddUp, f
    <3> QED BY <2>2, <2>3, <3>6
  <2>4. ASSUME NEW x \in s PROVE FALSE
    <3> DEFINE rest == s \ {x}
               key == segmentOf(x)
               f == StatusSegments(rest)
               g == Added(f, key, 1)
    <3>1. CountsAddUp(rest)
      BY <2>2
    <3>2. PICK D : IsFiniteSet(D) /\ f \in [D -> Int] /\ SumOver(f, D) = Cardinality(rest)
      BY <3>1 DEF CountsAddUp
    <3>3. IsFiniteSet(rest) /\ x \notin rest /\ rest \cup {x} = s
      <4>1. IsFiniteSet(s)
        BY <2>1
      <4> QED BY <4>1, FS_RemoveElement
    <3>4. StatusSegments(s) = g
      <4>1. StatusSegments(rest \cup {x}) = g
        <5> HIDE DEF rest
        <5> QED BY <3>3, StatusNext
      <4> HIDE DEF rest
      <4> QED BY <3>3, <4>1
    <3>5. Cardinality(s) = Cardinality(rest) + 1
      <4>1. Cardinality(rest \cup {x}) = Cardinality(rest) + 1
        <5> HIDE DEF rest
        <5> QED BY <3>3, FS_AddElement
      <4> HIDE DEF rest
      <4> QED BY <3>3, <4>1
    <3> DEFINE K == D \cup {key}
    <3> HIDE DEF f, rest, key
    <3>6. g \in [D \cup {key} -> Int]
      <4>1. f \in [D -> Int] /\ 1 \in Int
        BY <3>2
      <4>2. Added(f, key, 1) \in [D \cup {key} -> Int]
        BY <4>1, AddedType
      <4> QED BY <4>2
    <3>7. SumOver(g, (D \cup {key}) \cap K) = SumOver(f, D \cap K) + 1
      <4>1. key \in K
        OBVIOUS
      <4> HIDE DEF K
      <4> QED BY <3>2, <4>1, AddedIn
    <3>8. (D \cup {key}) \cap K = D \cup {key} /\ D \cap K = D
      OBVIOUS
    <3>9. IsFiniteSet(D \cup {key})
      BY <3>2, FS_AddElement
    <3> HIDE DEF g, K
    <3>10. SumOver(g, D \cup {key}) = Cardinality(s)
      BY <3>2, <3>5, <3>7, <3>8
    <3>11. CountsAddUp(s)
      BY <3>4, <3>6, <3>9, <3>10 DEF CountsAddUp
    <3> QED BY <2>2, <3>11
  <2> QED BY <2>3, <2>4
<1>2. rows \in SUBSET rows
  OBVIOUS
<1> QED BY <1>1, <1>2

\* sales.revenue names a status that the schema does not have: this is why its query is
\* rejected (salesRevenueProvider, the OrderStatus enum) and salesRevenue has no figure.
LEMMA RevenueIsRejected == ~(RevenueStatuses \subseteq OrderStatus)
  BY DEF RevenueStatuses, OrderStatus

\* Whatever the orders are, the segments add up to the figures.
LEMMA FiguresAddUp ==
  ASSUME orderRows \in Seq(OrderRows)
  PROVE  SegmentsAddUp
<1> DEFINE all == Selected(1, 3)
           counts == StatusSegments(all)
           m == computeMetrics(1, 3, 0)
<1>1. all \in SUBSET DOMAIN orderRows
  BY DEF Selected
<1>2. IsFiniteSet(all)
  <2> HIDE DEF all
  <2> QED BY <1>1, RowsFinite
<1>3. SumOver(counts, DOMAIN counts) = Cardinality(all)
  <2> HIDE DEF all
  <2>1. PICK D : counts \in [D -> Int] /\ SumOver(counts, D) = Cardinality(all)
    BY <1>2, StatusesAddUp DEF CountsAddUp
  <2> HIDE DEF counts
  <2> QED BY <2>1
<1>4. m.count.status = "AVAILABLE" /\ m.count.segments = counts /\ m.count.value = Cardinality(all)
  BY DEF computeMetrics, orderCount, Available
<1>5. m.revenue.status = "UNVERIFIED" /\ m.revenue.value = None /\ DOMAIN m.revenue.segments = {}
  BY DEF computeMetrics, salesRevenue, Unverified
<1>6. DOMAIN m = {"revenue", "count"}
  BY DEF computeMetrics
<1> HIDE DEF m, counts, all
<1>7. m = computeMetrics(1, 3, 0)
  BY DEF m
<1> QED BY <1>3, <1>4, <1>5, <1>6, <1>7 DEF SegmentsAddUp

(***************************************************************************)
(* Situations and what is filed for them (ElevaInsights).                  *)
(***************************************************************************)

\* The ids and the form of what the service keeps.
Ids == (SUBSET (1 .. MaxEvents)) \X (0 .. MaxTime)
Situations ==
  [id : Ids, state : SituationStates, severity : Severities, events : SUBSET (1 .. MaxEvents),
   alerts : Seq(Severities), recommendations : Seq(BOOLEAN), resolution : BOOLEAN]
Alerts == [situation : Ids, severity : Severities]

\* What the service holds.
HeldInv ==
  /\ now \in 0 .. MaxTime /\ signals \in 0 .. 1 /\ events \in 0 .. MaxEvents
  /\ situations \in Seq(Situations) /\ Len(situations) <= MaxSituations
  /\ alerts \in Seq(Alerts) /\ recommendations \in Seq(Ids)
  /\ justified \in SUBSET (1 .. MaxSituations)
  /\ orderRows \in Seq(OrderRows)

\* A situation has its id for itself.
IdsInv ==
  \A i, j \in DOMAIN situations : situations[i].id = situations[j].id => i = j

\* What is filed is filed for a situation that exists.
FiledInv ==
  /\ \A k \in DOMAIN alerts : \E i \in DOMAIN situations : situations[i].id = alerts[k].situation
  /\ \A k \in DOMAIN recommendations : \E i \in DOMAIN situations : situations[i].id = recommendations[k]

\* A situation is of high severity only once it was assessed with reason and evidence.
SeverityInv == \A i \in DOMAIN situations : situations[i].severity = "HIGH" => i \in justified

InsightIInv ==
  HeldInv /\ IdsInv /\ FiledInv /\ SeverityInv /\ NothingLostOnMerge /\ HighAlertsAreJustified

\* The alerts, and the recommendations, filed under an id.
AlertsOf(list, id) == {k \in DOMAIN list : list[k].situation = id}
FiledFor(list, id) == {k \in DOMAIN list : list[k] = id}

\* Positions of a list are finitely many.
LEMMA PositionsFinite ==
  ASSUME NEW A, NEW list \in Seq(A), NEW P \in SUBSET DOMAIN list
  PROVE  IsFiniteSet(P) /\ Cardinality(P) \in Nat /\ Len(list) + 1 \notin P
<1>1. DOMAIN list = 1 .. Len(list) /\ Len(list) \in Nat
  OBVIOUS
<1>2. IsFiniteSet(1 .. Len(list))
  BY <1>1, FS_Interval
<1>3. IsFiniteSet(P)
  BY <1>1, <1>2, FS_Subset
<1>4. Cardinality(P) \in Nat
  BY <1>3, FS_CardinalityType
<1>5. Len(list) + 1 \notin P
  BY <1>1
<1> QED BY <1>3, <1>4, <1>5

\* One more of them.
LEMMA OneMorePosition ==
  ASSUME NEW A, NEW list \in Seq(A), NEW P \in SUBSET DOMAIN list
  PROVE  Cardinality(P \cup {Len(list) + 1}) = Cardinality(P) + 1
<1>1. IsFiniteSet(P) /\ Len(list) + 1 \notin P
  BY PositionsFinite
<1> QED BY <1>1, FS_AddElement

\* An alert is appended.
LEMMA AlertAppended ==
  ASSUME NEW list \in Seq(Alerts), NEW a \in Alerts, NEW id
  PROVE  Cardinality(AlertsOf(Append(list, a), id)) =
           Cardinality(AlertsOf(list, id)) + IF a.situation = id THEN 1 ELSE 0
<1> DEFINE more == Append(list, a)
           last == Len(list) + 1
<1>1. DOMAIN more = DOMAIN list \cup {last} /\ more[last] = a /\ last \notin DOMAIN list
      /\ \A k \in DOMAIN list : more[k] = list[k]
  BY AppendProperties
<1>2. AlertsOf(list, id) \in SUBSET DOMAIN list
  BY DEF AlertsOf
<1>3. Cardinality(AlertsOf(list, id)) \in Nat
  BY <1>2, PositionsFinite
<1> HIDE DEF more
<1>4. CASE a.situation = id
  <2>1. AlertsOf(more, id) = AlertsOf(list, id) \cup {last}
    BY <1>1, <1>4 DEF AlertsOf
  <2>2. Cardinality(AlertsOf(list, id) \cup {last}) = Cardinality(AlertsOf(list, id)) + 1
    BY <1>2, OneMorePosition
  <2> QED BY <1>4, <2>1, <2>2 DEF more
<1>5. CASE a.situation # id
  <2>1. AlertsOf(more, id) = AlertsOf(list, id)
    BY <1>1, <1>5 DEF AlertsOf
  <2> QED BY <1>3, <1>5, <2>1 DEF more
<1> QED BY <1>4, <1>5

\* A recommendation is appended.
LEMMA RecommendationAppended ==
  ASSUME NEW list \in Seq(Ids), NEW a \in Ids, NEW id
  PROVE  Cardinality(FiledFor(Append(list, a), id)) =
           Cardinality(FiledFor(list, id)) + IF a = id THEN 1 ELSE 0
<1> DEFINE more == Append(list, a)
           last == Len(list) + 1
<1>1. DOMAIN more = DOMAIN list \cup {last} /\ more[last] = a /\ last \notin DOMAIN list
      /\ \A k \in DOMAIN list : more[k] = list[k]
  BY AppendProperties
<1>2. FiledFor(list, id) \in SUBSET DOMAIN list
  BY DEF FiledFor
<1>3. Cardinality(FiledFor(list, id)) \in Nat
  BY <1>2, PositionsFinite
<1> HIDE DEF more
<1>4. CASE a = id
  <2>1. FiledFor(more, id) = FiledFor(list, id) \cup {last}
    BY <1>1, <1>4 DEF FiledFor
  <2>2. Cardinality(FiledFor(list, id) \cup {last}) = Cardinality(FiledFor(list, id)) + 1
    BY <1>2, OneMorePosition
  <2> QED BY <1>4, <2>1, <2>2 DEF more
<1>5. CASE a # id
  <2>1. FiledFor(more, id) = FiledFor(list, id)
    BY <1>1, <1>5 DEF FiledFor
  <2> QED BY <1>3, <1>5, <2>1 DEF more
<1> QED BY <1>4, <1>5

\* What a situation lists is what is filed under its id.
Listed(s, alertList, recommendationList) ==
  /\ Len(s.alerts) = Cardinality(AlertsOf(alertList, s.id))
  /\ Len(s.recommendations) = Cardinality(FiledFor(recommendationList, s.id))

\* NothingLostOnMerge, situation by situation.
LEMMA NothingLostIs ==
  /\ NothingLostOnMerge <=> \A i \in DOMAIN situations : Listed(situations[i], alerts, recommendations)
  /\ NothingLostOnMerge' <=> \A i \in DOMAIN situations' : Listed(situations'[i], alerts', recommendations')
BY DEF NothingLostOnMerge, Listed, AlertsOf, FiledFor

\* Situations keep their positions and ids.
SameIds ==
  /\ DOMAIN situations' = DOMAIN situations
  /\ \A j \in DOMAIN situations : situations'[j].id = situations[j].id

\* Ids stay apart.
LEMMA IdsStay ==
  ASSUME IdsInv, SameIds
  PROVE  IdsInv'
BY DEF IdsInv, SameIds

\* What was filed finds its situation.
LEMMA FiledStay ==
  ASSUME FiledInv, SameIds, UNCHANGED <<alerts, recommendations>>
  PROVE  FiledInv'
BY DEF FiledInv, SameIds

\* Justified alerts stay justified.
LEMMA AlertsStayJustified ==
  ASSUME HighAlertsAreJustified, SameIds, alerts' = alerts, justified \subseteq justified'
  PROVE  HighAlertsAreJustified'
BY DEF HighAlertsAreJustified, SameIds

\* The beginning.
LEMMA InsightInitIInv ==
  ASSUME InsightAssumption, InsightInit
  PROVE  InsightIInv
<1> USE DEF InsightInit
<1>1. HeldInv
  <2>1. {MaxEvents, MaxSituations, MaxTime} \subseteq Nat
    BY DEF InsightAssumption
  <2> QED BY <2>1 DEF HeldInv
<1>2. IdsInv /\ SeverityInv
  BY DEF IdsInv, SeverityInv
<1>3. FiledInv /\ HighAlertsAreJustified
  BY DEF FiledInv, HighAlertsAreJustified
<1>4. NothingLostOnMerge
  BY DEF NothingLostOnMerge
<1> QED BY <1>1, <1>2, <1>3, <1>4 DEF InsightIInv

\* Steps that leave situations and what is filed alone.
LEMMA OtherStepsIInv ==
  ASSUME InsightIInv, HeldInv', UNCHANGED <<situations, alerts, recommendations, justified>>
  PROVE  InsightIInv'
<1> USE DEF InsightIInv
<1>1. IdsInv' /\ SeverityInv'
  BY DEF IdsInv, SeverityInv
<1>2. FiledInv' /\ HighAlertsAreJustified'
  BY DEF FiledInv, HighAlertsAreJustified
<1>3. NothingLostOnMerge'
  BY DEF NothingLostOnMerge
<1> QED BY <1>1, <1>2, <1>3

\* Time, signals, events, insights and orders.
LEMMA OtherActionsIInv ==
  ASSUME InsightAssumption, InsightIInv,
         \/ Tick \/ ingestSignal \/ convertSignalToEvent \/ consumeM7SituationsIntoInsights
         \/ MetricNext
  PROVE  InsightIInv'
<1>1. HeldInv' /\ UNCHANGED <<situations, alerts, recommendations, justified>>
  <2>0. HeldInv /\ {MaxEvents, MaxSituations, MaxTime} \subseteq Nat
    BY DEF InsightIInv, InsightAssumption
  <2>1. CASE Tick
    BY <2>0, <2>1 DEF Tick, HeldInv
  <2>2. CASE ingestSignal
    BY <2>0, <2>2 DEF ingestSignal, HeldInv
  <2>3. CASE convertSignalToEvent
    BY <2>0, <2>3 DEF convertSignalToEvent, HeldInv
  <2>4. CASE consumeM7SituationsIntoInsights
    BY <2>0, <2>4 DEF consumeM7SituationsIntoInsights, HeldInv
  <2>5. CASE MetricNext
    <3>1. PICK row \in OrderRows : OrderArrives(row)
      BY <2>5 DEF MetricNext
    <3>2. orderRows' \in Seq(OrderRows)
      BY <2>0, <3>1 DEF OrderArrives, HeldInv
    <3> QED BY <2>0, <3>1, <3>2 DEF OrderArrives, HeldInv
  <2> QED BY <2>1, <2>2, <2>3, <2>4, <2>5
<1> QED BY <1>1, OtherStepsIInv

\* A list with one element replaced.
LEMMA ReplacedIn ==
  ASSUME NEW A, NEW list \in Seq(A), NEW i \in DOMAIN list, NEW x \in A
  PROVE  /\ [list EXCEPT ![i] = x] \in Seq(A)
         /\ Len([list EXCEPT ![i] = x]) = Len(list)
         /\ DOMAIN [list EXCEPT ![i] = x] = DOMAIN list
         /\ [list EXCEPT ![i] = x][i] = x
         /\ \A j \in DOMAIN list : j # i => [list EXCEPT ![i] = x][j] = list[j]
<1>1. [list EXCEPT ![i] = x] \in [1 .. Len(list) -> A] /\ Len(list) \in Nat
  OBVIOUS
<1>2. [list EXCEPT ![i] = x] \in Seq(A) /\ Len([list EXCEPT ![i] = x]) = Len(list)
  BY <1>1
<1> QED BY <1>2

\* One situation changes, and keeps its id.
OneChanged(i, s) ==
  /\ situations' = [situations EXCEPT ![i] = s]
  /\ s \in Situations /\ s.id = situations[i].id

\* The others are as they were.
LEMMA OneChangedKeeps ==
  ASSUME HeldInv, NEW i \in DOMAIN situations, NEW s, OneChanged(i, s)
  PROVE  /\ situations' \in Seq(Situations) /\ Len(situations') <= MaxSituations
         /\ SameIds /\ situations'[i] = s
         /\ \A j \in DOMAIN situations : j # i => situations'[j] = situations[j]
<1>1. situations \in Seq(Situations) /\ Len(situations) <= MaxSituations
  BY DEF HeldInv
<1>2. s \in Situations /\ situations' = [situations EXCEPT ![i] = s] /\ s.id = situations[i].id
  BY DEF OneChanged
<1> DEFINE new == [situations EXCEPT ![i] = s]
<1>3. /\ new \in Seq(Situations) /\ Len(new) = Len(situations) /\ DOMAIN new = DOMAIN situations
      /\ new[i] = s /\ \A j \in DOMAIN situations : j # i => new[j] = situations[j]
  BY <1>1, <1>2, ReplacedIn
<1> HIDE DEF new
<1>4. situations' = new
  BY <1>2 DEF new
<1>5. SameIds
  BY <1>2, <1>3, <1>4 DEF SameIds
<1> QED BY <1>1, <1>3, <1>4, <1>5

\* The fields of a situation.
LEMMA SituationFields ==
  ASSUME NEW s \in Situations
  PROVE  /\ s.id \in Ids /\ s.state \in SituationStates /\ s.severity \in Severities
         /\ s.events \in SUBSET (1 .. MaxEvents) /\ s.alerts \in Seq(Severities)
         /\ s.recommendations \in Seq(BOOLEAN) /\ s.resolution \in BOOLEAN
BY DEF Situations

\* An assessment: a high severity only with reason and evidence.
LEMMA AssessIInv ==
  ASSUME InsightAssumption, InsightIInv, NEW i \in DOMAIN situations, NEW severity \in Severities,
         NEW reasoned \in BOOLEAN, assessSituationSeverity(i, severity, reasoned)
  PROVE  InsightIInv'
<1> DEFINE s == [situations[i] EXCEPT !.severity = severity]
<1>0. HeldInv /\ IdsInv /\ FiledInv /\ SeverityInv /\ NothingLostOnMerge /\ HighAlertsAreJustified
  BY DEF InsightIInv
<1>1. /\ SeverityAllowed(severity, reasoned)
      /\ situations' = [situations EXCEPT ![i] = s]
      /\ justified' = justified \cup {j \in {i} : reasoned}
      /\ UNCHANGED <<now, signals, events, alerts, recommendations, insights, orderRows>>
  BY DEF assessSituationSeverity
<1>2. situations[i] \in Situations /\ situations \in Seq(Situations) /\ i \in 1 .. MaxSituations
  <2>1. situations \in Seq(Situations) /\ Len(situations) <= MaxSituations
    BY <1>0 DEF HeldInv
  <2>2. Len(situations) \in Nat /\ i \in 1 .. Len(situations)
    BY <2>1
  <2>3. situations[i] \in Situations
    BY <2>1
  <2>4. i \in 1 .. MaxSituations
    <3>1. MaxSituations \in Nat
      BY DEF InsightAssumption
    <3> QED BY <2>1, <2>2, <3>1
  <2> QED BY <2>1, <2>3, <2>4
<1>3. s \in Situations /\ s.id = situations[i].id /\ s.severity = severity
      /\ s.alerts = situations[i].alerts /\ s.recommendations = situations[i].recommendations
  BY <1>2 DEF Situations
<1> HIDE DEF s
<1>4. /\ situations' \in Seq(Situations) /\ Len(situations') <= MaxSituations
      /\ SameIds /\ situations'[i] = s
      /\ \A j \in DOMAIN situations : j # i => situations'[j] = situations[j]
  <2>1. OneChanged(i, s)
    BY <1>1, <1>3 DEF OneChanged
  <2> QED BY <1>0, <2>1, OneChangedKeeps
<1>5. DOMAIN situations' = DOMAIN situations
  BY <1>4 DEF SameIds
<1>6. HeldInv'
  <2>1. justified' \in SUBSET (1 .. MaxSituations)
    BY <1>0, <1>1, <1>2 DEF HeldInv
  <2> QED BY <1>0, <1>1, <1>4, <2>1 DEF HeldInv
<1>7. IdsInv' /\ FiledInv'
  BY <1>0, <1>1, <1>4, IdsStay, FiledStay
<1>8. SeverityInv'
  <2>1. ASSUME NEW j \in DOMAIN situations, situations'[j].severity = "HIGH" PROVE j \in justified'
    <3>1. CASE j = i
      BY <1>1, <1>3, <1>4, <2>1, <3>1 DEF SeverityAllowed
    <3>2. CASE j # i
      BY <1>0, <1>1, <1>4, <2>1, <3>2 DEF SeverityInv
    <3> QED BY <3>1, <3>2
  <2> QED BY <1>5, <2>1 DEF SeverityInv
<1>9. NothingLostOnMerge'
  <2>1. ASSUME NEW j \in DOMAIN situations PROVE Listed(situations'[j], alerts', recommendations')
    <3>1. Listed(situations[j], alerts, recommendations)
      BY <1>0, NothingLostIs
    <3>2. CASE j = i
      BY <1>1, <1>3, <1>4, <3>1, <3>2 DEF Listed
    <3>3. CASE j # i
      BY <1>1, <1>4, <3>1, <3>3
    <3> QED BY <3>2, <3>3
  <2> QED BY <1>5, <2>1, NothingLostIs
<1>10. HighAlertsAreJustified'
  BY <1>0, <1>1, <1>4, AlertsStayJustified
<1> QED BY <1>6, <1>7, <1>8, <1>9, <1>10 DEF InsightIInv

\* A situation advances to any state.
LEMMA AdvanceIInv ==
  ASSUME InsightIInv, NEW i \in DOMAIN situations, NEW state \in SituationStates,
         advanceSituationState(i, state)
  PROVE  InsightIInv'
<1> DEFINE s == [situations[i] EXCEPT !.state = state,
                                      !.resolution = situations[i].resolution \/ state = "RESOLVED"]
<1>0. HeldInv /\ IdsInv /\ FiledInv /\ SeverityInv /\ NothingLostOnMerge /\ HighAlertsAreJustified
  BY DEF InsightIInv
<1>2. situations[i] \in Situations /\ situations \in Seq(Situations)
  BY <1>0 DEF HeldInv
<1>1. /\ situations' = [situations EXCEPT ![i] = s]
      /\ UNCHANGED <<now, signals, events, alerts, recommendations, insights, justified, orderRows>>
  BY DEF advanceSituationState
<1>3. s \in Situations /\ s.id = situations[i].id /\ s.severity = situations[i].severity
      /\ s.alerts = situations[i].alerts /\ s.recommendations = situations[i].recommendations
  BY <1>2 DEF Situations
<1> HIDE DEF s
<1>4. /\ situations' \in Seq(Situations) /\ Len(situations') <= MaxSituations
      /\ SameIds /\ situations'[i] = s
      /\ \A j \in DOMAIN situations : j # i => situations'[j] = situations[j]
  <2>1. OneChanged(i, s)
    BY <1>1, <1>3 DEF OneChanged
  <2> QED BY <1>0, <2>1, OneChangedKeeps
<1>5. DOMAIN situations' = DOMAIN situations
  BY <1>4 DEF SameIds
<1>6. HeldInv'
  BY <1>0, <1>1, <1>4 DEF HeldInv
<1>7. IdsInv' /\ FiledInv'
  BY <1>0, <1>1, <1>4, IdsStay, FiledStay
<1>8. SeverityInv'
  <2>1. ASSUME NEW j \in DOMAIN situations, situations'[j].severity = "HIGH" PROVE j \in justified'
    <3>1. situations'[j].severity = situations[j].severity
      BY <1>3, <1>4
    <3> QED BY <1>0, <1>1, <2>1, <3>1 DEF SeverityInv
  <2> QED BY <1>5, <2>1 DEF SeverityInv
<1>9. NothingLostOnMerge'
  <2>1. ASSUME NEW j \in DOMAIN situations PROVE Listed(situations'[j], alerts', recommendations')
    <3>1. Listed(situations[j], alerts, recommendations)
      BY <1>0, NothingLostIs
    <3>2. CASE j = i
      BY <1>1, <1>3, <1>4, <3>1, <3>2 DEF Listed
    <3>3. CASE j # i
      BY <1>1, <1>4, <3>1, <3>3
    <3> QED BY <3>2, <3>3
  <2> QED BY <1>5, <2>1, NothingLostIs
<1>10. HighAlertsAreJustified'
  BY <1>0, <1>1, <1>4, AlertsStayJustified
<1> QED BY <1>6, <1>7, <1>8, <1>9, <1>10 DEF InsightIInv

\* A recommendation is filed and listed.
LEMMA RecommendIInv ==
  ASSUME InsightIInv, NEW i \in DOMAIN situations, NEW approval \in BOOLEAN,
         createRecommendation(i, approval)
  PROVE  InsightIInv'
<1> DEFINE s == [situations[i] EXCEPT !.recommendations = Append(situations[i].recommendations, approval)]
           id == situations[i].id
<1>0. HeldInv /\ IdsInv /\ FiledInv /\ SeverityInv /\ NothingLostOnMerge /\ HighAlertsAreJustified
  BY DEF InsightIInv
<1>2. situations[i] \in Situations /\ situations \in Seq(Situations) /\ recommendations \in Seq(Ids)
  BY <1>0 DEF HeldInv
<1>21. id \in Ids /\ situations[i].recommendations \in Seq(BOOLEAN)
  BY <1>2, SituationFields
<1>1. /\ situations' = [situations EXCEPT ![i] = s]
      /\ recommendations' = Append(recommendations, id)
      /\ UNCHANGED <<now, signals, events, alerts, insights, justified, orderRows>>
  BY DEF createRecommendation
<1>22. Append(situations[i].recommendations, approval) \in Seq(BOOLEAN)
       /\ Len(Append(situations[i].recommendations, approval)) = Len(situations[i].recommendations) + 1
  BY <1>21
<1>3. s \in Situations /\ s.id = id /\ s.severity = situations[i].severity
      /\ s.alerts = situations[i].alerts
      /\ Len(s.recommendations) = Len(situations[i].recommendations) + 1
  BY <1>2, <1>22 DEF Situations
<1> HIDE DEF s
<1>4. /\ situations' \in Seq(Situations) /\ Len(situations') <= MaxSituations
      /\ SameIds /\ situations'[i] = s
      /\ \A j \in DOMAIN situations : j # i => situations'[j] = situations[j]
  <2>1. OneChanged(i, s)
    BY <1>1, <1>3 DEF OneChanged
  <2> QED BY <1>0, <2>1, OneChangedKeeps
<1>5. DOMAIN situations' = DOMAIN situations
  BY <1>4 DEF SameIds
<1>6. HeldInv'
  <2>1. recommendations' \in Seq(Ids)
    BY <1>1, <1>2, <1>21
  <2> QED BY <1>0, <1>1, <1>4, <2>1 DEF HeldInv
<1>7. IdsInv'
  BY <1>0, <1>4, IdsStay
<1>8. FiledInv'
  <2>1. \A k \in DOMAIN recommendations' : recommendations'[k] = id
          \/ (k \in DOMAIN recommendations /\ recommendations'[k] = recommendations[k])
    BY <1>1, <1>2, <1>21, AppendProperties
  <2>2. \A j \in DOMAIN situations : situations'[j].id = situations[j].id
    BY <1>4 DEF SameIds
  <2>3. ASSUME NEW k \in DOMAIN recommendations'
        PROVE  \E j \in DOMAIN situations : situations'[j].id = recommendations'[k]
    <3>1. CASE recommendations'[k] = id
      BY <2>2, <3>1
    <3>2. CASE k \in DOMAIN recommendations /\ recommendations'[k] = recommendations[k]
      BY <1>0, <2>2, <3>2 DEF FiledInv
    <3> QED BY <2>1, <3>1, <3>2
  <2>4. \A k \in DOMAIN alerts' : \E j \in DOMAIN situations : situations'[j].id = alerts'[k].situation
    BY <1>0, <1>1, <2>2 DEF FiledInv
  <2> QED BY <1>5, <2>3, <2>4 DEF FiledInv
<1>9. SeverityInv'
  <2>1. ASSUME NEW j \in DOMAIN situations, situations'[j].severity = "HIGH" PROVE j \in justified'
    <3>1. situations'[j].severity = situations[j].severity
      BY <1>3, <1>4
    <3> QED BY <1>0, <1>1, <2>1, <3>1 DEF SeverityInv
  <2> QED BY <1>5, <2>1 DEF SeverityInv
<1>10. NothingLostOnMerge'
  <2>1. ASSUME NEW j \in DOMAIN situations PROVE Listed(situations'[j], alerts', recommendations')
    <3>1. Listed(situations[j], alerts, recommendations)
      BY <1>0, NothingLostIs
    <3> DEFINE jd == situations[j].id
    <3>2. Cardinality(FiledFor(recommendations', jd)) =
            Cardinality(FiledFor(recommendations, jd)) + IF id = jd THEN 1 ELSE 0
      <4>1. Cardinality(FiledFor(Append(recommendations, id), jd)) =
              Cardinality(FiledFor(recommendations, jd)) + IF id = jd THEN 1 ELSE 0
        <5> HIDE DEF id, jd
        <5> QED BY <1>2, <1>21, RecommendationAppended
      <4> QED BY <1>1, <4>1
    <3>3. CASE j = i
      <4>1. id = jd
        BY <3>3
      <4> HIDE DEF id
      <4> QED BY <1>1, <1>3, <1>4, <3>1, <3>2, <3>3, <4>1 DEF Listed
    <3>4. CASE j # i
      <4>1. id # jd
        BY <1>0, <3>4 DEF IdsInv
      <4>2. Cardinality(FiledFor(recommendations, jd)) \in Nat
        <5>1. FiledFor(recommendations, jd) \in SUBSET DOMAIN recommendations
          BY DEF FiledFor
        <5> QED BY <1>2, <5>1, PositionsFinite
      <4>3. Cardinality(FiledFor(recommendations', jd)) = Cardinality(FiledFor(recommendations, jd))
        <5> HIDE DEF id, jd
        <5> QED BY <3>2, <4>1, <4>2
      <4> QED BY <1>1, <1>4, <3>1, <3>4, <4>3 DEF Listed
    <3> QED BY <3>3, <3>4
  <2> QED BY <1>5, <2>1, NothingLostIs
<1>11. HighAlertsAreJustified'
  BY <1>0, <1>1, <1>4, AlertsStayJustified
<1> QED BY <1>6, <1>7, <1>8, <1>9, <1>10, <1>11 DEF InsightIInv

\* An alert is filed and listed, with the severity of the moment.
LEMMA AlertIInv ==
  ASSUME InsightIInv, NEW i \in DOMAIN situations, alertForSituation(i)
  PROVE  InsightIInv'
<1> DEFINE s == [situations[i] EXCEPT !.alerts = Append(situations[i].alerts, situations[i].severity)]
           id == situations[i].id
           alert == [situation |-> situations[i].id, severity |-> situations[i].severity]
<1>0. HeldInv /\ IdsInv /\ FiledInv /\ SeverityInv /\ NothingLostOnMerge /\ HighAlertsAreJustified
  BY DEF InsightIInv
<1>2. situations[i] \in Situations /\ situations \in Seq(Situations) /\ alerts \in Seq(Alerts)
  BY <1>0 DEF HeldInv
<1>21. id \in Ids /\ situations[i].alerts \in Seq(Severities) /\ situations[i].severity \in Severities
  BY <1>2, SituationFields
<1>1. /\ situations' = [situations EXCEPT ![i] = s]
      /\ alerts' = Append(alerts, alert)
      /\ UNCHANGED <<now, signals, events, recommendations, insights, justified, orderRows>>
  BY DEF alertForSituation
<1>22. Append(situations[i].alerts, situations[i].severity) \in Seq(Severities)
       /\ Len(Append(situations[i].alerts, situations[i].severity)) = Len(situations[i].alerts) + 1
  BY <1>21
<1>3. s \in Situations /\ s.id = id /\ s.severity = situations[i].severity
      /\ s.recommendations = situations[i].recommendations
      /\ Len(s.alerts) = Len(situations[i].alerts) + 1
  BY <1>2, <1>22 DEF Situations
<1>31. alert \in Alerts /\ alert.situation = id /\ alert.severity = situations[i].severity
  BY <1>21 DEF Alerts
<1> HIDE DEF s, alert
<1>4. /\ situations' \in Seq(Situations) /\ Len(situations') <= MaxSituations
      /\ SameIds /\ situations'[i] = s
      /\ \A j \in DOMAIN situations : j # i => situations'[j] = situations[j]
  <2>1. OneChanged(i, s)
    BY <1>1, <1>3 DEF OneChanged
  <2> QED BY <1>0, <2>1, OneChangedKeeps
<1>5. DOMAIN situations' = DOMAIN situations
  BY <1>4 DEF SameIds
<1>51. \A j \in DOMAIN situations : situations'[j].id = situations[j].id
  BY <1>4 DEF SameIds
<1>6. HeldInv'
  <2>1. alerts' \in Seq(Alerts)
    BY <1>1, <1>2, <1>31
  <2> QED BY <1>0, <1>1, <1>4, <2>1 DEF HeldInv
<1>7. IdsInv'
  BY <1>0, <1>4, IdsStay
<1>71. \A k \in DOMAIN alerts' : alerts'[k] = alert
         \/ (k \in DOMAIN alerts /\ alerts'[k] = alerts[k])
  BY <1>1, <1>2, <1>31, AppendProperties
<1>8. FiledInv'
  <2>3. ASSUME NEW k \in DOMAIN alerts'
        PROVE  \E j \in DOMAIN situations : situations'[j].id = alerts'[k].situation
    <3>1. CASE alerts'[k] = alert
      BY <1>31, <1>51, <3>1
    <3>2. CASE k \in DOMAIN alerts /\ alerts'[k] = alerts[k]
      BY <1>0, <1>51, <3>2 DEF FiledInv
    <3> QED BY <1>71, <3>1, <3>2
  <2>4. \A k \in DOMAIN recommendations' : \E j \in DOMAIN situations : situations'[j].id = recommendations'[k]
    BY <1>0, <1>1, <1>51 DEF FiledInv
  <2> QED BY <1>5, <2>3, <2>4 DEF FiledInv
<1>9. SeverityInv'
  <2>1. ASSUME NEW j \in DOMAIN situations, situations'[j].severity = "HIGH" PROVE j \in justified'
    <3>1. situations'[j].severity = situations[j].severity
      BY <1>3, <1>4
    <3> QED BY <1>0, <1>1, <2>1, <3>1 DEF SeverityInv
  <2> QED BY <1>5, <2>1 DEF SeverityInv
<1>10. NothingLostOnMerge'
  <2>1. ASSUME NEW j \in DOMAIN situations PROVE Listed(situations'[j], alerts', recommendations')
    <3>1. Listed(situations[j], alerts, recommendations)
      BY <1>0, NothingLostIs
    <3> DEFINE jd == situations[j].id
    <3>2. Cardinality(AlertsOf(alerts', jd)) =
            Cardinality(AlertsOf(alerts, jd)) + IF id = jd THEN 1 ELSE 0
      <4>1. Cardinality(AlertsOf(Append(alerts, alert), jd)) =
              Cardinality(AlertsOf(alerts, jd)) + IF alert.situation = jd THEN 1 ELSE 0
        <5> HIDE DEF id, jd
        <5> QED BY <1>2, <1>31, AlertAppended
      <4> QED BY <1>1, <1>31, <4>1
    <3>3. CASE j = i
      <4>1. id = jd
        BY <3>3
      <4> HIDE DEF id
      <4> QED BY <1>1, <1>3, <1>4, <3>1, <3>2, <3>3, <4>1 DEF Listed
    <3>4. CASE j # i
      <4>1. id # jd
        BY <1>0, <3>4 DEF IdsInv
      <4>2. Cardinality(AlertsOf(alerts, jd)) \in Nat
        <5>1. AlertsOf(alerts, jd) \in SUBSET DOMAIN alerts
          BY DEF AlertsOf
        <5> QED BY <1>2, <5>1, PositionsFinite
      <4>3. Cardinality(AlertsOf(alerts', jd)) = Cardinality(AlertsOf(alerts, jd))
        <5> HIDE DEF id, jd
        <5> QED BY <3>2, <4>1, <4>2
      <4> QED BY <1>1, <1>4, <3>1, <3>4, <4>3 DEF Listed
    <3> QED BY <3>3, <3>4
  <2> QED BY <1>5, <2>1, NothingLostIs
<1>11. HighAlertsAreJustified'
  <2>1. ASSUME NEW j \in DOMAIN situations, NEW k \in DOMAIN alerts',
               alerts'[k] = [situation |-> situations'[j].id, severity |-> "HIGH"]
        PROVE  j \in justified'
    <3>1. alerts'[k] = [situation |-> situations[j].id, severity |-> "HIGH"]
      BY <1>51, <2>1
    <3>2. CASE alerts'[k] = alert
      <4>1. id = situations[j].id /\ situations[i].severity = "HIGH"
        BY <1>31, <3>1, <3>2
      <4>2. i = j
        BY <1>0, <4>1 DEF IdsInv
      <4> HIDE DEF id
      <4> QED BY <1>0, <1>1, <4>1, <4>2 DEF SeverityInv
    <3>3. CASE k \in DOMAIN alerts /\ alerts'[k] = alerts[k]
      BY <1>0, <1>1, <3>1, <3>3 DEF HighAlertsAreJustified
    <3> QED BY <1>71, <3>2, <3>3
  <2> QED BY <1>5, <2>1 DEF HighAlertsAreJustified
<1> QED BY <1>6, <1>7, <1>8, <1>9, <1>10, <1>11 DEF InsightIInv

\* Events correlated into a situation that exists.
LEMMA MergeIInv ==
  ASSUME InsightIInv, NEW evs \in SUBSET (1 .. MaxEvents),
         correlateEvents(evs), AtId(deriveSituationId(evs)) # {}
  PROVE  InsightIInv'
<1> DEFINE at == AtId(deriveSituationId(evs))
<1>0. HeldInv /\ IdsInv /\ FiledInv /\ SeverityInv /\ NothingLostOnMerge /\ HighAlertsAreJustified
  BY DEF InsightIInv
<1>1. /\ situations' = [i \in DOMAIN situations |-> IF i \in at THEN Rebuilt(situations[i], evs)
                                                                ELSE situations[i]]
      /\ Len(situations') <= MaxSituations
      /\ UNCHANGED <<now, signals, events, alerts, recommendations, insights, justified, orderRows>>
  BY DEF correlateEvents
<1> HIDE DEF at
<1>2. ASSUME NEW j \in DOMAIN situations
      PROVE  /\ situations'[j] \in Situations /\ situations'[j].id = situations[j].id
             /\ situations'[j].severity = situations[j].severity
             /\ situations'[j].alerts = situations[j].alerts
             /\ situations'[j].recommendations = situations[j].recommendations
  <2>1. situations[j] \in Situations
    BY <1>0 DEF HeldInv
  <2> DEFINE s == Rebuilt(situations[j], evs)
  <2>2. /\ s \in Situations /\ s.id = situations[j].id /\ s.severity = situations[j].severity
        /\ s.alerts = situations[j].alerts /\ s.recommendations = situations[j].recommendations
    BY <2>1 DEF Rebuilt, Situations
  <2> HIDE DEF s
  <2>3. situations'[j] = s \/ situations'[j] = situations[j]
    BY <1>1 DEF s
  <2> QED BY <2>1, <2>2, <2>3
<1>3. SameIds /\ DOMAIN situations' = DOMAIN situations
  BY <1>1, <1>2 DEF SameIds
<1>4. situations' \in Seq(Situations)
  <2>1. situations \in Seq(Situations)
    BY <1>0 DEF HeldInv
  <2>2. situations' \in [1 .. Len(situations) -> Situations] /\ Len(situations) \in Nat
    BY <1>1, <1>2, <2>1
  <2> QED BY <2>2
<1>5. HeldInv'
  BY <1>0, <1>1, <1>4 DEF HeldInv
<1>6. IdsInv' /\ FiledInv'
  BY <1>0, <1>1, <1>3, IdsStay, FiledStay
<1>7. SeverityInv'
  BY <1>0, <1>1, <1>2, <1>3 DEF SeverityInv
<1>8. NothingLostOnMerge'
  <2>1. ASSUME NEW j \in DOMAIN situations PROVE Listed(situations'[j], alerts', recommendations')
    <3>1. Listed(situations[j], alerts, recommendations)
      BY <1>0, NothingLostIs
    <3> QED BY <1>1, <1>2, <3>1 DEF Listed
  <2> QED BY <1>3, <2>1, NothingLostIs
<1>9. HighAlertsAreJustified'
  BY <1>0, <1>1, <1>3, AlertsStayJustified
<1> QED BY <1>5, <1>6, <1>7, <1>8, <1>9 DEF InsightIInv

\* Events correlated into a new situation.
LEMMA NewSituationIInv ==
  ASSUME InsightIInv, NEW evs \in SUBSET (1 .. MaxEvents),
         correlateEvents(evs), AtId(deriveSituationId(evs)) = {}
  PROVE  InsightIInv'
<1> DEFINE id == deriveSituationId(evs)
           s == [id |-> id, state |-> "DETECTED", severity |-> "LOW", events |-> evs,
                 alerts |-> <<>>, recommendations |-> <<>>, resolution |-> FALSE]
           last == Len(situations) + 1
<1>0. HeldInv /\ IdsInv /\ FiledInv /\ SeverityInv /\ NothingLostOnMerge /\ HighAlertsAreJustified
  BY DEF InsightIInv
<1>1. /\ situations' = Append(situations, s) /\ Len(situations') <= MaxSituations
      /\ UNCHANGED <<now, signals, events, alerts, recommendations, insights, justified, orderRows>>
  BY DEF correlateEvents
<1>2. id \in Ids
  BY <1>0 DEF deriveSituationId, Ids, HeldInv
<1>3. \A j \in DOMAIN situations : situations[j].id # id
  BY DEF AtId
<1> HIDE DEF id
<1>4. s \in Situations
  <2>1. <<>> \in Seq(Severities) /\ <<>> \in Seq(BOOLEAN)
    BY EmptySeq
  <2> QED BY <1>2, <2>1 DEF Situations, SituationStates, Severities
<1>5. s.id = id /\ s.severity = "LOW" /\ Len(s.alerts) = 0 /\ Len(s.recommendations) = 0
  BY EmptySeq
<1> HIDE DEF s
<1>6. /\ situations' \in Seq(Situations) /\ DOMAIN situations' = DOMAIN situations \cup {last}
      /\ situations'[last] = s /\ last \notin DOMAIN situations
      /\ \A j \in DOMAIN situations : situations'[j] = situations[j]
  <2>1. situations \in Seq(Situations)
    BY <1>0 DEF HeldInv
  <2> QED BY <1>1, <1>4, <2>1, AppendProperties
<1> HIDE DEF last
<1>7. HeldInv'
  BY <1>0, <1>1, <1>6 DEF HeldInv
<1>8. IdsInv'
  BY <1>0, <1>3, <1>5, <1>6 DEF IdsInv
<1>9. FiledInv'
  <2>1. \A k \in DOMAIN alerts : \E i \in DOMAIN situations' : situations'[i].id = alerts[k].situation
    BY <1>0, <1>6 DEF FiledInv
  <2>2. \A k \in DOMAIN recommendations : \E i \in DOMAIN situations' : situations'[i].id = recommendations[k]
    BY <1>0, <1>6 DEF FiledInv
  <2> QED BY <1>1, <2>1, <2>2 DEF FiledInv
<1>10. SeverityInv'
  BY <1>0, <1>1, <1>5, <1>6 DEF SeverityInv
<1>11. NothingLostOnMerge'
  <2>1. ASSUME NEW j \in DOMAIN situations' PROVE Listed(situations'[j], alerts', recommendations')
    <3>1. CASE j \in DOMAIN situations
      <4>1. Listed(situations[j], alerts, recommendations)
        BY <1>0, <3>1, NothingLostIs
      <4> QED BY <1>1, <1>6, <3>1, <4>1
    <3>2. CASE j = last
      <4>1. AlertsOf(alerts, id) = {} /\ FiledFor(recommendations, id) = {}
        BY <1>0, <1>3 DEF AlertsOf, FiledFor, FiledInv
      <4>2. Cardinality({}) = 0
        BY FS_EmptySet
      <4> QED BY <1>1, <1>5, <1>6, <3>2, <4>1, <4>2 DEF Listed
    <3> QED BY <1>6, <3>1, <3>2
  <2> QED BY <2>1, NothingLostIs
<1>12. HighAlertsAreJustified'
  <2>1. ASSUME NEW j \in DOMAIN situations', NEW k \in DOMAIN alerts,
               alerts[k] = [situation |-> situations'[j].id, severity |-> "HIGH"]
        PROVE  j \in justified
    <3>1. CASE j \in DOMAIN situations
      <4>1. alerts[k] = [situation |-> situations[j].id, severity |-> "HIGH"]
        BY <1>6, <2>1, <3>1
      <4> QED BY <1>0, <3>1, <4>1 DEF HighAlertsAreJustified
    <3>2. CASE j = last
      <4>1. alerts[k].situation = id
        BY <1>5, <1>6, <2>1, <3>2
      <4> QED BY <1>0, <1>3, <4>1 DEF FiledInv
    <3> QED BY <1>6, <3>1, <3>2
  <2> QED BY <1>1, <2>1 DEF HighAlertsAreJustified
<1> QED BY <1>7, <1>8, <1>9, <1>10, <1>11, <1>12 DEF InsightIInv

\* Every step.
LEMMA InsightNextIInv ==
  ASSUME InsightAssumption, InsightIInv, [SituationNext \/ MetricNext]_insightVars
  PROVE  InsightIInv'
<1>1. CASE UNCHANGED insightVars
  <2>1. HeldInv' /\ UNCHANGED <<situations, alerts, recommendations, justified>>
    BY <1>1 DEF insightVars, HeldInv, InsightIInv
  <2> QED BY <2>1, OtherStepsIInv
<1>2. CASE \/ Tick \/ ingestSignal \/ convertSignalToEvent \/ consumeM7SituationsIntoInsights
           \/ MetricNext
  BY <1>2, OtherActionsIInv
<1>3. ASSUME NEW evs \in SUBSET (1 .. MaxEvents), correlateEvents(evs) PROVE InsightIInv'
  <2>1. CASE AtId(deriveSituationId(evs)) = {}
    BY <1>3, <2>1, NewSituationIInv
  <2>2. CASE AtId(deriveSituationId(evs)) # {}
    BY <1>3, <2>2, MergeIInv
  <2> QED BY <2>1, <2>2
<1>4. ASSUME NEW i \in DOMAIN situations,
             \/ \E severity \in Severities, reasoned \in BOOLEAN :
                  assessSituationSeverity(i, severity, reasoned)
             \/ \E approval \in BOOLEAN : createRecommendation(i, approval)
             \/ alertForSituation(i)
             \/ \E state \in SituationStates : advanceSituationState(i, state)
      PROVE  InsightIInv'
  <2>1. ASSUME NEW severity \in Severities, NEW reasoned \in BOOLEAN,
               assessSituationSeverity(i, severity, reasoned)
        PROVE  InsightIInv'
    BY <2>1, AssessIInv
  <2>2. ASSUME NEW approval \in BOOLEAN, createRecommendation(i, approval) PROVE InsightIInv'
    BY <2>2, RecommendIInv
  <2>3. CASE alertForSituation(i)
    BY <2>3, AlertIInv
  <2>4. ASSUME NEW state \in SituationStates, advanceSituationState(i, state) PROVE InsightIInv'
    BY <2>4, AdvanceIInv
  <2> QED BY <1>4, <2>1, <2>2, <2>3, <2>4
<1> QED BY <1>1, <1>2, <1>3, <1>4 DEF SituationNext

\* What the invariant says of what the executive sees.
LEMMA InsightIInvInv ==
  ASSUME InsightIInv
  PROVE  InsightInv
<1>0. HeldInv /\ NothingLostOnMerge /\ HighAlertsAreJustified
  BY DEF InsightIInv
<1>1. InsightTypeOK
  <2>1. ASSUME NEW i \in DOMAIN situations
        PROVE  /\ situations[i].state \in SituationStates /\ situations[i].severity \in Severities
               /\ situations[i].events \subseteq 1 .. MaxEvents
    <3>1. situations[i] \in Situations
      BY <1>0 DEF HeldInv
    <3> QED BY <3>1, SituationFields
  <2>2. \A i \in DOMAIN orderRows : orderRows[i] \in OrderRows
    BY <1>0 DEF HeldInv
  <2> QED BY <1>0, <2>1, <2>2 DEF HeldInv, InsightTypeOK
<1>2. SegmentsAddUp
  BY <1>0, FiguresAddUp DEF HeldInv
<1> QED BY <1>0, <1>1, <1>2 DEF InsightInv

\* For any bounds, branches and orders: a situation lists all that is filed for it, a high
\* alert was justified, and the segments add up to the figures.
THEOREM InsightCorrect == InsightSpec => []InsightInv
<1>1. InsightInit => InsightIInv
  BY InsightAssumption, InsightInitIInv
<1>2. InsightIInv /\ [SituationNext \/ MetricNext]_insightVars => InsightIInv'
  BY InsightAssumption, InsightNextIInv
<1>3. InsightIInv => InsightInv
  BY InsightIInvInv
<1> QED BY <1>1, <1>2, <1>3, PTL DEF InsightSpec

=============================================================================
