---------------------------- MODULE ClientsProofs ----------------------------
(***************************************************************************)
(* Theorems about what the browser applications start, for any sales,      *)
(* worker runs, displays, orders and onboardings.  OfflineQueue, KdsScreen *)
(* and Onboarding share no state.                                          *)
(***************************************************************************)
EXTENDS OfflineQueue, KdsScreen, Onboarding, FiniteSetTheorems, TLAPS

(* The cashier terminal and its service worker *)

\* What a checkout holds goes with what the server made of it: nothing before the
\* request was taken, one order from then on.
SaleInv(a) ==
  /\ placed[a] \in {0, 1}
  /\ sale[a].phase \in {"none", "sent"} => placed[a] = 0
  /\ sale[a].phase = "taken" => placed[a] = 1
  /\ sale[a].phase = "saving" =>
       \/ sale[a].status = "PENDING_SYNC" /\ sale[a].key = offlineKey(a)
       \/ sale[a].status = "SYNCED" /\ sale[a].key = serverKey(a) /\ placed[a] = 1

TerminalTypes ==
  hasSyncManager \in BOOLEAN /\ worker \in {"none", "unready", "ready"} /\ tenantKnown \in BOOLEAN
TriggerTypes ==
  isSyncing \in BOOLEAN /\ timers \in 0..MaxTimers /\ register \in {"fine", "failing", "refused"}

\* The inductive invariant: the worker's requests are never accepted.
CashierIInv ==
  /\ OfflineQueueTypeOK
  /\ \A a \in Sales : SaleInv(a)
  /\ \A y \in Syncs : ~sync[y].ok
  /\ SyncedIsOnServer
  /\ SalesAreKept

\* A record's key says which sale it stands for.
LEMMA RecordKeys ==
  ASSUME NEW r \in Records
  PROVE  /\ r.sale \in Sales /\ r.status \in {"PENDING_SYNC", "SYNCED", "FAILED"}
         /\ r.key \in {offlineKey(r.sale), serverKey(r.sale)}
         /\ r = record(r.key, r.sale, r.status)
<1>1. PICK k \in {<<offlineKey(a), a>> : a \in Sales} \cup {<<serverKey(a), a>> : a \in Sales},
           st \in {"PENDING_SYNC", "SYNCED", "FAILED"} : r = record(k[1], k[2], st)
  BY DEF Records
<1>2. PICK a \in Sales : k = <<offlineKey(a), a>> \/ k = <<serverKey(a), a>>
  OBVIOUS
<1>3. k[2] = a /\ k[1] \in {offlineKey(a), serverKey(a)}
  BY <1>2
<1> QED BY <1>1, <1>3 DEF record

\* And such a record is one of the store's.
LEMMA RecordBuilt ==
  ASSUME NEW a \in Sales, NEW key \in {offlineKey(a), serverKey(a)},
         NEW st \in {"PENDING_SYNC", "SYNCED", "FAILED"}
  PROVE  /\ record(key, a, st) \in Records
         /\ record(key, a, st).key = key /\ record(key, a, st).sale = a
         /\ record(key, a, st).status = st
<1> DEFINE k == <<key, a>>
<1>1. k \in {<<offlineKey(x), x>> : x \in Sales} \cup {<<serverKey(x), x>> : x \in Sales}
  OBVIOUS
<1>2. k[1] = key /\ k[2] = a
  OBVIOUS
<1> HIDE DEF k
<1>3. record(key, a, st) \in Records
  BY <1>1, <1>2 DEF Records
<1> QED BY <1>3 DEF record

\* store.put of a record keeps every other sale's records and the promises about them.
LEMMA PutKeeps ==
  ASSUME OfflineQueueTypeOK, SyncedIsOnServer, SalesAreKept,
         NEW r \in Records, r.status = "SYNCED" => placed[r.sale] > 0,
         store' = putOrder(store, r), placed' = placed,
         \A a \in Sales : sale'[a].phase = "done" => sale[a].phase = "done" \/ a = r.sale
  PROVE  store' \subseteq Records /\ SyncedIsOnServer' /\ SalesAreKept'
<1>1. store \subseteq Records /\ placed \in [Sales -> Nat]
  BY DEF OfflineQueueTypeOK, TerminalTypes, TriggerTypes, terminal, trigger
<1>2. \A x \in store' : x = r \/ x \in store
  BY DEF putOrder
<1>3. store' \subseteq Records /\ SyncedIsOnServer'
  BY <1>1, <1>2 DEF SyncedIsOnServer
<1>4. ASSUME NEW a \in Sales, sale'[a].phase = "done"
      PROVE  placed[a] > 0 \/ \E x \in store' : x.sale = a /\ x.status # "SYNCED"
  <2>1. r \in store'
    BY DEF putOrder
  <2>2. CASE a = r.sale
    BY <2>1, <2>2
  <2>3. CASE a # r.sale /\ placed[a] <= 0
    <3>1. PICK x \in store : x.sale = a /\ x.status # "SYNCED"
      BY <1>1, <1>4, <2>3 DEF SalesAreKept
    <3>2. x.key \in {offlineKey(a), serverKey(a)} /\ r.key \in {offlineKey(r.sale), serverKey(r.sale)}
      BY <1>1, <3>1, RecordKeys
    <3>3. x.key # r.key
      BY <2>3, <3>2 DEF offlineKey, serverKey
    <3>4. x \in store'
      BY <3>3 DEF putOrder
    <3> QED BY <3>1, <3>4
  <2>4. placed[a] > 0 \/ placed[a] <= 0
    BY <1>1
  <2> QED BY <2>2, <2>3, <2>4
<1> QED BY <1>3, <1>4 DEF SalesAreKept

\* An opened terminal.
LEMMA CashierInitIInv == OfflineQueueInit => CashierIInv
<1> SUFFICES ASSUME OfflineQueueInit PROVE CashierIInv
  OBVIOUS
<1> USE CashierAssumption DEF OfflineQueueInit
<1>1. NoSale \in Sale /\ NoSale.phase = "none"
  BY DEF NoSale, Sale
<1>2. Idle \in SyncRun /\ Idle.ok = FALSE
  BY DEF Idle, SyncRun
<1>3. OfflineQueueTypeOK
  <2>1. cart \in 0..MaxCart /\ timers \in 0..MaxTimers /\ asked \in 0..MaxAsked
    OBVIOUS
  <2>2. sale \in [Sales -> Sale] /\ placed \in [Sales -> Nat] /\ sync \in [Syncs -> SyncRun]
    BY <1>1, <1>2
  <2>3. store \subseteq Records /\ offlineOrders \subseteq Records
    OBVIOUS
  <2> QED BY <2>1, <2>2, <2>3, Zenon DEF OfflineQueueTypeOK, TerminalTypes, TriggerTypes, terminal, trigger
<1>4. \A a \in Sales : SaleInv(a)
  BY <1>1 DEF SaleInv
<1>5. SyncedIsOnServer /\ SalesAreKept /\ \A y \in Syncs : ~sync[y].ok
  BY <1>1, <1>2 DEF SyncedIsOnServer, SalesAreKept
<1> QED BY <1>3, <1>4, <1>5 DEF CashierIInv

\* What asks the worker to sync leaves the types alone.
LEMMA TriggerKeeps ==
  ASSUME OfflineQueueTypeOK
  PROVE  /\ AskWorker => asked' \in 0..MaxAsked
         /\ \A seen \in BOOLEAN : triggerServiceWorkerSync(seen) =>
              TriggerTypes' /\ asked' \in 0..MaxAsked
<1> USE CashierAssumption DEF OfflineQueueTypeOK, TerminalTypes, TriggerTypes, terminal, trigger
<1>1. AskWorker => asked' \in 0..MaxAsked
  BY DEF AskWorker, AtMost
<1>2. ASSUME NEW seen \in BOOLEAN, triggerServiceWorkerSync(seen)
      PROVE  TriggerTypes' /\ asked' \in 0..MaxAsked
  <2>1. CASE seen
    BY <1>2, <2>1 DEF triggerServiceWorkerSync
  <2>2. CASE ~seen
    <3>1. /\ isSyncing' = TRUE
          /\ startTimer \/ timers' = timers
          /\ AskWorker \/ asked' = asked
          /\ register' \in {register, "fine", "failing"}
      BY <1>2, <2>2 DEF triggerServiceWorkerSync
    <3>2. timers' \in 0..MaxTimers
      BY <3>1 DEF startTimer, AtMost
    <3> QED BY <1>1, <3>1, <3>2
  <2> QED BY <2>1, <2>2
<1> QED BY <1>1, <1>2

\* A step of the page that touches no sale, record or run.
LEMMA PageStep ==
  ASSUME CashierIInv, UNCHANGED <<sale, placed, store, sync>>,
         isOnline' \in BOOLEAN /\ TerminalTypes' /\ cart' \in 0..MaxCart,
         TriggerTypes' /\ effectDue' \in BOOLEAN, asked' \in 0..MaxAsked,
         offlineOrders' \subseteq Records
  PROVE  CashierIInv'
<1>1. OfflineQueueTypeOK'
  BY DEF CashierIInv, OfflineQueueTypeOK, TerminalTypes, TriggerTypes, terminal, trigger
<1> QED BY <1>1 DEF CashierIInv, SaleInv, SyncedIsOnServer, SalesAreKept

\* A step of one checkout before its record is written.
LEMMA CheckoutMoves ==
  ASSUME CashierIInv, NEW a \in Sales, NEW new \in Sale,
         sale' = [sale EXCEPT ![a] = new], new.phase # "done", placed' \in [Sales -> Nat],
         SaleInv(a)', placed'[a] >= placed[a], \A b \in Sales \ {a} : placed'[b] = placed[b],
         UNCHANGED <<isOnline, terminal, cart, store, offlineOrders, trigger,
                     effectDue, asked, sync>>
  PROVE  CashierIInv'
<1>1. OfflineQueueTypeOK'
  BY DEF CashierIInv, OfflineQueueTypeOK, TerminalTypes, TriggerTypes, terminal, trigger
<1>2. sale'[a] = new /\ \A b \in Sales \ {a} : sale'[b] = sale[b]
  BY DEF CashierIInv, OfflineQueueTypeOK, TerminalTypes, TriggerTypes, terminal, trigger
<1>3. ASSUME NEW b \in Sales PROVE placed[b] \in Nat /\ placed'[b] \in Nat /\ placed[b] <= placed'[b]
  <2>1. placed[b] \in Nat /\ placed'[b] \in Nat
    BY DEF CashierIInv, OfflineQueueTypeOK, TerminalTypes, TriggerTypes, terminal, trigger
  <2>2. b = a \/ placed'[b] = placed[b]
    OBVIOUS
  <2> QED BY <2>1, <2>2
<1>4. \A b \in Sales \ {a} : SaleInv(b)'
  BY <1>2 DEF CashierIInv, SaleInv
<1>5. SyncedIsOnServer'
  <2> SUFFICES ASSUME NEW r \in store, r.status = "SYNCED" PROVE placed'[r.sale] > 0
    BY DEF SyncedIsOnServer
  <2>1. r.sale \in Sales
    BY RecordKeys DEF CashierIInv, OfflineQueueTypeOK, TerminalTypes, TriggerTypes, terminal, trigger
  <2>2. placed[r.sale] > 0
    BY DEF CashierIInv, SyncedIsOnServer
  <2> QED BY <1>3, <2>1, <2>2
<1>6. SalesAreKept'
  BY <1>2 DEF CashierIInv, SalesAreKept
<1> QED BY <1>1, <1>4, <1>5, <1>6 DEF CashierIInv

\* handleCheckout up to the answer of the server, or its failure.
LEMMA CheckoutSteps ==
  ASSUME CashierIInv, NEW a \in Sales,
         HandleCheckout(a) \/ ServerTakesSale(a) \/ AnswerArrives(a) \/ CheckoutFails(a)
  PROVE  CashierIInv'
<1>0. /\ OfflineQueueTypeOK /\ SaleInv(a) /\ sale[a] \in Sale /\ placed[a] \in Nat
      /\ sale \in [Sales -> Sale] /\ placed \in [Sales -> Nat]
      /\ isOnline \in BOOLEAN /\ isSyncing \in BOOLEAN
  BY DEF CashierIInv, OfflineQueueTypeOK, TerminalTypes, TriggerTypes, terminal, trigger
<1>1. NoSale \in Sale
  BY DEF NoSale, Sale
<1>2. CASE HandleCheckout(a)
  <2> DEFINE new == IF isOnline THEN [NoSale EXCEPT !.phase = "sent", !.wasSyncing = isSyncing]
                    ELSE [NoSale EXCEPT !.phase = "saving", !.status = "PENDING_SYNC",
                                        !.key = offlineKey(a), !.offline = TRUE]
  <2>1. /\ new \in Sale /\ new.phase \in {"sent", "saving"}
        /\ new.phase = "saving" => new.status = "PENDING_SYNC" /\ new.key = offlineKey(a)
    BY <1>0 DEF NoSale, Sale
  <2>2. sale' = [sale EXCEPT ![a] = new] /\ placed' = placed /\ sale[a].phase = "none"
    BY <1>2 DEF HandleCheckout
  <2> HIDE DEF new
  <2>3. sale'[a] = new
    BY <1>0, <2>2
  <2>4. SaleInv(a)'
    BY <1>0, <2>1, <2>2, <2>3 DEF SaleInv
  <2>5. placed'[a] >= placed[a]
    BY <1>0, <2>2
  <2> QED BY <1>0, <1>2, <2>1, <2>2, <2>4, <2>5, CheckoutMoves DEF HandleCheckout
<1>3. CASE ServerTakesSale(a)
  <2> DEFINE new == [sale[a] EXCEPT !.phase = "taken"]
  <2>1. new \in Sale /\ new.phase = "taken"
    BY <1>0 DEF Sale
  <2>2. sale' = [sale EXCEPT ![a] = new] /\ sale[a].phase = "sent"
        /\ placed' = [placed EXCEPT ![a] = @ + 1]
    BY <1>0, <1>3 DEF ServerTakesSale
  <2> HIDE DEF new
  <2>3. sale'[a] = new /\ placed'[a] = 1 /\ placed[a] = 0 /\ placed' \in [Sales -> Nat]
        /\ \A b \in Sales \ {a} : placed'[b] = placed[b]
    BY <1>0, <2>2 DEF SaleInv
  <2>4. SaleInv(a)'
    BY <2>1, <2>3 DEF SaleInv
  <2>5. placed'[a] >= placed[a]
    BY <2>3
  <2> QED BY <1>0, <1>3, <2>1, <2>2, <2>3, <2>4, <2>5, CheckoutMoves DEF ServerTakesSale
<1>4. CASE AnswerArrives(a)
  <2> DEFINE new == [sale[a] EXCEPT !.phase = "saving", !.status = "SYNCED", !.key = serverKey(a)]
  <2>1. new \in Sale /\ new.phase = "saving" /\ new.status = "SYNCED" /\ new.key = serverKey(a)
    BY <1>0 DEF Sale
  <2>2. sale' = [sale EXCEPT ![a] = new] /\ sale[a].phase = "taken" /\ placed' = placed
    BY <1>0, <1>4 DEF AnswerArrives
  <2> HIDE DEF new
  <2>3. sale'[a] = new /\ placed'[a] >= placed[a]
    BY <1>0, <2>2
  <2>4. SaleInv(a)'
    BY <1>0, <2>1, <2>2, <2>3 DEF SaleInv
  <2> QED BY <1>0, <1>4, <2>1, <2>2, <2>3, <2>4, CheckoutMoves DEF AnswerArrives
<1>5. CASE CheckoutFails(a)
  <2> DEFINE new == [sale[a] EXCEPT !.phase = "saving", !.status = "PENDING_SYNC", !.key = offlineKey(a)]
  <2>1. new \in Sale /\ new.phase = "saving" /\ new.status = "PENDING_SYNC" /\ new.key = offlineKey(a)
    BY <1>0 DEF Sale
  <2>2. sale' = [sale EXCEPT ![a] = new] /\ placed' = placed
    BY <1>0, <1>5 DEF CheckoutFails
  <2> HIDE DEF new
  <2>3. sale'[a] = new /\ placed'[a] >= placed[a]
    BY <1>0, <2>2
  <2>4. SaleInv(a)'
    BY <1>0, <2>1, <2>2, <2>3 DEF SaleInv
  <2> QED BY <1>0, <1>5, <2>1, <2>2, <2>3, <2>4, CheckoutMoves DEF CheckoutFails
<1> QED BY <1>2, <1>3, <1>4, <1>5

\* saveOfflineOrder: the record is written, the cart emptied, the worker asked.
LEMMA SaveStep ==
  ASSUME CashierIInv, NEW a \in Sales, SaveOfflineOrder(a)
  PROVE  CashierIInv'
<1>0. /\ OfflineQueueTypeOK /\ SaleInv(a) /\ sale[a] \in Sale /\ placed \in [Sales -> Nat]
      /\ sale \in [Sales -> Sale] /\ sale[a].phase = "saving" /\ SyncedIsOnServer /\ SalesAreKept
      /\ UNCHANGED <<isOnline, terminal, placed, sync>> /\ effectDue' = TRUE
      /\ offlineOrders' = store' /\ cart' = 0
      /\ store' = putOrder(store, record(sale[a].key, a, sale[a].status))
  BY DEF CashierIInv, OfflineQueueTypeOK, TerminalTypes, TriggerTypes, terminal, trigger, SaveOfflineOrder
<1> DEFINE new == [sale[a] EXCEPT !.phase = "done"]
<1>1. new \in Sale /\ new.phase = "done"
  BY <1>0 DEF Sale
<1>2. sale' = [sale EXCEPT ![a] = new]
  BY <1>0 DEF SaveOfflineOrder
<1> HIDE DEF new
<1>3. sale'[a] = new /\ \A b \in Sales \ {a} : sale'[b] = sale[b]
  BY <1>0, <1>2
<1>4. sale[a].key \in {offlineKey(a), serverKey(a)} /\ sale[a].status \in {"PENDING_SYNC", "SYNCED"}
      /\ (sale[a].status = "SYNCED" => placed[a] = 1)
  BY <1>0 DEF SaleInv
<1>5. PICK r \in Records : /\ r = record(sale[a].key, a, sale[a].status)
                           /\ r.sale = a /\ r.status = sale[a].status
  BY <1>4, RecordBuilt
<1>6. store' \subseteq Records /\ SyncedIsOnServer' /\ SalesAreKept'
  <2>1. r.status = "SYNCED" => placed[r.sale] > 0
    BY <1>4, <1>5
  <2>2. \A b \in Sales : sale'[b].phase = "done" => sale[b].phase = "done" \/ b = r.sale
    BY <1>3, <1>5
  <2> QED BY <1>0, <1>5, <2>1, <2>2, PutKeeps
<1>7. TriggerTypes' /\ asked' \in 0..MaxAsked
  <2>1. CASE sale[a].offline
    <3>1. UNCHANGED <<trigger>> /\ (AskWorker \/ asked' = asked)
      BY <2>1 DEF SaveOfflineOrder
    <3> QED BY <1>0, <3>1, TriggerKeeps DEF OfflineQueueTypeOK, TerminalTypes, TriggerTypes, terminal, trigger
  <2>2. CASE ~sale[a].offline
    <3>1. triggerServiceWorkerSync(sale[a].status = "SYNCED" \/ sale[a].wasSyncing)
      BY <2>2 DEF SaveOfflineOrder
    <3>2. (sale[a].status = "SYNCED" \/ sale[a].wasSyncing) \in BOOLEAN
      OBVIOUS
    <3> QED BY <1>0, <3>1, <3>2, TriggerKeeps
  <2> QED BY <2>1, <2>2
<1>8. OfflineQueueTypeOK'
  <2>1. cart' \in 0..MaxCart
    BY <1>0, CashierAssumption
  <2>2. sale' \in [Sales -> Sale]
    BY <1>0, <1>1, <1>2
  <2>3. /\ isOnline' \in BOOLEAN /\ TerminalTypes' /\ effectDue' \in BOOLEAN
        /\ placed' \in [Sales -> Nat] /\ sync' \in [Syncs -> SyncRun]
    BY <1>0, Zenon DEF OfflineQueueTypeOK, TerminalTypes, TriggerTypes, terminal, trigger
  <2>4. store' \subseteq Records /\ offlineOrders' \subseteq Records
    BY <1>0, <1>6
  <2> QED BY <1>7, <2>1, <2>2, <2>3, <2>4 DEF OfflineQueueTypeOK, TerminalTypes, TriggerTypes
<1>9. \A b \in Sales : SaleInv(b)'
  BY <1>0, <1>1, <1>3 DEF CashierIInv, SaleInv
<1> QED BY <1>0, <1>6, <1>8, <1>9 DEF CashierIInv

\* The page is loaded again.
LEMMA ReloadStep ==
  ASSUME CashierIInv, Reload
  PROVE  CashierIInv'
<1> USE CashierAssumption
<1>0. /\ OfflineQueueTypeOK /\ sale \in [Sales -> Sale] /\ placed \in [Sales -> Nat]
      /\ UNCHANGED <<isOnline, hasSyncManager, tenantKnown, placed, store, asked, sync>>
      /\ offlineOrders' = store /\ effectDue' = TRUE /\ cart' = 0
      /\ isSyncing' = FALSE /\ timers' = 0 /\ register' = "fine"
      /\ worker' \in {worker, "unready", "ready"}
  BY DEF CashierIInv, OfflineQueueTypeOK, TerminalTypes, TriggerTypes, terminal, trigger, Reload
<1> DEFINE gone == [NoSale EXCEPT !.phase = "gone"]
<1>1. gone \in Sale /\ gone.phase = "gone"
  BY DEF NoSale, Sale
<1>2. sale' = [a \in Sales |-> IF sale[a].phase \in {"sent", "taken", "saving"} THEN gone ELSE sale[a]]
  BY DEF Reload
<1> HIDE DEF gone
<1>3. sale' \in [Sales -> Sale] /\ \A a \in Sales : sale'[a] = gone \/ sale'[a] = sale[a]
  BY <1>0, <1>1, <1>2
<1>4. OfflineQueueTypeOK'
  <2>1. cart' \in 0..MaxCart /\ TriggerTypes'
    <3>1. MaxCart \in Nat /\ MaxTimers \in Nat
      OBVIOUS
    <3>2. cart' = 0 /\ isSyncing' = FALSE /\ timers' = 0 /\ register' = "fine"
      BY <1>0
    <3>3. 0 \in 0..MaxCart /\ 0 \in 0..MaxTimers
      BY <3>1
    <3>4. TriggerTypes'
      BY <3>2, <3>3, Zenon DEF TriggerTypes
    <3> QED BY <3>2, <3>3, <3>4
  <2>2. TerminalTypes'
    <3>1. /\ hasSyncManager \in BOOLEAN /\ worker \in {"none", "unready", "ready"}
          /\ tenantKnown \in BOOLEAN
      BY <1>0, Zenon DEF OfflineQueueTypeOK
    <3> QED BY <1>0, <3>1 DEF TerminalTypes
  <2>3. /\ isOnline' \in BOOLEAN /\ effectDue' \in BOOLEAN
        /\ placed' \in [Sales -> Nat] /\ sync' \in [Syncs -> SyncRun]
        /\ store' \subseteq Records /\ offlineOrders' \subseteq Records /\ asked' \in 0..MaxAsked
    BY <1>0, Zenon DEF OfflineQueueTypeOK
  <2> QED BY <1>3, <2>1, <2>2, <2>3 DEF OfflineQueueTypeOK, TerminalTypes, TriggerTypes
<1>5. \A a \in Sales : SaleInv(a)'
  BY <1>0, <1>1, <1>3 DEF CashierIInv, SaleInv
<1>6. SyncedIsOnServer' /\ SalesAreKept'
  BY <1>0, <1>1, <1>3 DEF CashierIInv, SyncedIsOnServer, SalesAreKept
<1> QED BY <1>0, <1>4, <1>5, <1>6 DEF CashierIInv

\* A run of the worker starts, posts without the header, and writes FAILED.
LEMMA WorkerStep ==
  ASSUME CashierIInv, WorkerRuns
  PROVE  CashierIInv'
<1> USE CashierAssumption
<1>0. /\ OfflineQueueTypeOK /\ sync \in [Syncs -> SyncRun] /\ store \subseteq Records
      /\ SyncedIsOnServer /\ SalesAreKept /\ \A y \in Syncs : ~sync[y].ok
  BY DEF CashierIInv, OfflineQueueTypeOK, TerminalTypes, TriggerTypes, terminal, trigger
<1>1. ASSUME NEW y \in Syncs, NEW new \in SyncRun, ~new.ok, sync' = [sync EXCEPT ![y] = new],
             UNCHANGED <<isOnline, terminal, cart, sale, placed, trigger>>,
             effectDue' = effectDue /\ offlineOrders' = offlineOrders, asked' \in 0..MaxAsked,
             store' \subseteq Records /\ SyncedIsOnServer' /\ SalesAreKept'
      PROVE  CashierIInv'
  <2>1. OfflineQueueTypeOK' /\ \A z \in Syncs : ~sync'[z].ok
    BY <1>0, <1>1 DEF OfflineQueueTypeOK, TerminalTypes, TriggerTypes, terminal, trigger
  <2>2. \A a \in Sales : SaleInv(a)'
    BY <1>1 DEF CashierIInv, SaleInv
  <2> QED BY <1>1, <2>1, <2>2 DEF CashierIInv
<1>2. ASSUME store' = store, placed' = placed, sale' = sale
      PROVE  store' \subseteq Records /\ SyncedIsOnServer' /\ SalesAreKept'
  BY <1>0, <1>2 DEF SyncedIsOnServer, SalesAreKept
<1>3. ASSUME NEW y \in Syncs, StartSync(y) PROVE CashierIInv'
  <2> DEFINE new == [sync[y] EXCEPT !.todo = pendingIn(store)]
  <2>1. pendingIn(store) \in SUBSET Records
    BY <1>0 DEF pendingIn
  <2>2. new \in SyncRun /\ ~new.ok
    BY <1>0, <2>1 DEF SyncRun
  <2>3. sync' = [sync EXCEPT ![y] = new]
    BY <1>0, <1>3 DEF StartSync
  <2>4. asked' \in 0..MaxAsked
    BY <1>0, <1>3 DEF StartSync, OfflineQueueTypeOK, TerminalTypes, TriggerTypes, terminal, trigger
  <2> HIDE DEF new
  <2> QED BY <1>1, <1>2, <1>3, <2>2, <2>3, <2>4 DEF StartSync, pageVars
<1>4. ASSUME NEW y \in Syncs, NEW r \in sync[y].todo, SyncSends(y, r) PROVE CashierIInv'
  <2> DEFINE new == [todo |-> sync[y].todo \ {r}, at |-> r, ok |-> FALSE]
  <2>1. sync[y] \in SyncRun /\ sync[y].todo \subseteq Records
    BY <1>0 DEF SyncRun
  <2>2. new \in SyncRun /\ ~new.ok
    BY <2>1 DEF SyncRun
  <2>3. sync' = [sync EXCEPT ![y] = new] /\ placed' = placed
    BY <1>4 DEF SyncSends, passesGuards
  <2>4. UNCHANGED <<isOnline, terminal, cart, sale, offlineOrders, trigger,
                    effectDue, store, asked>>
    BY <1>4 DEF SyncSends, pageVars
  <2>5. asked' \in 0..MaxAsked
    BY <1>0, <2>4 DEF OfflineQueueTypeOK, TerminalTypes, TriggerTypes, terminal, trigger
  <2> HIDE DEF new
  <2> QED BY <1>1, <1>2, <2>2, <2>3, <2>4, <2>5
<1>6. ASSUME NEW y \in Syncs, NEW r \in sync[y].todo, SyncSkips(y, r) PROVE CashierIInv'
  <2> DEFINE new == [sync[y] EXCEPT !.todo = @ \ {r}]
  <2>1. new \in SyncRun /\ ~new.ok
    BY <1>0 DEF SyncRun
  <2>2. sync' = [sync EXCEPT ![y] = new]
    BY <1>0, <1>6 DEF SyncSkips
  <2>3. UNCHANGED <<isOnline, terminal, cart, sale, placed, offlineOrders, trigger,
                    effectDue, store, asked>>
    BY <1>6 DEF SyncSkips, pageVars
  <2>4. asked' \in 0..MaxAsked
    BY <1>0, <2>3 DEF OfflineQueueTypeOK
  <2> HIDE DEF new
  <2> QED BY <1>1, <1>2, <2>1, <2>2, <2>3, <2>4
<1>5. ASSUME NEW y \in Syncs, SyncRecords(y) PROVE CashierIInv'
  <2>1. PICK r \in Records : r = sync[y].at
    BY <1>0, <1>5 DEF SyncRecords, SyncRun
  <2> DEFINE new == [sync[y] EXCEPT !.at = None, !.ok = FALSE]
  <2>2. new \in SyncRun /\ ~new.ok
    BY <1>0 DEF SyncRun
  <2>3. sync' = [sync EXCEPT ![y] = new]
    BY <1>0, <1>5 DEF SyncRecords
  <2> HIDE DEF new
  <2>4. /\ store' = putOrder(store, [r EXCEPT !.status = "FAILED"])
        /\ UNCHANGED <<isOnline, terminal, cart, sale, placed, trigger, asked>>
        /\ offlineOrders' = offlineOrders
    BY <1>0, <1>5, <2>1 DEF SyncRecords
  <2>5. effectDue' = effectDue
    <3>1. effectDue' = (effectDue \/ sync[y].ok) /\ ~sync[y].ok /\ effectDue \in BOOLEAN
      BY <1>0, <1>5 DEF SyncRecords, OfflineQueueTypeOK, TerminalTypes, TriggerTypes, terminal, trigger
    <3> QED BY <3>1
  <2>6. PICK f \in Records : f = [r EXCEPT !.status = "FAILED"] /\ f.status = "FAILED"
    <3>1. [r EXCEPT !.status = "FAILED"] = record(r.key, r.sale, "FAILED")
      BY RecordKeys DEF record
    <3> QED BY <3>1, RecordKeys, RecordBuilt
  <2>7. store' \subseteq Records /\ SyncedIsOnServer' /\ SalesAreKept'
    BY <1>0, <2>4, <2>6, PutKeeps
  <2>8. asked' \in 0..MaxAsked
    BY <1>0, <2>4 DEF OfflineQueueTypeOK, TerminalTypes, TriggerTypes, terminal, trigger
  <2> QED BY <1>1, <2>2, <2>3, <2>4, <2>5, <2>7, <2>8
<1> QED BY <1>3, <1>4, <1>5, <1>6 DEF WorkerRuns

\* No step of the page, the worker or the server breaks the invariant.
LEMMA CashierNextIInv == CashierIInv /\ [CashierNext]_cashierVars => CashierIInv'
<1> SUFFICES ASSUME CashierIInv, [CashierNext]_cashierVars PROVE CashierIInv'
  OBVIOUS
<1> USE CashierAssumption
<1>0. /\ OfflineQueueTypeOK /\ isOnline \in BOOLEAN /\ TerminalTypes /\ cart \in 0..MaxCart
      /\ TriggerTypes /\ isSyncing \in BOOLEAN /\ effectDue \in BOOLEAN
      /\ timers \in 0..MaxTimers /\ register \in {"fine", "failing", "refused"}
      /\ asked \in 0..MaxAsked /\ offlineOrders \subseteq Records /\ store \subseteq Records
  BY DEF CashierIInv, OfflineQueueTypeOK, TerminalTypes, TriggerTypes
<1>t. UNCHANGED terminal => TerminalTypes'
  BY <1>0 DEF terminal, TerminalTypes
<1>r. UNCHANGED trigger => TriggerTypes'
  BY <1>0 DEF trigger, TriggerTypes
<1>1. CASE AddToCart
  <2>1. cart' \in 0..MaxCart
    BY <1>0, <1>1 DEF AddToCart
  <2> QED BY <1>0, <1>t, <1>r, <1>1, <2>1, PageStep DEF AddToCart
<1>2. CASE ConnectivityChanges
  <2>1. isOnline' \in BOOLEAN /\ effectDue' \in BOOLEAN
    BY <1>0, <1>2 DEF ConnectivityChanges
  <2> QED BY <1>0, <1>t, <1>r, <1>2, <2>1, PageStep DEF ConnectivityChanges
<1>3. CASE SyncNow
  <2>1. TriggerTypes' /\ asked' \in 0..MaxAsked
    BY <1>0, <1>3, TriggerKeeps DEF SyncNow
  <2> QED BY <1>0, <1>t, <1>3, <2>1, PageStep DEF SyncNow
<1>4. CASE AutoSync
  <2>1. TriggerTypes' /\ asked' \in 0..MaxAsked
    <3>1. triggerServiceWorkerSync(isSyncing) \/ UNCHANGED <<trigger, asked>>
      BY <1>4 DEF AutoSync
    <3>2. CASE triggerServiceWorkerSync(isSyncing)
      BY <1>0, <3>2, TriggerKeeps
    <3>3. CASE UNCHANGED <<trigger, asked>>
      BY <1>0, <1>r, <3>3
    <3> QED BY <3>1, <3>2, <3>3
  <2>2. effectDue' \in BOOLEAN
    BY <1>4 DEF AutoSync
  <2> QED BY <1>0, <1>t, <1>4, <2>1, <2>2, PageStep DEF AutoSync
<1>5. CASE TimerFires
  <2>1. TriggerTypes' /\ effectDue' \in BOOLEAN
    <3>1. /\ timers > 0 /\ timers' = timers - 1 /\ isSyncing' = FALSE /\ effectDue' = TRUE
          /\ register' = register
      BY <1>5 DEF TimerFires
    <3>2. timers' \in 0..MaxTimers
      BY <1>0, <3>1
    <3> QED BY <1>0, <3>1, <3>2 DEF TriggerTypes
  <2> QED BY <1>0, <1>t, <1>5, <2>1, PageStep DEF TimerFires
<1>6. CASE Reload
  BY <1>6, ReloadStep
<1>10. CASE RegisterRefused
  <2>1. isSyncing' = FALSE /\ register' = "refused" /\ timers' = timers
    BY <1>10 DEF RegisterRefused
  <2>2. TriggerTypes'
    BY <1>0, <2>1 DEF TriggerTypes
  <2> QED BY <1>0, <1>t, <1>10, <2>2, PageStep DEF RegisterRefused
<1>7. CASE \E a \in Sales : HandleCheckout(a) \/ ServerTakesSale(a) \/ AnswerArrives(a)
                            \/ CheckoutFails(a) \/ SaveOfflineOrder(a)
  BY <1>7, CheckoutSteps, SaveStep
<1>8. CASE WorkerRuns
  BY <1>8, WorkerStep
<1>9. CASE UNCHANGED cashierVars
  BY <1>9 DEF cashierVars, pageVars, terminal, trigger, CashierIInv, OfflineQueueTypeOK, SaleInv,
              SyncedIsOnServer,
              SalesAreKept
<1> QED BY <1>1, <1>2, <1>3, <1>4, <1>5, <1>6, <1>7, <1>8, <1>9, <1>10 DEF CashierNext, CashierSteps, PageRuns

\* handleCheckout, saveOfflineOrder and syncPendingOrders: whatever answers are lost and
\* however page and worker overlap, a sale shown as synced is at the server, a finished
\* checkout left an order or a record of it, and no sale is made twice.
THEOREM CashierCorrect == CashierSpec => []CashierInv
<1>1. CashierIInv => CashierInv
  <2>1. CashierIInv => SoldOnce
    BY DEF CashierIInv, SaleInv, SoldOnce
  <2> QED BY <2>1 DEF CashierIInv, CashierInv
<1> QED BY <1>1, CashierInitIInv, CashierNextIInv, PTL DEF CashierSpec

-----------------------------------------------------------------------------
(* The kitchen displays *)

\* A socket is in no room but that of the branch it names, and only if the branch is of
\* its own tenant.
RoomsInv ==
  \A s \in Screens : \A r \in rooms[s] :
    r = getRoomName(TokenTenant[s], ScreenBranch[s]) /\ TenantOf[ScreenBranch[s]] = TokenTenant[s]

Created(e, o) == e.name = "order.created" /\ e.order = o

\* The events of an order: none before it is committed, none ahead of what the database has reached, and
\* order.created once, before any board shows the order.
FlightInv(o) ==
  /\ cooking[o] = None <=> furthest[o] = None
  /\ \A u \in validated : u.order = o => furthest[o] # None
  /\ \A e \in unsaid : e.order = o => furthest[o] # None /\ rank(e.status) <= rank(furthest[o])
  /\ \A i \in DOMAIN wire :
       wire[i].order = o => furthest[o] # None /\ rank(wire[i].status) <= rank(furthest[o])
  /\ \A e \in unsaid : Created(e, o) => e = event("order.created", o, "PENDING")
  /\ \A i, k \in DOMAIN wire : Created(wire[i], o) /\ Created(wire[k], o) => i = k
  /\ \A e \in unsaid, i \in DOMAIN wire : ~(Created(e, o) /\ Created(wire[i], o))

\* A board shows an order once, no further than the database has been unless it was clicked, and
\* only when order.created has been delivered.
BoardInv(s, o) ==
  /\ Len(board[s][o]) <= 1
  /\ \A n \in DOMAIN board[s][o] : o \notin clicked[s] => rank(board[s][o][n]) <= rank(furthest[o])
  /\ furthest[o] = None => board[s][o] = <<>>
  /\ (\E e \in unsaid : Created(e, o)) => board[s][o] = <<>>
  /\ (\E i \in DOMAIN wire : Created(wire[i], o)) => board[s][o] = <<>>

\* The inductive invariant of the displays.
KdsIInv ==
  /\ KdsTypeOK /\ RoomsInv /\ EventsStayInTenant
  /\ \A o \in Orders : FlightInv(o)
  /\ \A s \in Screens, o \in Orders : BoardInv(s, o)

\* The place of a status in CookingOrder.
LEMMA RankFacts == \A st \in Statuses : rank(st) \in 1..4 /\ CookingOrder[rank(st)] = st
<1> TAKE st \in Statuses
<1>1. \E n \in 1..4 : CookingOrder[n] = st
  BY DEF Statuses
<1> QED BY <1>1 DEF rank

\* The next status of a click is one.
LEMMA NextStatusFacts == \A st \in Statuses : nextStatus(st) \in Statuses
<1> TAKE st \in Statuses
<1>1. (IF rank(st) < 4 THEN rank(st) + 1 ELSE 4) \in 1..4
  BY RankFacts
<1> QED BY <1>1 DEF nextStatus, Statuses

\* All tickets of an order set to one status are as many as before.
LEMMA SetAll ==
  ASSUME NEW q \in Seq(Statuses), NEW st \in Statuses
  PROVE  LET f == [n \in DOMAIN q |-> st] IN
         /\ f \in Seq(Statuses) /\ DOMAIN f = DOMAIN q /\ Len(f) = Len(q)
         /\ \A n \in DOMAIN f : f[n] = st
         /\ q = <<>> => f = <<>>
<1> DEFINE f == [n \in DOMAIN q |-> st]
<1>1. DOMAIN q = 1..Len(q) /\ Len(q) \in Nat
  OBVIOUS
<1>2. f \in [1..Len(q) -> Statuses] /\ DOMAIN f = 1..Len(q)
  BY <1>1
<1>3. f \in Seq(Statuses) /\ Len(f) = Len(q)
  BY <1>1, <1>2
<1>4. q = <<>> => f = <<>>
  BY <1>3
<1> QED BY <1>1, <1>2, <1>3, <1>4

\* The events as they are made.
LEMMA EventFacts ==
  ASSUME NEW name \in Names, NEW o \in Orders, NEW st \in Statuses
  PROVE  /\ event(name, o, st) \in Event
         /\ event(name, o, st).name = name /\ event(name, o, st).order = o
         /\ event(name, o, st).status = st
<1>1. OrderBranch[o] \in Branches
  BY KdsAssumption
<1>2. getRoomName(TenantOf[OrderBranch[o]], OrderBranch[o]) \in Rooms
  BY <1>1 DEF Rooms
<1> QED BY <1>2 DEF event, Event

\* What a handler of KDSTerminal makes of the tickets: order.created adds one,
\* order.item_updated sets those of its order, ticket.created breaks the render.
LEMMA HandleFacts ==
  ASSUME NEW tickets \in Boards, NEW e \in Event
  PROVE  /\ e.name = "ticket.created" => handle(tickets, e) = None
         /\ e.name # "ticket.created" =>
              /\ handle(tickets, e) \in Boards /\ handle(tickets, e) # None
              /\ \A x \in Orders \ {e.order} : handle(tickets, e)[x] = tickets[x]
         /\ e.name = "order.created" =>
              handle(tickets, e)[e.order] = Append(tickets[e.order], e.status)
         /\ e.name = "order.item_updated" =>
              handle(tickets, e)[e.order] = [n \in DOMAIN tickets[e.order] |-> e.status]
<1>0. /\ e.name \in Names /\ e.order \in Orders /\ e.status \in Statuses
      /\ tickets[e.order] \in Seq(Statuses)
  BY DEF Event, Boards
<1>1. CASE e.name = "ticket.created"
  BY <1>1 DEF handle, onTicketCreated
<1>2. CASE e.name = "order.created"
  <2> DEFINE q == Append(tickets[e.order], e.status)
  <2>1. q \in Seq(Statuses)
    BY <1>0
  <2>2. handle(tickets, e) = [tickets EXCEPT ![e.order] = q]
    BY <1>2 DEF handle, onOrderCreated
  <2> HIDE DEF q
  <2>3. /\ handle(tickets, e) \in Boards /\ handle(tickets, e)[e.order] = q
        /\ \A x \in Orders \ {e.order} : handle(tickets, e)[x] = tickets[x]
    BY <1>0, <2>1, <2>2 DEF Boards
  <2> QED BY <1>2, <2>3, KdsAssumption DEF q
<1>3. CASE e.name = "order.item_updated"
  <2> DEFINE q == [n \in DOMAIN tickets[e.order] |-> e.status]
  <2>1. q \in Seq(Statuses)
    BY <1>0, SetAll
  <2>2. handle(tickets, e) = [tickets EXCEPT ![e.order] = q]
    BY <1>3 DEF handle, onItemUpdated
  <2> HIDE DEF q
  <2>3. /\ handle(tickets, e) \in Boards /\ handle(tickets, e)[e.order] = q
        /\ \A x \in Orders \ {e.order} : handle(tickets, e)[x] = tickets[x]
    BY <1>0, <2>1, <2>2 DEF Boards
  <2> QED BY <1>3, <2>3, KdsAssumption DEF q
<1> QED BY <1>0, <1>1, <1>2, <1>3 DEF Names

\* No display is connected and no order is there.
LEMMA KdsInitIInv == KdsInit => KdsIInv
<1> SUFFICES ASSUME KdsInit PROVE KdsIInv
  OBVIOUS
<1> USE KdsAssumption DEF KdsInit
<1>1. EmptyBoard \in Boards /\ \A o \in Orders : EmptyBoard[o] = <<>>
  BY DEF EmptyBoard, Boards
<1>2. KdsTypeOK
  BY <1>1 DEF KdsTypeOK
<1>3. RoomsInv /\ EventsStayInTenant
  BY DEF RoomsInv, EventsStayInTenant
<1>4. \A o \in Orders : FlightInv(o)
  BY DEF FlightInv
<1>5. \A s \in Screens, o \in Orders : BoardInv(s, o)
  BY <1>1 DEF BoardInv
<1> QED BY <1>2, <1>3, <1>4, <1>5 DEF KdsIInv

\* A step of the connections: the kitchen, and what was delivered, stay; a board stays
\* or is empty.
LEMMA ConnectionMoves ==
  ASSUME KdsIInv, UNCHANGED <<cooking, furthest, validated, unsaid, wire, received>>,
         socket' \in [Screens -> {"off", "verifying", "ready", "refused"}],
         joining' \in [Screens -> {None, "sent", "checking"}],
         revoked' \subseteq Screens, crashed' \subseteq Screens,
         clicked' \in [Screens -> SUBSET Orders], board' \in [Screens -> Boards],
         rooms' \in [Screens -> SUBSET Rooms], RoomsInv',
         \A s \in Screens : \/ board'[s] = board[s] /\ clicked'[s] = clicked[s]
                            \/ board'[s] = EmptyBoard
  PROVE  KdsIInv'
<1>1. KdsTypeOK' /\ EventsStayInTenant'
  BY DEF KdsIInv, KdsTypeOK, EventsStayInTenant
<1>2. \A o \in Orders : FlightInv(o)'
  BY DEF KdsIInv, FlightInv
<1>3. ASSUME NEW s \in Screens, NEW o \in Orders PROVE BoardInv(s, o)'
  <2>1. BoardInv(s, o)
    BY DEF KdsIInv
  <2>2. CASE board'[s] = board[s] /\ clicked'[s] = clicked[s]
    BY <2>1, <2>2 DEF BoardInv
  <2>3. CASE board'[s] = EmptyBoard
    <3>1. board'[s][o] = <<>> /\ Len(<<>>) = 0 /\ DOMAIN board'[s][o] = {}
      BY <2>3 DEF EmptyBoard
    <3> QED BY <3>1 DEF BoardInv
  <2> QED BY <2>2, <2>3
<1> QED BY <1>1, <1>2, <1>3 DEF KdsIInv

\* Connecting, verifying, joining, leaving, losing the transport, reopening, logging out.
LEMMA ConnectionStep ==
  ASSUME KdsIInv, NEW s \in Screens,
         \/ Connect(s) \/ HandleConnection(s) \/ HandleJoinBranch(s) \/ JoinBranch(s)
         \/ HandleLeaveBranch(s) \/ TransportLost(s) \/ Reopen(s) \/ Logout(s)
  PROVE  KdsIInv'
<1>0. /\ KdsTypeOK /\ RoomsInv
      /\ socket \in [Screens -> {"off", "verifying", "ready", "refused"}]
      /\ joining \in [Screens -> {None, "sent", "checking"}]
      /\ rooms \in [Screens -> SUBSET Rooms] /\ revoked \subseteq Screens /\ crashed \subseteq Screens
      /\ board \in [Screens -> Boards] /\ clicked \in [Screens -> SUBSET Orders]
  BY DEF KdsIInv, KdsTypeOK
<1>1. UNCHANGED <<cooking, furthest, validated, unsaid, wire, received>>
  BY DEF Connect, HandleConnection, HandleJoinBranch, JoinBranch, HandleLeaveBranch, TransportLost,
         Reopen, Logout, kitchen
<1>2. /\ board' \in [Screens -> Boards] /\ clicked' \in [Screens -> SUBSET Orders]
      /\ crashed' \subseteq Screens /\ revoked' \subseteq Screens
      /\ \A x \in Screens : \/ board'[x] = board[x] /\ clicked'[x] = clicked[x]
                            \/ board'[x] = EmptyBoard
  <2>1. CASE Reopen(s)
    <3>1. EmptyBoard \in Boards
      BY DEF EmptyBoard, Boards
    <3>2. /\ board' = [board EXCEPT ![s] = EmptyBoard] /\ crashed' = crashed \ {s}
          /\ clicked' = [clicked EXCEPT ![s] = {}] /\ revoked' = revoked
      BY <2>1 DEF Reopen
    <3> QED BY <1>0, <3>1, <3>2
  <2>2. CASE ~Reopen(s)
    <3>1. UNCHANGED <<board, clicked, crashed>> /\ (revoked' = revoked \/ revoked' = revoked \cup {s})
      BY <2>2 DEF Connect, HandleConnection, HandleJoinBranch, JoinBranch, HandleLeaveBranch,
                  TransportLost, Logout
    <3> QED BY <1>0, <3>1
  <2> QED BY <2>1, <2>2
<1>3. /\ socket' \in [Screens -> {"off", "verifying", "ready", "refused"}]
      /\ joining' \in [Screens -> {None, "sent", "checking"}]
  BY <1>0 DEF Connect, HandleConnection, HandleJoinBranch, JoinBranch, HandleLeaveBranch,
              TransportLost, Reopen, Logout, disconnect
<1>r. rooms \in [Screens -> SUBSET Rooms]
  BY <1>0
<1>4. /\ rooms' \in [Screens -> SUBSET Rooms]
      /\ \A x \in Screens : \A r \in rooms'[x] :
           \/ r \in rooms[x]
           \/ /\ r = getRoomName(TokenTenant[x], ScreenBranch[x])
              /\ TenantOf[ScreenBranch[x]] = TokenTenant[x]
  <2>1. CASE JoinBranch(s) /\ TenantOf[ScreenBranch[s]] = TokenTenant[s]
    <3> DEFINE home == getRoomName(TokenTenant[s], ScreenBranch[s])
    <3>1. home \in Rooms
      BY <2>1, KdsAssumption DEF Rooms
    <3>2. rooms' = [rooms EXCEPT ![s] = rooms[s] \cup {home}]
      BY <2>1 DEF JoinBranch
    <3>3. rooms[s] \cup {home} \in SUBSET Rooms
      BY <1>0, <3>1
    <3> HIDE DEF home
    <3>4. \A x \in Screens \ {s} : rooms'[x] = rooms[x]
      BY <1>0, <3>2
    <3>5. rooms'[s] = rooms[s] \cup {home}
      BY <1>0, <3>2
    <3>6. rooms' \in [Screens -> SUBSET Rooms]
      BY <1>0, <3>2, <3>3
    <3> QED BY <2>1, <3>4, <3>5, <3>6 DEF home
  <2>2. CASE HandleLeaveBranch(s)
    <3>1. rooms' = [rooms EXCEPT ![s] = @ \ {getRoomName(TokenTenant[s], ScreenBranch[s])}]
      BY <2>2 DEF HandleLeaveBranch
    <3> QED BY <1>r, <3>1
  <2>3. CASE rooms' = rooms
    BY <1>r, <2>3
  <2>4. CASE rooms' = [rooms EXCEPT ![s] = {}]
    BY <1>r, <2>4
  <2> QED BY <2>1, <2>2, <2>3, <2>4
        DEF Connect, HandleConnection, HandleJoinBranch, JoinBranch, TransportLost, Reopen, Logout,
            disconnect
<1>6. RoomsInv'
  BY <1>0, <1>4 DEF RoomsInv
<1> QED BY <1>0, <1>1, <1>2, <1>3, <1>4, <1>6, ConnectionMoves

\* A click on a ticket: its PUT is refused, the board moves by itself.
LEMMA ClickStep ==
  ASSUME KdsIInv, NEW s \in Screens, NEW o \in Orders, UpdateItemStatus(s, o)
  PROVE  KdsIInv'
<1>0. /\ KdsTypeOK /\ board \in [Screens -> Boards] /\ clicked \in [Screens -> SUBSET Orders]
      /\ board[s] \in Boards /\ board[s][o] \in Seq(Statuses)
      /\ UNCHANGED <<socket, joining, rooms, revoked, crashed, furthest, validated, unsaid, wire, received>>
      /\ clicked' = [clicked EXCEPT ![s] = @ \cup {o}]
  BY DEF KdsIInv, KdsTypeOK, UpdateItemStatus, Boards
<1>1. PICK n \in DOMAIN board[s][o] :
        /\ board' = [board EXCEPT ![s][o] = [m \in DOMAIN @ |-> nextStatus(board[s][o][n])]]
        /\ cooking' = cooking
  BY DEF UpdateItemStatus, passesGuards
<1>2. PICK st \in Statuses : st = nextStatus(board[s][o][n])
  BY <1>0, NextStatusFacts
<1> DEFINE q == [m \in DOMAIN board[s][o] |-> st]
<1>3. q \in Seq(Statuses) /\ Len(q) = Len(board[s][o]) /\ (board[s][o] = <<>> => q = <<>>)
  BY <1>0, SetAll
<1>4. board' = [board EXCEPT ![s] = [board[s] EXCEPT ![o] = q]]
  BY <1>0, <1>1, <1>2
<1> HIDE DEF q
<1> DEFINE new == [board[s] EXCEPT ![o] = q]
<1>5. new \in Boards /\ new[o] = q /\ \A x \in Orders \ {o} : new[x] = board[s][x]
  BY <1>0, <1>3 DEF Boards
<1> HIDE DEF new
<1>6. /\ board' \in [Screens -> Boards] /\ board'[s] = new
      /\ \A x \in Screens \ {s} : board'[x] = board[x]
  BY <1>0, <1>4, <1>5 DEF new
<1>7. /\ clicked' \in [Screens -> SUBSET Orders] /\ clicked'[s] = clicked[s] \cup {o}
      /\ \A x \in Screens \ {s} : clicked'[x] = clicked[x]
  BY <1>0
<1>8. KdsTypeOK' /\ RoomsInv' /\ EventsStayInTenant'
  BY <1>0, <1>1, <1>6, <1>7 DEF KdsIInv, KdsTypeOK, RoomsInv, EventsStayInTenant
<1>9. \A x \in Orders : FlightInv(x)'
  BY <1>0, <1>1 DEF KdsIInv, FlightInv
<1>10. ASSUME NEW c \in Screens, NEW x \in Orders PROVE BoardInv(c, x)'
  <2>1. BoardInv(c, x)
    BY DEF KdsIInv
  <2>2. CASE c # s
    BY <1>0, <1>1, <1>6, <1>7, <2>1, <2>2 DEF BoardInv
  <2>3. CASE c = s /\ x # o
    BY <1>0, <1>1, <1>5, <1>6, <1>7, <2>1, <2>3 DEF BoardInv
  <2>4. CASE c = s /\ x = o
    <3>1. board'[c][x] = q /\ o \in clicked'[c]
      BY <1>5, <1>6, <1>7, <2>4
    <3> QED BY <1>0, <1>1, <1>3, <2>1, <2>4, <3>1 DEF BoardInv
  <2> QED BY <2>2, <2>3, <2>4
<1> QED BY <1>8, <1>9, <1>10 DEF KdsIInv

\* CommitOrder: the order is there, and its announcement is not yet made.
LEMMA CommitStep ==
  ASSUME KdsIInv, NEW o \in Orders, CommitOrder(o)
  PROVE  KdsIInv'
<1> DEFINE ev == event("order.created", o, "PENDING")
<1>0. /\ UNCHANGED <<socket, joining, rooms, revoked, board, crashed, clicked, received, wire>>
      /\ cooking[o] = None /\ cooking' = [cooking EXCEPT ![o] = "PENDING"]
      /\ furthest' = [furthest EXCEPT ![o] = "PENDING"] /\ validated' = validated
      /\ unsaid' = unsaid \cup {ev}
  BY DEF CommitOrder, screensSame
<1>1. "PENDING" \in Statuses /\ "PENDING" # None
  <2>1. CookingOrder[1] = "PENDING" /\ 1 \in 1..4
    BY DEF CookingOrder
  <2>2. "PENDING" \in Statuses
    BY <2>1 DEF Statuses
  <2> QED BY <2>2, KdsAssumption
<1>2. ev \in Event /\ ev.name = "order.created" /\ ev.order = o /\ ev.status = "PENDING"
  BY <1>1, EventFacts DEF Names
<1> HIDE DEF ev
<1>3. /\ cooking' \in [Orders -> Statuses \cup {None}] /\ cooking'[o] = "PENDING"
      /\ furthest' \in [Orders -> Statuses \cup {None}] /\ furthest'[o] = "PENDING"
      /\ \A x \in Orders \ {o} : cooking'[x] = cooking[x] /\ furthest'[x] = furthest[x]
      /\ furthest[o] = None
  BY <1>0, <1>1 DEF KdsIInv, KdsTypeOK, FlightInv
<1>4. rank("PENDING") <= rank("PENDING")
  BY <1>1, RankFacts
<1>5. KdsTypeOK' /\ RoomsInv' /\ EventsStayInTenant'
  BY <1>0, <1>2, <1>3 DEF KdsIInv, KdsTypeOK, RoomsInv, EventsStayInTenant
<1>6. ASSUME NEW x \in Orders PROVE FlightInv(x)'
  <2>1. FlightInv(x)
    BY DEF KdsIInv
  <2>2. CASE x # o
    BY <1>0, <1>2, <1>3, <2>1, <2>2 DEF FlightInv, Created
  <2>3. CASE x = o
    <3>1. /\ \A e \in unsaid : e.order # x
          /\ \A i \in DOMAIN wire : wire[i].order # x
          /\ \A u \in validated : u.order # x
      BY <1>3, <2>1, <2>3 DEF FlightInv
    <3>2. \A e \in unsaid' : e.order = x => e = ev
      BY <1>0, <3>1
    <3>3. ev = event("order.created", o, "PENDING")
      BY DEF ev
    <3>4. wire' = wire /\ validated' = validated
      BY <1>0
    <3>5. cooking'[x] = "PENDING" /\ furthest'[x] = "PENDING"
      BY <1>3, <2>3
    <3>6. \A e \in unsaid' : e.order = x => furthest'[x] # None /\ rank(e.status) <= rank(furthest'[x])
      BY <1>1, <1>2, <1>4, <3>2, <3>5
    <3>7. \A e \in unsaid' : Created(e, x) => e = event("order.created", x, "PENDING")
      BY <2>3, <3>2, <3>3 DEF Created
    <3> QED BY <1>1, <3>1, <3>4, <3>5, <3>6, <3>7 DEF FlightInv, Created
  <2> QED BY <2>2, <2>3
<1>7. ASSUME NEW s \in Screens, NEW x \in Orders PROVE BoardInv(s, x)'
  <2>1. BoardInv(s, x) /\ FlightInv(x)
    BY DEF KdsIInv
  <2>2. CASE x # o
    BY <1>0, <1>2, <1>3, <2>1, <2>2 DEF BoardInv, Created
  <2>3. CASE x = o
    <3>1. board[s][x] = <<>> /\ board' = board
      BY <1>0, <1>3, <2>1, <2>3 DEF BoardInv
    <3>2. board'[s][x] = <<>>
      BY <3>1
    <3>3. DOMAIN board'[s][x] = {} /\ Len(board'[s][x]) = 0
      BY <3>2
    <3>4. \A i \in DOMAIN wire' : Created(wire'[i], x) => board'[s][x] = <<>>
      BY <3>2
    <3> QED BY <3>2, <3>3, <3>4 DEF BoardInv
  <2> QED BY <2>2, <2>3
<1> QED BY <1>5, <1>6, <1>7 DEF KdsIInv

\* An update is validated: nothing is written yet.
LEMMA ValidateStep ==
  ASSUME KdsIInv, NEW o \in Orders, NEW next \in Statuses, ValidateCookingStatus(o, next)
  PROVE  KdsIInv'
<1>0. /\ UNCHANGED <<socket, joining, rooms, revoked, board, crashed, clicked, received, wire>>
      /\ UNCHANGED <<cooking, furthest, unsaid>> /\ cooking[o] # None
      /\ validated' = validated \cup {[order |-> o, next |-> next]}
  BY DEF ValidateCookingStatus, screensSame
<1>1. KdsTypeOK' /\ RoomsInv' /\ EventsStayInTenant'
  BY <1>0 DEF KdsIInv, KdsTypeOK, RoomsInv, EventsStayInTenant
<1>2. \A x \in Orders : FlightInv(x)'
  BY <1>0 DEF KdsIInv, FlightInv, Created
<1>3. \A s \in Screens, x \in Orders : BoardInv(s, x)'
  BY <1>0 DEF KdsIInv, BoardInv, Created
<1> QED BY <1>1, <1>2, <1>3 DEF KdsIInv

\* The database takes the new status, and the event is not yet sent.
LEMMA CookingStep ==
  ASSUME KdsIInv, NEW u \in validated, WriteCookingStatus(u)
  PROVE  KdsIInv'
<1>a. PICK o \in Orders, next \in Statuses : u.order = o /\ u.next = next
  BY DEF KdsIInv, KdsTypeOK
<1> DEFINE ev == event("order.item_updated", o, next)
<1>0. /\ UNCHANGED <<socket, joining, rooms, revoked, board, crashed, clicked, received, wire>>
      /\ cooking' = [cooking EXCEPT ![o] = next]
      /\ furthest' = [furthest EXCEPT ![o] = IF rank(next) > rank(@) THEN next ELSE @]
      /\ validated' = validated \ {u}
      /\ unsaid' = unsaid \cup {ev}
  BY <1>a DEF WriteCookingStatus, screensSame
<1>1. next # None /\ furthest[o] \in Statuses
  BY <1>a, KdsAssumption DEF KdsIInv, KdsTypeOK, FlightInv
<1>2. ev \in Event /\ ev.name = "order.item_updated" /\ ev.order = o /\ ev.status = next
  BY EventFacts DEF Names
<1> HIDE DEF ev
<1>3. /\ cooking' \in [Orders -> Statuses \cup {None}] /\ cooking'[o] = next
      /\ furthest' \in [Orders -> Statuses \cup {None}] /\ furthest'[o] \in Statuses
      /\ furthest'[o] = IF rank(next) > rank(furthest[o]) THEN next ELSE furthest[o]
      /\ \A x \in Orders \ {o} : cooking'[x] = cooking[x] /\ furthest'[x] = furthest[x]
  BY <1>0, <1>1 DEF KdsIInv, KdsTypeOK
<1>4. /\ rank(next) <= rank(furthest'[o]) /\ furthest'[o] # None
      /\ \A st \in Statuses : rank(st) <= rank(furthest[o]) => rank(st) <= rank(furthest'[o])
  BY <1>1, <1>3, RankFacts, KdsAssumption
<1>5. KdsTypeOK' /\ RoomsInv' /\ EventsStayInTenant'
  BY <1>0, <1>2, <1>3 DEF KdsIInv, KdsTypeOK, RoomsInv, EventsStayInTenant
<1>t. /\ \A e \in unsaid : e.status \in Statuses
      /\ \A i \in DOMAIN wire : wire[i].status \in Statuses
      /\ \A s \in Screens, x \in Orders : \A n \in DOMAIN board[s][x] : board[s][x][n] \in Statuses
  <2>1. unsaid \subseteq Event /\ wire \in Seq(Event) /\ board \in [Screens -> Boards]
    BY DEF KdsIInv, KdsTypeOK
  <2>2. \A e \in Event : e.status \in Statuses
    BY DEF Event
  <2>3. \A i \in DOMAIN wire : wire[i] \in Event
    BY <2>1
  <2>4. \A s \in Screens, x \in Orders : board[s][x] \in Seq(Statuses)
    BY <2>1 DEF Boards
  <2> QED BY <2>1, <2>2, <2>3, <2>4
<1>6. ASSUME NEW x \in Orders PROVE FlightInv(x)'
  <2>1. FlightInv(x)
    BY DEF KdsIInv
  <2>2. CASE x # o
    BY <1>0, <1>2, <1>3, <2>1, <2>2 DEF FlightInv, Created
  <2>3. CASE x = o
    BY <1>0, <1>1, <1>2, <1>3, <1>4, <1>t, <2>1, <2>3 DEF FlightInv, Created
  <2> QED BY <2>2, <2>3
<1>7. ASSUME NEW s \in Screens, NEW x \in Orders PROVE BoardInv(s, x)'
  <2>1. BoardInv(s, x)
    BY DEF KdsIInv
  <2>2. CASE x # o
    BY <1>0, <1>2, <1>3, <2>1, <2>2 DEF BoardInv, Created
  <2>3. CASE x = o
    BY <1>0, <1>1, <1>2, <1>3, <1>4, <1>t, <2>1, <2>3 DEF BoardInv, Created
  <2> QED BY <2>2, <2>3
<1> QED BY <1>5, <1>6, <1>7 DEF KdsIInv

\* What follows an emit: the event leaves `unsaid`, and its messages, all of its order and
\* status, go to the end of the wire; at most one of them is order.created, and only if
\* the event is.
LEMMA Emitted ==
  ASSUME KdsIInv, NEW e \in unsaid, NEW msgs \in Seq(Event),
         UNCHANGED <<socket, joining, rooms, revoked, board, crashed, clicked, received, cooking,
                     furthest, validated>>,
         unsaid' = unsaid \ {e}, wire' = wire \o msgs, Len(wire) + Len(msgs) <= MaxWire,
         \A i \in DOMAIN msgs :
            /\ msgs[i].order = e.order /\ msgs[i].status = e.status
            /\ msgs[i].name = "order.created" => e.name = "order.created",
         \A i, k \in DOMAIN msgs :
            msgs[i].name = "order.created" /\ msgs[k].name = "order.created" => i = k
  PROVE  KdsIInv'
<1>0. /\ KdsTypeOK /\ e \in Event /\ wire \in Seq(Event) /\ e.order \in Orders
      /\ Len(wire) \in Nat /\ Len(msgs) \in Nat
  BY DEF KdsIInv, KdsTypeOK, Event
<1>1. /\ wire' \in Seq(Event) /\ Len(wire') = Len(wire) + Len(msgs)
      /\ DOMAIN wire' = 1..(Len(wire) + Len(msgs))
      /\ DOMAIN wire = 1..Len(wire) /\ DOMAIN msgs = 1..Len(msgs)
      /\ \A i \in DOMAIN wire : wire'[i] = wire[i]
      /\ \A i \in DOMAIN msgs : wire'[Len(wire) + i] = msgs[i]
  BY <1>0
<1>2. \A i \in DOMAIN wire' :
        \/ i \in DOMAIN wire /\ wire'[i] = wire[i]
        \/ \E k \in DOMAIN msgs : i = Len(wire) + k /\ wire'[i] = msgs[k]
  <2> TAKE i \in DOMAIN wire'
  <2>1. CASE i <= Len(wire)
    BY <1>0, <1>1, <2>1
  <2>2. CASE i > Len(wire)
    <3>1. i - Len(wire) \in 1..Len(msgs) /\ i = Len(wire) + (i - Len(wire))
      BY <1>0, <1>1, <2>2
    <3>2. wire'[Len(wire) + (i - Len(wire))] = msgs[i - Len(wire)]
      BY <1>1, <3>1
    <3> QED BY <1>1, <3>1, <3>2
  <2> QED BY <1>0, <1>1, <2>1, <2>2
<1>3. KdsTypeOK' /\ RoomsInv' /\ EventsStayInTenant'
  <2>1. unsaid' \subseteq Event /\ Len(wire') <= MaxWire
    BY <1>1 DEF KdsIInv, KdsTypeOK
  <2> QED BY <1>1, <2>1 DEF KdsIInv, KdsTypeOK, RoomsInv, EventsStayInTenant
<1>4. ASSUME NEW x \in Orders PROVE FlightInv(x)'
  <2>1. FlightInv(x)
    BY DEF KdsIInv
  <2>2. \A i \in DOMAIN wire' :
          wire'[i].order = x => furthest'[x] # None /\ rank(wire'[i].status) <= rank(furthest'[x])
    BY <1>2, <2>1 DEF FlightInv
  <2>3. \A i, k \in DOMAIN wire' : Created(wire'[i], x) /\ Created(wire'[k], x) => i = k
    <3> SUFFICES ASSUME NEW i \in DOMAIN wire', NEW k \in DOMAIN wire',
                        Created(wire'[i], x), Created(wire'[k], x)
                 PROVE  i = k
      OBVIOUS
    <3>1. \A j \in DOMAIN msgs : Created(msgs[j], x) => Created(e, x)
      BY DEF Created
    <3>2. CASE i \in DOMAIN wire /\ wire'[i] = wire[i]
      BY <1>2, <2>1, <3>1, <3>2 DEF FlightInv
    <3>3. CASE k \in DOMAIN wire /\ wire'[k] = wire[k]
      BY <1>2, <2>1, <3>1, <3>3 DEF FlightInv
    <3>4. CASE /\ \E j \in DOMAIN msgs : i = Len(wire) + j /\ wire'[i] = msgs[j]
               /\ \E j \in DOMAIN msgs : k = Len(wire) + j /\ wire'[k] = msgs[j]
      BY <3>4 DEF Created
    <3> QED BY <1>2, <3>2, <3>3, <3>4
  <2>4. \A d \in unsaid', i \in DOMAIN wire' : ~(Created(d, x) /\ Created(wire'[i], x))
    <3> SUFFICES ASSUME NEW d \in unsaid', NEW i \in DOMAIN wire', Created(d, x), Created(wire'[i], x)
                 PROVE  FALSE
      OBVIOUS
    <3>1. d \in unsaid /\ d # e
      OBVIOUS
    <3>2. CASE i \in DOMAIN wire /\ wire'[i] = wire[i]
      BY <2>1, <3>1, <3>2 DEF FlightInv
    <3>3. CASE \E j \in DOMAIN msgs : i = Len(wire) + j /\ wire'[i] = msgs[j]
      <4>1. Created(e, x)
        BY <3>3 DEF Created
      <4> QED BY <2>1, <3>1, <4>1 DEF FlightInv
    <3> QED BY <1>2, <3>2, <3>3
  <2>5. \A d \in unsaid' : d \in unsaid
    OBVIOUS
  <2> QED BY <2>1, <2>2, <2>3, <2>4, <2>5 DEF FlightInv
<1>5. ASSUME NEW s \in Screens, NEW x \in Orders PROVE BoardInv(s, x)'
  <2>1. BoardInv(s, x)
    BY DEF KdsIInv
  <2>2. (\E i \in DOMAIN wire' : Created(wire'[i], x)) =>
          (\E i \in DOMAIN wire : Created(wire[i], x)) \/ Created(e, x)
    BY <1>2 DEF Created
  <2>3. (\E d \in unsaid' : Created(d, x)) => \E d \in unsaid : Created(d, x)
    OBVIOUS
  <2> QED BY <2>1, <2>2, <2>3 DEF BoardInv
<1> QED BY <1>3, <1>4, <1>5 DEF KdsIInv

\* order.created with or without ticket.created before it, and order.item_updated.
LEMMA EmitStep ==
  ASSUME KdsIInv, NEW e \in unsaid,
         BroadcastItem(e) \/ \E named \in BOOLEAN : AnnounceOrder(e, named)
  PROVE  KdsIInv'
<1>0. /\ e \in Event /\ wire \in Seq(Event) /\ Len(wire) \in Nat /\ MaxWire \in Nat
      /\ UNCHANGED <<socket, joining, rooms, revoked, board, crashed, clicked, received, cooking,
                     furthest, validated>>
      /\ unsaid' = unsaid \ {e}
  BY KdsAssumption DEF KdsIInv, KdsTypeOK, BroadcastItem, AnnounceOrder, screensSame
<1>1. CASE BroadcastItem(e)
  <2> DEFINE msgs == <<e>>
  <2>1. /\ msgs \in Seq(Event) /\ Len(msgs) = 1 /\ DOMAIN msgs = {1} /\ msgs[1] = e
        /\ wire' = wire \o msgs /\ Len(wire) + Len(msgs) <= MaxWire
    BY <1>0, <1>1 DEF BroadcastItem
  <2> HIDE DEF msgs
  <2> QED BY <1>0, <2>1, Emitted
<1>2. CASE AnnounceOrder(e, TRUE)
  <2> DEFINE ticket == [e EXCEPT !.name = "ticket.created"]
             msgs == <<ticket, e>>
  <2>1. /\ ticket \in Event /\ ticket.name = "ticket.created" /\ ticket.order = e.order
        /\ ticket.status = e.status
    BY <1>0 DEF Event, Names
  <2>2. wire' = wire \o msgs /\ Len(wire) + Len(msgs) <= MaxWire /\ e.name = "order.created"
    BY <1>2 DEF AnnounceOrder
  <2> HIDE DEF ticket
  <2>3. /\ msgs \in Seq(Event) /\ Len(msgs) = 2 /\ DOMAIN msgs = {1, 2}
        /\ msgs[1] = ticket /\ msgs[2] = e
    BY <1>0, <2>1
  <2> HIDE DEF msgs
  <2>4. \A i, k \in DOMAIN msgs :
          msgs[i].name = "order.created" /\ msgs[k].name = "order.created" => i = k
    BY <2>1, <2>3
  <2>5. \A i \in DOMAIN msgs : /\ msgs[i].order = e.order /\ msgs[i].status = e.status
                               /\ msgs[i].name = "order.created" => e.name = "order.created"
    BY <2>1, <2>2, <2>3
  <2> QED BY <1>0, <2>2, <2>3, <2>4, <2>5, Emitted
<1>3. CASE AnnounceOrder(e, FALSE)
  <2> DEFINE msgs == <<e>>
  <2>1. /\ msgs \in Seq(Event) /\ Len(msgs) = 1 /\ DOMAIN msgs = {1} /\ msgs[1] = e
        /\ wire' = wire \o msgs /\ Len(wire) + Len(msgs) <= MaxWire
    BY <1>0, <1>3 DEF AnnounceOrder
  <2> HIDE DEF msgs
  <2> QED BY <1>0, <2>1, Emitted
<1> QED BY <1>1, <1>2, <1>3

\* Deliver: the handlers of the sockets in the room.  The board it leaves a screen is the
\* old one, an empty one, or what the handler made of it.
LEMMA DeliverStep ==
  ASSUME KdsIInv, Deliver
  PROVE  KdsIInv'
<1>0. /\ KdsTypeOK /\ RoomsInv /\ EventsStayInTenant /\ wire \in Seq(Event) /\ wire # <<>>
      /\ board \in [Screens -> Boards] /\ rooms \in [Screens -> SUBSET Rooms]
      /\ UNCHANGED <<revoked, clicked, cooking, furthest, validated, unsaid>>
  BY DEF KdsIInv, KdsTypeOK, Deliver
<1> DEFINE e == Head(wire)
           audience == {s \in Screens : e.room \in rooms[s]}
           failing == {s \in audience : handle(board[s], e) = None}
<1>1. /\ e \in Event /\ e = wire[1] /\ 1 \in DOMAIN wire
      /\ wire' \in Seq(Event) /\ Len(wire') <= Len(wire) /\ Len(wire) \in Nat
      /\ \A i \in DOMAIN wire' : /\ i + 1 \in DOMAIN wire /\ i + 1 # 1
                                 /\ wire'[i] = wire[i + 1]
  <2>1. wire' = Tail(wire)
    BY DEF Deliver
  <2> QED BY <1>0, <2>1
<1>2. /\ board' = [s \in Screens |-> IF s \in failing THEN EmptyBoard
                                     ELSE IF s \in audience THEN handle(board[s], e)
                                     ELSE board[s]]
      /\ crashed' = crashed \cup failing
      /\ socket' = [s \in Screens |-> IF s \in failing THEN "off" ELSE socket[s]]
      /\ joining' = [s \in Screens |-> IF s \in failing THEN None ELSE joining[s]]
      /\ rooms' = [s \in Screens |-> IF s \in failing THEN {} ELSE rooms[s]]
      /\ received' = received \cup {<<s, e.room>> : s \in audience}
  BY DEF Deliver
<1>3. /\ audience \subseteq Screens /\ failing \subseteq Screens
      /\ \A s \in audience : e.room \in rooms[s]
      /\ \A s \in audience \ failing : handle(board[s], e) # None
  OBVIOUS
<1>4. /\ e.name \in Names /\ e.order \in Orders /\ e.status \in Statuses /\ e.room \in Rooms
  BY <1>1 DEF Event
<1> HIDE DEF e, audience, failing
<1>5. \A s \in Screens :
        \/ board'[s] = EmptyBoard
        \/ board'[s] = board[s]
        \/ /\ board'[s] = handle(board[s], e) /\ board'[s] # None
  BY <1>2, <1>3
<1>6. \A s \in Screens : handle(board[s], e) # None =>
        /\ handle(board[s], e) \in Boards
        /\ e.name # "ticket.created"
        /\ \A x \in Orders \ {e.order} : handle(board[s], e)[x] = board[s][x]
        /\ e.name = "order.created" =>
             handle(board[s], e)[e.order] = Append(board[s][e.order], e.status)
        /\ e.name = "order.item_updated" =>
             handle(board[s], e)[e.order] = [n \in DOMAIN board[s][e.order] |-> e.status]
  <2> TAKE s \in Screens
  <2>1. board[s] \in Boards
    BY <1>0
  <2> QED BY <1>1, <2>1, HandleFacts
<1>7. EmptyBoard \in Boards /\ \A x \in Orders : EmptyBoard[x] = <<>>
  BY DEF EmptyBoard, Boards
<1>8. board' \in [Screens -> Boards]
  <2>1. DOMAIN board' = Screens /\ board' = [s \in Screens |-> board'[s]]
    BY <1>2
  <2>2. \A s \in Screens : board'[s] \in Boards
    BY <1>0, <1>5, <1>6, <1>7
  <2> QED BY <2>1, <2>2
<1>9. KdsTypeOK'
  <2>1. /\ socket' \in [Screens -> {"off", "verifying", "ready", "refused"}]
        /\ joining' \in [Screens -> {None, "sent", "checking"}]
        /\ rooms' \in [Screens -> SUBSET Rooms]
        /\ crashed' \subseteq Screens
    BY <1>0, <1>2, <1>3 DEF KdsTypeOK
  <2>2. received' \subseteq Screens \X Rooms
    BY <1>0, <1>2, <1>3, <1>4 DEF KdsTypeOK
  <2>3. Len(wire') <= MaxWire /\ wire' \in Seq(Event)
    BY <1>0, <1>1, KdsAssumption DEF KdsTypeOK
  <2> QED BY <1>0, <1>8, <2>1, <2>2, <2>3 DEF KdsTypeOK
<1>10. RoomsInv'
  BY <1>0, <1>2 DEF RoomsInv
<1>11. EventsStayInTenant'
  <2> SUFFICES ASSUME NEW p \in received'
               PROVE  \E b \in Branches :
                        TenantOf[b] = TokenTenant[p[1]] /\ p[2] = getRoomName(TenantOf[b], b)
    BY DEF EventsStayInTenant
  <2>1. CASE p \in received
    BY <1>0, <2>1 DEF EventsStayInTenant
  <2>2. CASE p \notin received
    <3>1. PICK s \in audience : p = <<s, e.room>>
      BY <1>2, <2>2
    <3>2. /\ p[1] = s /\ p[2] = e.room /\ ScreenBranch[s] \in Branches
          /\ e.room = getRoomName(TokenTenant[s], ScreenBranch[s])
          /\ TenantOf[ScreenBranch[s]] = TokenTenant[s]
      BY <1>0, <1>3, <3>1, KdsAssumption DEF RoomsInv
    <3> QED BY <3>2
  <2> QED BY <2>1, <2>2
<1>12. ASSUME NEW x \in Orders PROVE FlightInv(x)'
  <2>1. FlightInv(x)
    BY DEF KdsIInv
  <2>2. \A i, k \in DOMAIN wire' : Created(wire'[i], x) /\ Created(wire'[k], x) => i = k
    <3> SUFFICES ASSUME NEW i \in DOMAIN wire', NEW k \in DOMAIN wire',
                        Created(wire'[i], x), Created(wire'[k], x)
                 PROVE  i = k
      OBVIOUS
    <3>1. i + 1 = k + 1
      BY <1>1, <2>1 DEF FlightInv
    <3>2. i \in Nat /\ k \in Nat
      BY <1>1
    <3> QED BY <3>1, <3>2
  <2> QED BY <1>0, <1>1, <2>1, <2>2 DEF FlightInv
<1>13. ASSUME NEW s \in Screens, NEW x \in Orders PROVE BoardInv(s, x)'
  <2>1. BoardInv(s, x) /\ FlightInv(x) /\ board[s][x] \in Seq(Statuses)
    BY <1>0 DEF KdsIInv, Boards
  <2>2. (\E i \in DOMAIN wire' : Created(wire'[i], x)) => \E i \in DOMAIN wire : Created(wire[i], x)
    BY <1>1
  <2>3. CASE board'[s][x] = <<>>
    <3>1. Len(<<>>) = 0 /\ DOMAIN <<>> = {}
      OBVIOUS
    <3> QED BY <2>3, <3>1 DEF BoardInv
  <2>4. CASE board'[s][x] = board[s][x]
    BY <1>0, <2>1, <2>2, <2>4 DEF BoardInv
  <2>5. CASE /\ board'[s] = handle(board[s], e) /\ board'[s] # None
             /\ x = e.order /\ e.name = "order.created"
    <3>1. Created(wire[1], x)
      BY <1>1, <2>5 DEF Created
    <3>2. board[s][x] = <<>>
      BY <1>1, <2>1, <3>1 DEF BoardInv
    <3>3. board'[s][x] = <<e.status>>
      BY <1>4, <1>6, <2>5, <3>2
    <3>4. ~\E d \in unsaid' : Created(d, x)
      BY <1>0, <1>1, <2>1, <3>1 DEF FlightInv
    <3>5. ~\E i \in DOMAIN wire' : Created(wire'[i], x)
      BY <1>1, <2>1, <3>1 DEF FlightInv
    <3>6. furthest'[x] # None /\ rank(e.status) <= rank(furthest'[x])
      BY <1>0, <1>1, <2>1, <2>5 DEF FlightInv
    <3>7. Len(<<e.status>>) = 1 /\ DOMAIN <<e.status>> = {1} /\ <<e.status>>[1] = e.status
      OBVIOUS
    <3> QED BY <3>3, <3>4, <3>5, <3>6, <3>7 DEF BoardInv
  <2>6. CASE /\ board'[s] = handle(board[s], e) /\ board'[s] # None
             /\ x = e.order /\ e.name = "order.item_updated"
    <3> DEFINE q == [n \in DOMAIN board[s][x] |-> e.status]
    <3>1. board'[s][x] = q
      BY <1>6, <2>6
    <3>2. /\ Len(q) = Len(board[s][x]) /\ (board[s][x] = <<>> => q = <<>>)
          /\ \A n \in DOMAIN q : q[n] = e.status
      BY <1>4, <2>1, SetAll
    <3>3. furthest'[x] # None /\ rank(e.status) <= rank(furthest'[x])
      BY <1>0, <1>1, <2>1, <2>6 DEF FlightInv
    <3> HIDE DEF q
    <3> QED BY <1>0, <2>1, <2>2, <3>1, <3>2, <3>3 DEF BoardInv
  <2> QED BY <1>4, <1>5, <1>6, <1>7, <2>3, <2>4, <2>5, <2>6 DEF Names
<1> QED BY <1>9, <1>10, <1>11, <1>12, <1>13 DEF KdsIInv

\* Every step keeps the invariant of the displays.
LEMMA KdsNextIInv == KdsIInv /\ [KdsNext(Screens) \/ Logouts(Screens)]_kdsVars => KdsIInv'
<1> SUFFICES ASSUME KdsIInv, [KdsNext(Screens) \/ Logouts(Screens)]_kdsVars PROVE KdsIInv'
  OBVIOUS
<1>1. CASE \E s \in Screens : ScreenSteps(s) \/ Logout(s)
  BY <1>1, ConnectionStep, ClickStep DEF ScreenSteps
<1>2. CASE KitchenSteps
  BY <1>2, CommitStep, ValidateStep, CookingStep, EmitStep, DeliverStep DEF KitchenSteps
<1>3. CASE UNCHANGED kdsVars
  BY <1>3 DEF kdsVars, KdsIInv, KdsTypeOK, RoomsInv, EventsStayInTenant, FlightInv, BoardInv
<1> QED BY <1>1, <1>2, <1>3 DEF KdsNext, Logouts

\* joinBranch, the broadcasts and the handlers of KDSTerminal: however connections, joins
\* and broadcasts interleave, a display hears of its own tenant only, shows an order once,
\* and shows no status the database has not reached except where somebody clicked.
THEOREM DisplayCorrect == KdsSpec => []DisplayInv
<1>1. KdsIInv => DisplayInv
  BY DEF KdsIInv, DisplayInv, BoardInv, OneTicketPerOrder, BoardAheadOnlyByClicks
<1> QED BY <1>1, KdsInitIInv, KdsNextIInv, PTL DEF KdsSpec

-----------------------------------------------------------------------------
(* Tenants and the wizard *)

\* What a request carries at the points it is at, and an owner role that is about to be
\* committed.
CarriesInv(q) ==
  /\ q.at \in OnboardPoints => q.sub \in Subdomains /\ q.mail \in Emails
  /\ q.at = "commit" => q.role \in Role
  /\ q.at \in UpdatePoints => q.tenant \in Settled

\* An owner role, committed or about to be, has what was there when it was written and
\* has missed nothing since but what was brought beside an open transaction.  One is the oldest.
OwnersInv ==
  /\ OwnersMissOnlyStraddled
  /\ \A r \in Requests :
       request[r].at = "commit" => permissions \ request[r].role.grants \subseteq straddled
  /\ tenants # {} => \E t \in tenants : \A u \in tenants : t.role.born <= u.role.born

\* Requests that are under way have met; one that has not come has met nobody.
MetInv ==
  /\ \A q, r \in Requests : q # r /\ underWay(q) /\ underWay(r) => q \in metWith[r]
  /\ \A r \in Requests : request[r].at = "idle" => metWith[r] = {}

\* A tenant is the onboarding that created it.
TenantsInv ==
  /\ \A t \in tenants : /\ request[t.id].at = "created"
                        /\ t.sub = request[t.id].sub /\ t.mail = request[t.id].mail
  /\ \A t, u \in tenants : t.id = u.id => t = u

\* What a passed check has left: a tenant with the same subdomain or address, an owner
\* of the domain, or a key that is not among those read, came from a request that overlaps.
PassedInv(r) ==
  LET q == request[r] IN
  /\ q.at \in {"email", "provision"} =>
       \A t \in tenants : t.sub = q.sub => t.id \in metWith[r]
  /\ q.at \in {"provision", "commit"} =>
       \A t \in tenants : t.mail = q.mail => t.id \in metWith[r] /\ r \in metWith[t.id]
  /\ q.at = "write" /\ q.domain # None /\ taken(q.tenant, q.domain) => metWith[r] # {}
  /\ q.at \in {"domain", "write"} =>
       \A a \in acknowledged[q.tenant] : a[1] \notin q.read => metWith[a[2]] # {}

\* The wizard waits for one answer at most, shows no error meanwhile, and knows of every
\* other request of its own that it failed, unless an answer was lost.
WizardInv ==
  /\ \A x, y \in waitingFor : x = y
  /\ waitingFor # {} => wizardSubmitting /\ apiError = None /\ result = None
  /\ result # None => apiError = None
  /\ ~answerLost /\ result = None =>
       \A r \in sentByWizard \ waitingFor : request[r].at \in Ended \ {"created"}

\* The steps before the one the wizard shows are filled in.
StepsInv == \A n \in 1..4 : n < step => filledIn[STEPS[n]]

\* The inductive invariant of the platform.
OnboardingIInv ==
  /\ OnboardingTypeOK /\ IsFiniteSet(welcomed)
  /\ \A r \in Requests : CarriesInv(request[r]) /\ PassedInv(r)
  /\ MetInv /\ TenantsInv
  /\ SharedEmailNeedsOverlap /\ WelcomeMeansWorkspace /\ OwnersInv /\ IndexStopsOnlyRaces
  /\ BrandingLostOnlyInRaces
  /\ WizardInv /\ StepsInv

\* Nothing has happened.
LEMMA OnboardingInitIInv == OnboardingInit => OnboardingIInv
<1> SUFFICES ASSUME OnboardingInit PROVE OnboardingIInv
  OBVIOUS
<1> USE OnboardingAssumption DEF OnboardingInit
<1>1. NoRequest \in Request /\ NoRequest.at = "idle"
  BY DEF NoRequest, Request, Ended, OnboardPoints, UpdatePoints
<1> HIDE DEF OnboardingInit
<1>2. \A r \in Requests : request[r] = NoRequest /\ request[r].at = "idle"
  BY <1>1 DEF OnboardingInit
<1>3. OnboardingTypeOK
  <2>1. request \in [Requests -> Request]
    BY <1>1 DEF OnboardingInit
  <2>2. /\ metWith \in [Requests -> SUBSET Requests]
        /\ domain \in [Settled -> Domains \cup {None}]
        /\ branding \in [Settled -> SUBSET BrandingKeys]
        /\ acknowledged \in [Settled -> SUBSET (BrandingKeys \X Requests)]
        /\ filledIn \in [InputSteps -> BOOLEAN] /\ step \in 1..5
    BY DEF OnboardingInit

     <2>3. permissions \subseteq Permissions /\ straddled \subseteq Permissions /\ wizardSubmitting \in BOOLEAN /\ answerLost \in BOOLEAN
    BY Zenon DEF OnboardingInit
  <2> QED BY <2>1, <2>2, <2>3 DEF OnboardingTypeOK, OnboardingInit
<1>4. IsFiniteSet(welcomed)
  BY FS_EmptySet DEF OnboardingInit
<1>5. \A r \in Requests : CarriesInv(request[r]) /\ PassedInv(r)
  BY <1>2 DEF CarriesInv, PassedInv, OnboardPoints, UpdatePoints
<1>6. MetInv /\ IndexStopsOnlyRaces
  BY <1>2 DEF MetInv, IndexStopsOnlyRaces, underWay, OnboardingInit
<1>7. /\ TenantsInv /\ SharedEmailNeedsOverlap /\ WelcomeMeansWorkspace /\ OwnersInv
      /\ BrandingLostOnlyInRaces /\ WizardInv
  BY DEF TenantsInv, SharedEmailNeedsOverlap, WelcomeMeansWorkspace, OwnersInv, OwnersMissOnlyStraddled,
         BrandingLostOnlyInRaces, WizardInv, OnboardingInit
<1>8. StepsInv
  BY DEF StepsInv, OnboardingInit
<1> QED BY <1>3, <1>4, <1>5, <1>6, <1>7, <1>8 DEF OnboardingIInv

\* What a step of one request that is under way leaves as it was.
LEMMA OneMoves ==
  ASSUME OnboardingIInv, NEW r \in Requests, NEW new \in Request, underWay(r), new.at # "idle",
         request' = [request EXCEPT ![r] = new], metWith' = metWith, UNCHANGED wizardVars
  PROVE  /\ request' \in [Requests -> Request] /\ request'[r] = new
         /\ \A x \in Requests \ {r} : request'[x] = request[x]
         /\ MetInv' /\ WizardInv' /\ StepsInv'
         /\ r \notin {t.id : t \in tenants}
         /\ r \in welcomed => request[r].at = "commit"
<1>1. /\ request \in [Requests -> Request] /\ MetInv /\ WizardInv /\ StepsInv /\ TenantsInv
      /\ WelcomeMeansWorkspace /\ tenants \subseteq Tenant
  BY DEF OnboardingIInv, OnboardingTypeOK
<1>2. /\ request' \in [Requests -> Request] /\ request'[r] = new
      /\ \A x \in Requests \ {r} : request'[x] = request[x]
  BY <1>1
<1>3. MetInv'

     <2>1. \A x \in Requests : (underWay(x)' => underWay(x)) /\ (request'[x].at = "idle" => request[x].at = "idle")
    BY <1>2 DEF underWay
  <2> QED BY <1>1, <2>1 DEF MetInv
<1>4. WizardInv' /\ StepsInv'
  <2>1. \A x \in Requests : request[x].at \in Ended => request'[x] = request[x]
    BY <1>2 DEF underWay
  <2>2. sentByWizard \subseteq Requests
    BY DEF OnboardingIInv, OnboardingTypeOK
  <2> QED BY <1>1, <2>1, <2>2 DEF WizardInv, StepsInv, wizardVars
<1>5. \A t \in tenants : t.id # r
  BY <1>1 DEF TenantsInv, underWay, Ended
<1>6. r \in welcomed => request[r].at = "commit"
  BY <1>1, <1>5 DEF WelcomeMeansWorkspace, underWay, Ended
<1> QED BY <1>2, <1>3, <1>4, <1>5, <1>6

\* A step that touches no tenant and no permission, and brings no request to its commit.
LEMMA OwnersQuiet ==
  ASSUME OwnersInv, UNCHANGED <<tenants, permissions, straddled>>,
         \A x \in Requests : request'[x].at = "commit" => request'[x] = request[x]
  PROVE  OwnersInv'
<1>1. \A x \in Requests :
        request'[x].at = "commit" => permissions \ request'[x].role.grants \subseteq straddled
  BY DEF OwnersInv
<1> QED BY <1>1 DEF OwnersInv, OwnersMissOnlyStraddled

\* A step of one request that changes nothing but the request.
LEMMA QuietMove ==
  ASSUME OnboardingIInv, NEW r \in Requests, NEW new \in Request, underWay(r), new.at # "idle",
         new.at # "commit", request' = [request EXCEPT ![r] = new],
         UNCHANGED <<tenants, permissions, straddled, welcomed, metWith, profileVars, wizardVars>>,
         CarriesInv(new), PassedInv(r)', new.at = "clash" => metWith[r] # {},
         request[r].at = "commit" => new.at = "rolledBack"
  PROVE  OnboardingIInv'
<1>1. /\ request' \in [Requests -> Request] /\ request'[r] = new
      /\ \A x \in Requests \ {r} : request'[x] = request[x]
      /\ MetInv' /\ WizardInv' /\ StepsInv'
      /\ \A t \in tenants : t.id # r
      /\ r \in welcomed => new.at = "rolledBack"
  BY OneMoves
<1>2. UNCHANGED <<tenants, permissions, straddled, welcomed, metWith, domain, branding, acknowledged>>
  BY DEF profileVars
<1>3. OnboardingTypeOK' /\ IsFiniteSet(welcomed)'
  BY <1>1, <1>2 DEF OnboardingIInv, OnboardingTypeOK, wizardVars
<1>4. \A x \in Requests : CarriesInv(request'[x])
  BY <1>1 DEF OnboardingIInv
<1>5. \A x \in Requests : PassedInv(x)'
  <2> TAKE x \in Requests
  <2>1. CASE x # r
    <3>1. PassedInv(x) /\ request'[x] = request[x]
      BY <1>1, <2>1 DEF OnboardingIInv
    <3> QED BY <1>2, <3>1 DEF PassedInv, taken
  <2> QED BY <2>1
<1>6. TenantsInv' /\ SharedEmailNeedsOverlap' /\ OwnersInv' /\ BrandingLostOnlyInRaces'
  <2>1. \A t \in tenants : t.id \in Requests
    BY DEF OnboardingIInv, OnboardingTypeOK, Tenant
  <2>2. OwnersInv'
    BY <1>1, <1>2, OwnersQuiet DEF OnboardingIInv
  <2> QED BY <1>1, <1>2, <2>1, <2>2 DEF OnboardingIInv, TenantsInv, SharedEmailNeedsOverlap,
             BrandingLostOnlyInRaces
<1>7. WelcomeMeansWorkspace' /\ IndexStopsOnlyRaces'
  BY <1>1, <1>2 DEF OnboardingIInv, OnboardingTypeOK, WelcomeMeansWorkspace, IndexStopsOnlyRaces
<1> QED BY <1>1, <1>3, <1>4, <1>5, <1>6, <1>7 DEF OnboardingIInv

\* The lookups of executeOnboarding, and the ways it ends without a tenant.
LEMMA LookStep ==
  ASSUME OnboardingIInv, NEW r \in Requests, UNCHANGED <<profileVars, wizardVars>>,
         \/ CheckSubdomain(r) \/ CheckEmail(r)
         \/ ProvisionTenant(r) /\ UNCHANGED welcomed
         \/ CommitTenant(r) /\ UNCHANGED tenants
  PROVE  OnboardingIInv'
<1>0. /\ request \in [Requests -> Request] /\ request[r] \in Request
      /\ CarriesInv(request[r]) /\ PassedInv(r)
      /\ UNCHANGED <<permissions, straddled, metWith, profileVars, wizardVars>>
      /\ r \in welcomed => request[r].at \in {"commit", "created", "rolledBack"}
  BY DEF OnboardingIInv, OnboardingTypeOK, CheckSubdomain, CheckEmail, ProvisionTenant, CommitTenant, rights,
         WelcomeMeansWorkspace, TenantsInv
<1> DEFINE to(at) == [request[r] EXCEPT !.at = at]
<1>1. ASSUME NEW at \in {"conflict", "email", "provision", "clash", "rolledBack"}
      PROVE  /\ to(at) \in Request /\ to(at).at = at /\ to(at).sub = request[r].sub
             /\ to(at).mail = request[r].mail /\ to(at).role = request[r].role
  BY <1>0 DEF Request, Ended, OnboardPoints
<1>2. ASSUME NEW at \in {"conflict", "email", "provision", "clash", "rolledBack"}, Goto(r, at)
      PROVE  request' = [request EXCEPT ![r] = to(at)] /\ request'[r] = to(at)
  BY <1>0, <1>2 DEF Goto
<1> HIDE DEF to
<1>3. ASSUME NEW at \in {"conflict", "clash", "rolledBack"}, Goto(r, at), underWay(r),
             UNCHANGED <<tenants, welcomed>>,
             at = "clash" => metWith[r] # {}, request[r].at = "commit" => at = "rolledBack"
      PROVE  OnboardingIInv'
  <2>1. /\ to(at) \in Request /\ to(at).at = at /\ request' = [request EXCEPT ![r] = to(at)]
        /\ request'[r] = to(at)
    BY <1>1, <1>2, <1>3
  <2>2. CarriesInv(to(at)) /\ PassedInv(r)'
    BY <2>1 DEF CarriesInv, PassedInv, OnboardPoints, UpdatePoints
  <2> QED BY <1>0, <1>3, <2>1, <2>2, QuietMove
<1>4. ASSUME NEW at \in {"email", "provision"}, Goto(r, at), request[r].at \in {"subdomain", "email"},
             UNCHANGED <<tenants, welcomed>>,
             at = "email" => ~\E t \in tenants : t.sub = request[r].sub,
             at = "provision" => /\ request[r].at = "email"
                                 /\ ~\E t \in tenants : t.mail = request[r].mail
      PROVE  OnboardingIInv'
  <2>1. /\ to(at) \in Request /\ to(at).at = at /\ request' = [request EXCEPT ![r] = to(at)]
        /\ request'[r] = to(at) /\ to(at).sub = request[r].sub /\ to(at).mail = request[r].mail
    BY <1>1, <1>2, <1>4
  <2>2. CarriesInv(to(at))
    BY <1>0, <1>4, <2>1 DEF CarriesInv, OnboardPoints, UpdatePoints
  <2>3. PassedInv(r)'
    BY <1>0, <1>4, <2>1 DEF PassedInv
  <2>4. underWay(r)
    BY <1>4 DEF underWay, Ended
  <2> QED BY <1>0, <1>4, <2>1, <2>2, <2>3, <2>4, QuietMove
<1>5. CASE CheckSubdomain(r)
  <2>1. underWay(r)
    BY <1>5 DEF CheckSubdomain, underWay, Ended
  <2> QED BY <1>3, <1>4, <1>5, <2>1 DEF CheckSubdomain
<1>6. CASE CheckEmail(r)
  <2>1. underWay(r)
    BY <1>6 DEF CheckEmail, underWay, Ended
  <2> QED BY <1>3, <1>4, <1>6, <2>1 DEF CheckEmail
<1>7. CASE ProvisionTenant(r) /\ UNCHANGED welcomed
  <2>1. underWay(r) /\ request[r].at = "provision" /\ r \notin welcomed /\ UNCHANGED tenants
    BY <1>0, <1>7 DEF ProvisionTenant, underWay, Ended
  <2>2. CASE (\E t \in tenants : t.sub = request[r].sub) /\ Goto(r, "clash")
    <3>1. metWith[r] # {}
      BY <1>0, <2>1, <2>2 DEF PassedInv
    <3> QED BY <1>3, <1>7, <2>1, <2>2, <3>1
  <2>3. CASE Goto(r, "rolledBack")
    BY <1>3, <1>7, <2>1, <2>3
  <2> QED BY <1>7, <2>1, <2>2, <2>3 DEF ProvisionTenant
<1>8. CASE CommitTenant(r) /\ UNCHANGED tenants
  <2>1. underWay(r) /\ UNCHANGED welcomed
    BY <1>8 DEF CommitTenant, underWay, Ended
  <2>2. workspace(r) \notin tenants
    <3>1. workspace(r).id = r /\ request[r].at = "commit"
      BY <1>8 DEF workspace, CommitTenant
    <3> QED BY <3>1 DEF OnboardingIInv, TenantsInv
  <2>3. Goto(r, "rolledBack")
    BY <1>8, <2>2 DEF CommitTenant
  <2> QED BY <1>3, <1>8, <2>1, <2>3
<1> QED BY <1>5, <1>6, <1>7, <1>8

\* The owner role of a new tenant: all there is, or what the oldest owner has.
LEMMA OwnerRoleFacts ==
  ASSUME OnboardingIInv
  PROVE  /\ ownerRole \in Role /\ ownerRole.grants = ownerGrants
         /\ permissions \ ownerGrants \subseteq straddled
<1>1. Cardinality(welcomed) \in Nat
  BY FS_CardinalityType DEF OnboardingIInv
<1>2. tenants # {} => oldest \in tenants
  BY DEF OnboardingIInv, OwnersInv, oldest
<1>3. ownerGrants \subseteq Permissions /\ permissions \ ownerGrants \subseteq straddled
  <2>1. CASE tenants # {} /\ oldest.role.grants # {}
    <3>1. oldest \in Tenant /\ permissions \ oldest.role.grants \subseteq straddled
      BY <1>2, <2>1 DEF OnboardingIInv, OnboardingTypeOK, OwnersInv, OwnersMissOnlyStraddled
    <3> QED BY <2>1, <3>1 DEF ownerGrants, Tenant, Role
  <2>2. CASE ~(tenants # {} /\ oldest.role.grants # {})
    BY <2>2 DEF ownerGrants, OnboardingIInv, OnboardingTypeOK
  <2> QED BY <2>1, <2>2
<1>4. ownerRole = [born |-> Cardinality(welcomed), grants |-> ownerGrants]
  BY DEF ownerRole
<1> QED BY <1>1, <1>3, <1>4 DEF Role

\* The rows are written and the welcome mail leaves.
LEMMA ProvisionStep ==
  ASSUME OnboardingIInv, NEW r \in Requests, UNCHANGED <<profileVars, wizardVars>>,
         ProvisionTenant(r), welcomed' # welcomed
  PROVE  OnboardingIInv'
<1> DEFINE new == [request[r] EXCEPT !.at = "commit", !.role = ownerRole]
<1>0. /\ request \in [Requests -> Request] /\ request[r] \in Request
      /\ CarriesInv(request[r]) /\ PassedInv(r) /\ request[r].at = "provision"
      /\ UNCHANGED <<tenants, permissions, straddled, metWith, domain, branding, acknowledged>>
      /\ ~\E t \in tenants : t.sub = request[r].sub
      /\ welcomed' = welcomed \cup {r}
      /\ request' = [request EXCEPT ![r].at = "commit", ![r].role = ownerRole]
  BY DEF OnboardingIInv, OnboardingTypeOK, ProvisionTenant, profileVars, rights
<1>1. /\ ownerRole \in Role /\ permissions \ ownerRole.grants \subseteq straddled
  BY OwnerRoleFacts
<1>2. /\ new \in Request /\ new.at = "commit" /\ new.role = ownerRole
      /\ new.sub = request[r].sub /\ new.mail = request[r].mail
      /\ request' = [request EXCEPT ![r] = new]
  BY <1>0, <1>1 DEF Request, OnboardPoints
<1> HIDE DEF new
<1>3. underWay(r)
  BY <1>0 DEF underWay, Ended
<1>4. /\ request' \in [Requests -> Request] /\ request'[r] = new
      /\ \A x \in Requests \ {r} : request'[x] = request[x]
      /\ MetInv' /\ WizardInv' /\ StepsInv'
      /\ \A t \in tenants : t.id # r
  <2>1. new.at # "idle" /\ metWith' = metWith /\ UNCHANGED wizardVars
    BY <1>0, <1>2
  <2>2. r \notin {t.id : t \in tenants}
    BY <1>2, <1>3, <2>1, OneMoves
  <2> QED BY <1>2, <1>3, <2>1, <2>2, OneMoves
<1>5. OnboardingTypeOK' /\ IsFiniteSet(welcomed)'
  <2>1. IsFiniteSet(welcomed)'
    BY <1>0, FS_AddElement DEF OnboardingIInv
  <2> QED BY <1>0, <1>4, <2>1 DEF OnboardingIInv, OnboardingTypeOK, wizardVars
<1>6. \A x \in Requests : CarriesInv(request'[x])
  <2>1. CarriesInv(new)
    BY <1>0, <1>1, <1>2 DEF CarriesInv, OnboardPoints, UpdatePoints
  <2> QED BY <1>4, <2>1 DEF OnboardingIInv
<1>7. \A x \in Requests : PassedInv(x)'
  <2> TAKE x \in Requests
  <2>1. CASE x # r
    <3>1. PassedInv(x) /\ request'[x] = request[x]
      BY <1>4, <2>1 DEF OnboardingIInv
    <3> QED BY <1>0, <3>1 DEF PassedInv, taken
  <2>2. CASE x = r
    BY <1>0, <1>2, <1>4, <2>2 DEF PassedInv
  <2> QED BY <2>1, <2>2
<1>8. TenantsInv' /\ SharedEmailNeedsOverlap' /\ BrandingLostOnlyInRaces'
  <2>1. \A t \in tenants : t.id \in Requests
    BY DEF OnboardingIInv, OnboardingTypeOK, Tenant
  <2> QED BY <1>0, <1>4, <2>1 DEF OnboardingIInv, TenantsInv, SharedEmailNeedsOverlap, BrandingLostOnlyInRaces
<1>o. OwnersInv'
  <2>1. OwnersInv /\ UNCHANGED <<tenants, permissions, straddled>>
    BY <1>0 DEF OnboardingIInv
  <2>2. \A x \in Requests :
          request'[x].at = "commit" => permissions \ request'[x].role.grants \subseteq straddled
    BY <1>1, <1>2, <1>4, <2>1 DEF OwnersInv
  <2> QED BY <2>1, <2>2 DEF OwnersInv, OwnersMissOnlyStraddled
<1>9. WelcomeMeansWorkspace' /\ IndexStopsOnlyRaces'
  BY <1>0, <1>2, <1>4 DEF OnboardingIInv, OnboardingTypeOK, WelcomeMeansWorkspace, IndexStopsOnlyRaces
<1> QED BY <1>4, <1>5, <1>6, <1>7, <1>8, <1>9, <1>o DEF OnboardingIInv

\* The transaction commits: the workspace is there.
LEMMA CommitTenantStep ==
  ASSUME OnboardingIInv, NEW r \in Requests, UNCHANGED <<profileVars, wizardVars>>,
         CommitTenant(r), tenants' # tenants
  PROVE  OnboardingIInv'
<1> DEFINE new == [request[r] EXCEPT !.at = "created"]
           w == workspace(r)
<1>0. /\ request \in [Requests -> Request] /\ request[r] \in Request
      /\ CarriesInv(request[r]) /\ PassedInv(r) /\ request[r].at = "commit"
      /\ UNCHANGED <<welcomed, permissions, straddled, metWith, domain, branding, acknowledged>>
      /\ tenants' = tenants \cup {w}
      /\ request' = [request EXCEPT ![r].at = "created"]
  BY DEF OnboardingIInv, OnboardingTypeOK, CommitTenant, profileVars, rights, Goto
<1>1. /\ w \in Tenant /\ w.id = r /\ w.sub = request[r].sub /\ w.mail = request[r].mail
      /\ w.role = request[r].role /\ w.role \in Role
  BY <1>0 DEF CarriesInv, OnboardPoints, workspace, Tenant
<1>2. /\ new \in Request /\ new.at = "created" /\ new.sub = request[r].sub
      /\ new.mail = request[r].mail /\ request' = [request EXCEPT ![r] = new]
  BY <1>0 DEF Request, Ended
<1> HIDE DEF new, w
<1>3. underWay(r)
  BY <1>0 DEF underWay, Ended
<1>4. /\ request' \in [Requests -> Request] /\ request'[r] = new
      /\ \A x \in Requests \ {r} : request'[x] = request[x]
      /\ MetInv' /\ WizardInv' /\ StepsInv'
      /\ \A t \in tenants : t.id # r
  <2>1. new.at # "idle" /\ metWith' = metWith /\ UNCHANGED wizardVars
    BY <1>0, <1>2
  <2>2. r \notin {t.id : t \in tenants}
    BY <1>2, <1>3, <2>1, OneMoves
  <2> QED BY <1>2, <1>3, <2>1, <2>2, OneMoves
<1>5. OnboardingTypeOK' /\ IsFiniteSet(welcomed)'
  BY <1>0, <1>1, <1>4 DEF OnboardingIInv, OnboardingTypeOK, wizardVars
<1>6. \A x \in Requests : CarriesInv(request'[x])
  <2>1. CarriesInv(new)
    BY <1>2 DEF CarriesInv, OnboardPoints, UpdatePoints
  <2> QED BY <1>4, <2>1 DEF OnboardingIInv
<1>7. \A x \in Requests : PassedInv(x)'
  <2> TAKE x \in Requests
  <2>1. CASE x # r
    <3>1. PassedInv(x) /\ request'[x] = request[x]
      BY <1>4, <2>1 DEF OnboardingIInv
    <3>2. underWay(x) => r \in metWith[x] /\ x \in metWith[r]
      BY <1>3, <2>1 DEF OnboardingIInv, MetInv
    <3>3. request[x].at \in {"email", "provision", "commit"} => underWay(x)
      BY DEF underWay, Ended
    <3> QED BY <1>0, <1>1, <3>1, <3>2, <3>3 DEF PassedInv, taken
  <2>2. CASE x = r
    BY <1>2, <1>4, <2>2 DEF PassedInv
  <2> QED BY <2>1, <2>2
<1>t. \A t \in tenants : t.id \in Requests /\ request'[t.id] = request[t.id]
  BY <1>4 DEF OnboardingIInv, OnboardingTypeOK, Tenant
<1>8. TenantsInv' /\ BrandingLostOnlyInRaces'
  BY <1>0, <1>1, <1>2, <1>4, <1>t DEF OnboardingIInv, TenantsInv, BrandingLostOnlyInRaces
<1>o. OwnersInv'
  <2>1. OwnersInv /\ UNCHANGED <<permissions, straddled>>
    BY <1>0 DEF OnboardingIInv
  <2>2. \A x \in Requests :
          request'[x].at = "commit" => permissions \ request'[x].role.grants \subseteq straddled
    BY <1>2, <1>4, <2>1 DEF OwnersInv
  <2>3. \A t \in tenants' : permissions \ t.role.grants \subseteq straddled
    BY <1>0, <1>1, <2>1 DEF OwnersInv, OwnersMissOnlyStraddled
  <2>4. w.role.born \in Nat /\ \A t \in tenants : t.role.born \in Nat
    BY <1>1 DEF OnboardingIInv, OnboardingTypeOK, Tenant, Role
  <2>5. \E t \in tenants' : \A u \in tenants' : t.role.born <= u.role.born
    <3>1. CASE tenants = {}
      BY <1>0, <2>4, <3>1
    <3>2. CASE tenants # {}
      <4>1. PICK t \in tenants : \A u \in tenants : t.role.born <= u.role.born
        BY <2>1, <3>2 DEF OwnersInv
      <4>2. CASE t.role.born <= w.role.born
        BY <1>0, <2>4, <4>1, <4>2
      <4>3. CASE w.role.born <= t.role.born
        <5>1. \A u \in tenants : w.role.born <= u.role.born
          BY <2>4, <4>1, <4>3
        <5> QED BY <1>0, <2>4, <5>1
      <4>4. t.role.born \in Nat /\ w.role.born \in Nat
        BY <2>4
      <4> QED BY <4>2, <4>3, <4>4
    <3> QED BY <3>1, <3>2
  <2> QED BY <2>1, <2>2, <2>3, <2>5 DEF OwnersInv, OwnersMissOnlyStraddled
<1>9. SharedEmailNeedsOverlap'
  <2>1. \A t \in tenants : t.mail = request[r].mail => t.id \in metWith[r] /\ r \in metWith[t.id]
    BY <1>0 DEF PassedInv
  <2> QED BY <1>0, <1>1, <2>1 DEF OnboardingIInv, SharedEmailNeedsOverlap
<1>10. WelcomeMeansWorkspace' /\ IndexStopsOnlyRaces'
  BY <1>0, <1>1, <1>2, <1>4 DEF OnboardingIInv, OnboardingTypeOK, WelcomeMeansWorkspace,
     IndexStopsOnlyRaces
<1> QED BY <1>4, <1>5, <1>6, <1>7, <1>8, <1>9, <1>10, <1>o DEF OnboardingIInv

\* A migration gives its permission to the roles it sees.
LEMMA MigrationStep ==
  ASSUME OnboardingIInv, NEW p \in Permissions, MigrationRuns(p), UNCHANGED <<profileVars, wizardVars>>
  PROVE  OnboardingIInv'
<1> DEFINE g(t) == [t EXCEPT !.role.grants = @ \cup {p}]
<1>0. /\ UNCHANGED <<request, welcomed, metWith, domain, branding, acknowledged, wizardVars>>
      /\ permissions' = permissions \cup {p} /\ tenants' = {g(t) : t \in tenants}
      /\ straddled' = IF \E r \in Requests : request[r].at = "commit" THEN straddled \cup {p}
                      ELSE straddled
      /\ tenants \subseteq Tenant
  BY DEF MigrationRuns, profileVars, OnboardingIInv, OnboardingTypeOK
<1>1. \A t \in Tenant : /\ g(t) \in Tenant /\ g(t).id = t.id /\ g(t).sub = t.sub /\ g(t).mail = t.mail
                        /\ g(t).role.grants = t.role.grants \cup {p} /\ g(t).role.born = t.role.born
  <2> TAKE t \in Tenant
  <2> DEFINE role == [t.role EXCEPT !.grants = @ \cup {p}]
  <2>1. t.role \in Role
    BY DEF Tenant
  <2>2. role \in Role /\ role.grants = t.role.grants \cup {p} /\ role.born = t.role.born
    BY <2>1 DEF Role
  <2>3. g(t) = [t EXCEPT !.role = role]
    OBVIOUS
  <2> HIDE DEF g, role
  <2> QED BY <2>2, <2>3 DEF Tenant
<1> HIDE DEF g
<1>2. \A u \in tenants' : \E t \in tenants : u = g(t) /\ u.id = t.id /\ u.sub = t.sub /\ u.mail = t.mail
  BY <1>0, <1>1
<1>3. OnboardingTypeOK' /\ IsFiniteSet(welcomed)'
  <2>1. tenants' \subseteq Tenant
    BY <1>0, <1>1
  <2>2. permissions' \subseteq Permissions /\ straddled' \subseteq Permissions
    BY <1>0 DEF OnboardingIInv, OnboardingTypeOK
  <2> QED BY <1>0, <2>1, <2>2 DEF OnboardingIInv, OnboardingTypeOK, wizardVars
<1>4. \A x \in Requests : CarriesInv(request'[x]) /\ PassedInv(x)'
  <2> TAKE x \in Requests
  <2>1. CarriesInv(request[x]) /\ PassedInv(x)
    BY DEF OnboardingIInv
  <2> QED BY <1>0, <1>2, <2>1 DEF PassedInv, taken
<1>5. TenantsInv' /\ SharedEmailNeedsOverlap'
  <2>1. TenantsInv /\ SharedEmailNeedsOverlap
    BY DEF OnboardingIInv
  <2> QED BY <1>0, <1>2, <2>1 DEF TenantsInv, SharedEmailNeedsOverlap
<1>6. WelcomeMeansWorkspace'
  <2>1. \A r \in welcomed : (\E t \in tenants : t.id = r) => \E u \in tenants' : u.id = r
    BY <1>0, <1>1
  <2> QED BY <1>0, <2>1 DEF OnboardingIInv, WelcomeMeansWorkspace
<1>o. OwnersInv'
  <2>1. OwnersInv /\ straddled \subseteq straddled'
    BY <1>0 DEF OnboardingIInv
  <2>2. ASSUME NEW u \in tenants' PROVE permissions' \ u.role.grants \subseteq straddled'
    <3>1. PICK t \in tenants : u.role.grants = t.role.grants \cup {p}
      BY <1>0, <1>1
    <3> QED BY <1>0, <2>1, <3>1 DEF OwnersInv, OwnersMissOnlyStraddled
  <2>3. ASSUME NEW x \in Requests, request'[x].at = "commit"
        PROVE  permissions' \ request'[x].role.grants \subseteq straddled'
    <3>1. straddled' = straddled \cup {p} /\ request[x].at = "commit" /\ request' = request
      BY <1>0, <2>3
    <3> QED BY <1>0, <2>1, <3>1 DEF OwnersInv
  <2>4. tenants' # {} => \E t \in tenants' : \A u \in tenants' : t.role.born <= u.role.born
    <3> SUFFICES ASSUME tenants' # {}
                 PROVE  \E t \in tenants' : \A u \in tenants' : t.role.born <= u.role.born
      OBVIOUS
    <3>1. PICK t \in tenants : \A u \in tenants : t.role.born <= u.role.born
      BY <1>0, <2>1 DEF OwnersInv
    <3>2. g(t) \in tenants' /\ \A u \in tenants' : g(t).role.born <= u.role.born
      BY <1>0, <1>1, <3>1
    <3> QED BY <3>2
  <2> QED BY <2>2, <2>3, <2>4 DEF OwnersInv, OwnersMissOnlyStraddled
<1>7. MetInv' /\ IndexStopsOnlyRaces' /\ BrandingLostOnlyInRaces'
  BY <1>0 DEF OnboardingIInv, MetInv, IndexStopsOnlyRaces, BrandingLostOnlyInRaces, underWay
<1>8. WizardInv' /\ StepsInv'
  BY <1>0 DEF OnboardingIInv, WizardInv, StepsInv, wizardVars
<1> QED BY <1>3, <1>4, <1>5, <1>6, <1>7, <1>8, <1>o DEF OnboardingIInv

\* The reads of updateTenant, and the ways it ends without a write.
LEMMA UpdateLookStep ==
  ASSUME OnboardingIInv, NEW r \in Requests,
         UNCHANGED <<tenants, permissions, straddled, welcomed, profileVars, wizardVars>>,
         \/ ReadTenant(r) \/ CheckDomain(r)
         \/ WriteTenant(r) /\ Goto(r, "clash")
  PROVE  OnboardingIInv'
<1>0. /\ request \in [Requests -> Request] /\ request[r] \in Request
      /\ branding \in [Settled -> SUBSET BrandingKeys]
      /\ CarriesInv(request[r]) /\ PassedInv(r) /\ BrandingLostOnlyInRaces
      /\ request[r].at \in UpdatePoints /\ metWith' = metWith
      /\ UNCHANGED <<domain, branding, acknowledged>>
  BY DEF OnboardingIInv, OnboardingTypeOK, ReadTenant, CheckDomain, WriteTenant, UpdatePoints,
         profileVars
<1>1. underWay(r) /\ request[r].tenant \in Settled /\ request[r].at # "commit"
  BY <1>0 DEF underWay, Ended, UpdatePoints, CarriesInv
<1>2. CASE ReadTenant(r)
  <2> DEFINE new == [request[r] EXCEPT !.read = branding[request[r].tenant],
                        !.at = IF request[r].domain = None THEN "write" ELSE "domain"]
  <2>1. /\ new \in Request /\ new.at \in {"write", "domain"} /\ new.tenant = request[r].tenant
        /\ new.read = branding[request[r].tenant] /\ new.domain = request[r].domain
        /\ new.at = "write" => new.domain = None
        /\ request' = [request EXCEPT ![r] = new]
    BY <1>0, <1>1, <1>2 DEF ReadTenant, Request, UpdatePoints
  <2> HIDE DEF new
  <2>2. request'[r] = new /\ new.at # "idle" /\ new.at # "clash"
    BY <1>0, <2>1
  <2>3. CarriesInv(new)
    BY <1>1, <2>1 DEF CarriesInv, OnboardPoints
  <2>4. PassedInv(r)'
    BY <1>0, <1>1, <2>1, <2>2 DEF PassedInv, BrandingLostOnlyInRaces
  <2> QED BY <1>0, <1>1, <2>1, <2>2, <2>3, <2>4, QuietMove
<1>3. CASE CheckDomain(r)
  <2> DEFINE new == [request[r] EXCEPT !.at =
                       IF taken(request[r].tenant, request[r].domain) THEN "conflict" ELSE "write"]
  <2>1. /\ new \in Request /\ new.at \in {"write", "conflict"} /\ new.tenant = request[r].tenant
        /\ new.read = request[r].read /\ new.domain = request[r].domain
        /\ new.at = "write" => ~taken(request[r].tenant, request[r].domain)
        /\ request' = [request EXCEPT ![r] = new] /\ request[r].at = "domain"
    BY <1>0, <1>1, <1>3 DEF CheckDomain, Goto, Request, UpdatePoints, Ended
  <2> HIDE DEF new
  <2>2. request'[r] = new /\ new.at # "idle" /\ new.at # "clash"
    BY <1>0, <2>1
  <2>3. CarriesInv(new)
    BY <1>1, <2>1 DEF CarriesInv, OnboardPoints
  <2>5. PassedInv(r)'
    <3>1. new.at = "write" => ~\E o \in Settled \ {new.tenant} : domain'[o] = new.domain
      BY <1>0, <2>1 DEF taken
    <3> QED BY <1>0, <1>1, <2>1, <2>2, <3>1 DEF PassedInv, taken
  <2> QED BY <1>0, <1>1, <2>1, <2>2, <2>3, <2>5, QuietMove
<1>4. CASE WriteTenant(r) /\ Goto(r, "clash")
  <2> DEFINE new == [request[r] EXCEPT !.at = "clash"]
  <2>1. new \in Request /\ new.at = "clash" /\ request' = [request EXCEPT ![r] = new]
    BY <1>0, <1>4 DEF Goto, Request, Ended
  <2> HIDE DEF new
  <2>2. request'[r] = new
    BY <1>0, <2>1
  <2>3. CarriesInv(new) /\ PassedInv(r)'
    BY <2>1, <2>2 DEF CarriesInv, PassedInv, OnboardPoints, UpdatePoints
  <2>4. request'[r].at = "clash"
    BY <2>1, <2>2
  <2>5. request[r].at = "write" /\ request[r].domain # None /\ taken(request[r].tenant, request[r].domain)
    <3>1. Goto(r, "updated") => request'[r].at = "updated"
      BY <1>0 DEF Goto, Request
    <3> QED BY <1>4, <2>4, <3>1 DEF WriteTenant
  <2>6. metWith[r] # {}
    BY <1>0, <2>5 DEF PassedInv
  <2> QED BY <1>0, <1>1, <2>1, <2>3, <2>6, QuietMove
<1> QED BY <1>2, <1>3, <1>4

\* The update of the row: the keys that were read and the new one.
LEMMA WriteStep ==
  ASSUME OnboardingIInv, NEW r \in Requests, UNCHANGED <<tenants, permissions, straddled, welcomed,
                                                         wizardVars>>,
         WriteTenant(r), ~Goto(r, "clash")
  PROVE  OnboardingIInv'
<1> DEFINE q == request[r]
           new == [request[r] EXCEPT !.at = "updated"]
<1>0. /\ request \in [Requests -> Request] /\ q \in Request
      /\ domain \in [Settled -> Domains \cup {None}]
      /\ branding \in [Settled -> SUBSET BrandingKeys]
      /\ acknowledged \in [Settled -> SUBSET (BrandingKeys \X Requests)]
      /\ CarriesInv(q) /\ PassedInv(r) /\ BrandingLostOnlyInRaces
      /\ q.at = "write" /\ metWith' = metWith
      /\ domain' = (IF q.domain = None THEN domain ELSE [domain EXCEPT ![q.tenant] = q.domain])
      /\ branding' = [branding EXCEPT ![q.tenant] = brandingMerged(q)]
      /\ acknowledged' = (IF q.key = None THEN acknowledged
                          ELSE [acknowledged EXCEPT ![q.tenant] = @ \cup {<<q.key, r>>}])
      /\ request' = [request EXCEPT ![r].at = "updated"]
  BY DEF OnboardingIInv, OnboardingTypeOK, WriteTenant, Goto
<1>1. /\ new \in Request /\ new.at = "updated" /\ request' = [request EXCEPT ![r] = new]
  BY <1>0 DEF Request, Ended
<1>2. /\ q.tenant \in Settled /\ q.domain \in Domains \cup {None} /\ q.read \in SUBSET BrandingKeys
      /\ q.key # None => q.key \in BrandingKeys
  BY <1>0 DEF CarriesInv, UpdatePoints, Request
<1>p. \A a \in acknowledged[q.tenant] : a[1] \notin q.read => metWith[a[2]] # {}
  BY <1>0 DEF PassedInv
<1> HIDE DEF q, new
<1>3. underWay(r)
  BY <1>0 DEF underWay, Ended, q
<1>4. /\ request' \in [Requests -> Request] /\ request'[r] = new
      /\ \A x \in Requests \ {r} : request'[x] = request[x]
      /\ MetInv' /\ WizardInv' /\ StepsInv'
      /\ \A t \in tenants : t.id # r
      /\ r \notin welcomed
  <2>1. new.at # "idle" /\ metWith' = metWith /\ UNCHANGED wizardVars
    BY <1>0, <1>1
  <2>2. r \notin {t.id : t \in tenants} /\ (r \in welcomed => request[r].at = "commit")
    BY <1>1, <1>3, <2>1, OneMoves
  <2>3. request[r].at # "commit"
    BY <1>0 DEF q
  <2> QED BY <1>1, <1>3, <2>1, <2>2, <2>3, OneMoves
<1>5. brandingMerged(q) \in SUBSET BrandingKeys
  BY <1>0, <1>2 DEF brandingMerged
<1>6. /\ domain' \in [Settled -> Domains \cup {None}]
      /\ branding' \in [Settled -> SUBSET BrandingKeys]
      /\ acknowledged' \in [Settled -> SUBSET (BrandingKeys \X Requests)]
  <2>1. domain' \in [Settled -> Domains \cup {None}]
    BY <1>0, <1>2
  <2>2. branding' \in [Settled -> SUBSET BrandingKeys]
    BY <1>0, <1>2, <1>5
  <2>3. acknowledged' \in [Settled -> SUBSET (BrandingKeys \X Requests)]
    BY <1>0, <1>2
  <2> QED BY <2>1, <2>2, <2>3
<1>7. OnboardingTypeOK' /\ IsFiniteSet(welcomed)'
  BY <1>0, <1>4, <1>6 DEF OnboardingIInv, OnboardingTypeOK, wizardVars
<1>8. \A x \in Requests : CarriesInv(request'[x])
  <2>1. CarriesInv(new)
    BY <1>1 DEF CarriesInv, OnboardPoints, UpdatePoints
  <2> QED BY <1>4, <2>1 DEF OnboardingIInv
<1>9. \A t \in Settled : \A a \in acknowledged'[t] :
        a \in acknowledged[t] \/ (a = <<q.key, r>> /\ t = q.tenant /\ q.key # None)
  BY <1>0, <1>2
<1>10. ASSUME NEW x \in Requests PROVE PassedInv(x)'
  <2>1. CASE x # r
    <3>1. PassedInv(x) /\ request'[x] = request[x] /\ CarriesInv(request[x])
      BY <1>4, <2>1 DEF OnboardingIInv
    <3>2. request[x].at \in {"domain", "write"} =>
            /\ r \in metWith[x] /\ x \in metWith[r] /\ request[x].tenant \in Settled
      <4>1. request[x].at \in {"domain", "write"} => underWay(x)
        BY DEF underWay, Ended
      <4> QED BY <1>3, <2>1, <3>1, <4>1 DEF OnboardingIInv, MetInv, CarriesInv, UpdatePoints
    <3>3. request[x].at \in {"domain", "write"} =>
            \A a \in acknowledged'[request[x].tenant] : a[1] \notin request[x].read => metWith[a[2]] # {}
      <4> SUFFICES ASSUME request[x].at \in {"domain", "write"},
                          NEW a \in acknowledged'[request[x].tenant], a[1] \notin request[x].read
                   PROVE  metWith[a[2]] # {}
        OBVIOUS
      <4>1. CASE a \in acknowledged[request[x].tenant]
        BY <3>1, <4>1 DEF PassedInv
      <4>2. CASE a = <<q.key, r>>
        BY <3>2, <4>2
      <4> QED BY <1>9, <3>2, <4>1, <4>2
    <3> QED BY <1>0, <3>1, <3>2, <3>3 DEF PassedInv
  <2>2. CASE x = r
    BY <1>1, <1>4, <2>2 DEF PassedInv
  <2> QED BY <2>1, <2>2
<1>11. BrandingLostOnlyInRaces'
  <2> SUFFICES ASSUME NEW t \in Settled, NEW a \in acknowledged'[t], a[1] \notin branding'[t]
               PROVE  metWith[a[2]] # {}
    BY <1>0 DEF BrandingLostOnlyInRaces
  <2>1. CASE t # q.tenant
    <3>1. branding'[t] = branding[t] /\ a \in acknowledged[t]
      BY <1>0, <1>2, <1>9, <2>1
    <3> QED BY <1>0, <3>1 DEF BrandingLostOnlyInRaces
  <2>2. CASE t = q.tenant /\ q.key = None
    <3>1. branding'[t] = branding[t] /\ a \in acknowledged[t]
      BY <1>0, <1>2, <1>9, <2>2 DEF brandingMerged
    <3> QED BY <1>0, <3>1 DEF BrandingLostOnlyInRaces
  <2>3. CASE t = q.tenant /\ q.key # None
    <3>1. branding'[t] = q.read \cup {q.key}
      BY <1>0, <1>2, <2>3 DEF brandingMerged
    <3>2. a \in acknowledged[t]
      BY <1>9, <3>1
    <3> QED BY <1>p, <2>3, <3>1, <3>2
  <2> QED BY <2>1, <2>2, <2>3
<1>t. \A t \in tenants : t.id \in Requests /\ request'[t.id] = request[t.id]
  BY <1>4 DEF OnboardingIInv, OnboardingTypeOK, Tenant
<1>12. TenantsInv' /\ SharedEmailNeedsOverlap'
  BY <1>0, <1>t DEF OnboardingIInv, TenantsInv, SharedEmailNeedsOverlap
<1>13. WelcomeMeansWorkspace' /\ IndexStopsOnlyRaces'
  BY <1>0, <1>1, <1>4 DEF OnboardingIInv, OnboardingTypeOK, WelcomeMeansWorkspace, IndexStopsOnlyRaces
<1>14. OwnersInv'
  <2>1. \A x \in Requests : request'[x].at = "commit" => request'[x] = request[x]
    BY <1>1, <1>4
  <2> QED BY <2>1, OwnersQuiet DEF OnboardingIInv
<1> QED BY <1>4, <1>7, <1>8, <1>10, <1>11, <1>12, <1>13, <1>14 DEF OnboardingIInv

\* A request arrives and meets those that are under way; the wizard may have sent it.
LEMMA ArriveStep ==
  ASSUME OnboardingIInv, NEW r \in Requests, NEW body \in Request, Arrives(r, body),
         body.at \in {"subdomain", "read", "invalid", "forbidden"}, CarriesInv(body),
         UNCHANGED <<tenants, permissions, straddled, welcomed, profileVars>>,
         \/ UNCHANGED wizardVars
         \/ /\ wizardShown /\ ~wizardSubmitting
            /\ wizardSubmitting' = TRUE /\ apiError' = None
            /\ sentByWizard' = sentByWizard \cup {r} /\ waitingFor' = waitingFor \cup {r}
            /\ UNCHANGED <<step, filledIn, result, session, answerLost>>
  PROVE  OnboardingIInv'
<1>0. /\ request \in [Requests -> Request] /\ metWith \in [Requests -> SUBSET Requests]
      /\ request[r].at = "idle" /\ request' = [request EXCEPT ![r] = body]
      /\ metWith' = [q \in Requests |->
                       IF q = r THEN {x \in Requests : underWay(x)}
                       ELSE IF underWay(q) THEN metWith[q] \cup {r} ELSE metWith[q]]
      /\ UNCHANGED <<tenants, permissions, straddled, welcomed, domain, branding, acknowledged>>
      /\ MetInv /\ tenants \subseteq Tenant /\ TenantsInv /\ WelcomeMeansWorkspace
      /\ acknowledged \in [Settled -> SUBSET (BrandingKeys \X Requests)]
  BY DEF OnboardingIInv, OnboardingTypeOK, Arrives, profileVars
<1>1. /\ request' \in [Requests -> Request] /\ request'[r] = body
      /\ \A x \in Requests \ {r} : request'[x] = request[x]
  BY <1>0
<1>2. /\ metWith' \in [Requests -> SUBSET Requests]
      /\ \A x \in Requests : metWith[x] \subseteq metWith'[x]
  <2>1. metWith[r] = {}
    BY <1>0 DEF MetInv
  <2>2. \A x \in Requests : metWith'[x] \in SUBSET Requests /\ metWith[x] \subseteq metWith'[x]
    BY <1>0, <2>1
  <2> QED BY <1>0, <2>2
<1>3. MetInv'
  <2>1. ASSUME NEW x \in Requests, NEW y \in Requests, x # y, underWay(x)', underWay(y)'
        PROVE  x \in metWith'[y]
    <3>1. CASE x # r /\ y # r
      BY <1>0, <1>1, <1>2, <2>1, <3>1 DEF MetInv, underWay
    <3>2. CASE x = r
      BY <1>0, <1>1, <2>1, <3>2 DEF underWay
    <3>3. CASE y = r
      BY <1>0, <1>1, <2>1, <3>3 DEF underWay
    <3> QED BY <3>1, <3>2, <3>3
  <2>2. ASSUME NEW x \in Requests, request'[x].at = "idle" PROVE metWith'[x] = {}
    <3>1. x # r
      BY <1>1, <2>2
    <3>2. request[x].at = "idle" /\ ~underWay(x) /\ metWith[x] = {}
      BY <1>0, <1>1, <2>2, <3>1 DEF MetInv, underWay
    <3> QED BY <1>0, <3>1, <3>2
  <2> QED BY <2>1, <2>2 DEF MetInv
<1>4. OnboardingTypeOK' /\ IsFiniteSet(welcomed)'

     <2>1. wizardSubmitting' \in BOOLEAN /\ answerLost' \in BOOLEAN /\ permissions' \subseteq Permissions /\ straddled' \subseteq Permissions
    BY Zenon DEF OnboardingIInv, OnboardingTypeOK, wizardVars
  <2>2. step' \in 1..5 /\ filledIn' \in [InputSteps -> BOOLEAN] /\ session' \in {None, "open", "none"}
    BY DEF OnboardingIInv, OnboardingTypeOK, wizardVars
  <2>3. waitingFor' \subseteq sentByWizard' /\ sentByWizard' \subseteq Requests
    BY DEF OnboardingIInv, OnboardingTypeOK, wizardVars
  <2>4. /\ welcomed' \subseteq Requests /\ domain' \in [Settled -> Domains \cup {None}]
        /\ branding' \in [Settled -> SUBSET BrandingKeys] /\ IsFiniteSet(welcomed)'
    BY <1>0 DEF OnboardingIInv, OnboardingTypeOK
  <2> QED BY <1>0, <1>1, <1>2, <2>1, <2>2, <2>3, <2>4 DEF OnboardingTypeOK
<1>5. \A x \in Requests : CarriesInv(request'[x])
  BY <1>1 DEF OnboardingIInv
<1>a. \A t \in Settled : \A a \in acknowledged[t] : a[2] \in Requests
  BY <1>0
<1>t. \A t \in tenants : t.id \in Requests /\ t.id # r /\ request'[t.id] = request[t.id]
  BY <1>0, <1>1 DEF TenantsInv, Tenant
<1>6. ASSUME NEW x \in Requests PROVE PassedInv(x)'
  <2>1. CASE x = r
    BY <1>1, <2>1 DEF PassedInv
  <2>2. CASE x # r
    <3>1. PassedInv(x) /\ CarriesInv(request[x]) /\ request'[x] = request[x]
      BY <1>1, <2>2 DEF OnboardingIInv
    <3>2. request[x].at \in {"email", "provision"} =>
            \A t \in tenants' : t.sub = request'[x].sub => t.id \in metWith'[x]
      BY <1>0, <1>2, <3>1 DEF PassedInv
    <3>3. request[x].at \in {"provision", "commit"} =>
            \A t \in tenants' : t.mail = request'[x].mail => t.id \in metWith'[x] /\ x \in metWith'[t.id]
      BY <1>0, <1>2, <1>t, <3>1 DEF PassedInv
    <3>4. request[x].at \in {"domain", "write"} =>
            \A a \in acknowledged'[request[x].tenant] : a[1] \notin request[x].read => metWith'[a[2]] # {}
      <4>1. request[x].at \in {"domain", "write"} => request[x].tenant \in Settled
        BY <3>1 DEF CarriesInv, UpdatePoints
      <4> QED BY <1>0, <1>2, <1>a, <3>1, <4>1 DEF PassedInv
    <3>5. metWith[x] # {} => metWith'[x] # {}
      BY <1>2
    <3> QED BY <1>0, <3>1, <3>2, <3>3, <3>4, <3>5 DEF PassedInv, taken
  <2> QED BY <2>1, <2>2
<1>7. TenantsInv' /\ SharedEmailNeedsOverlap' /\ OwnersInv'
  BY <1>0, <1>2, <1>t DEF OnboardingIInv, TenantsInv, SharedEmailNeedsOverlap, OwnersInv,
                          OwnersMissOnlyStraddled
<1>8. WelcomeMeansWorkspace' /\ IndexStopsOnlyRaces' /\ BrandingLostOnlyInRaces'
  <2>1. \A x \in welcomed : x \in Requests
    BY DEF OnboardingIInv, OnboardingTypeOK
  <2>2. WelcomeMeansWorkspace'
    BY <1>0, <1>1, <2>1 DEF WelcomeMeansWorkspace, TenantsInv
  <2>3. IndexStopsOnlyRaces'
    BY <1>1, <1>2 DEF OnboardingIInv, IndexStopsOnlyRaces
  <2>4. BrandingLostOnlyInRaces'
    BY <1>0, <1>2, <1>a DEF OnboardingIInv, BrandingLostOnlyInRaces
  <2> QED BY <2>2, <2>3, <2>4
<1>9. StepsInv'
  BY DEF OnboardingIInv, StepsInv, wizardVars
<1>10. WizardInv'
  <2>1. WizardInv /\ sentByWizard \subseteq Requests /\ waitingFor \subseteq sentByWizard
    BY DEF OnboardingIInv, OnboardingTypeOK
  <2>2. \A x \in Requests : request[x].at \in Ended \ {"created"} => request'[x] = request[x]
    BY <1>0, <1>1 DEF Ended
  <2>3. CASE UNCHANGED wizardVars
    BY <2>1, <2>2, <2>3 DEF WizardInv, wizardVars
  <2>4. CASE ~UNCHANGED wizardVars
    <3>1. /\ result = None /\ result' = None /\ waitingFor = {} /\ waitingFor' = {r}
          /\ wizardSubmitting' = TRUE /\ apiError' = None /\ answerLost' = answerLost
          /\ sentByWizard' \ waitingFor' \subseteq sentByWizard \ waitingFor
      BY <2>1, <2>4 DEF WizardInv, wizardShown
    <3> QED BY <2>1, <2>2, <3>1 DEF WizardInv
  <2> QED BY <2>3, <2>4
<1> QED BY <1>3, <1>4, <1>5, <1>6, <1>7, <1>8, <1>9, <1>10 DEF OnboardingIInv

\* The requests as they are made.
LEMMA Bodies ==
  /\ \A sub \in Subdomains, mail \in Emails :
       /\ onboard(sub, mail) \in Request /\ onboard(sub, mail).at = "subdomain"
       /\ CarriesInv(onboard(sub, mail))
  /\ \A valid \in BOOLEAN : /\ wizardBody(valid) \in Request /\ CarriesInv(wizardBody(valid))
                            /\ wizardBody(valid).at \in {"subdomain", "invalid"}
<1>1. NoRequest \in Request
  BY DEF NoRequest, Request, Ended, OnboardPoints, UpdatePoints
<1>2. ASSUME NEW sub \in Subdomains, NEW mail \in Emails, NEW at \in {"subdomain", "invalid"}
      PROVE  LET b == [NoRequest EXCEPT !.at = at, !.sub = sub, !.mail = mail]
             IN b \in Request /\ b.at = at /\ CarriesInv(b)
  <2> DEFINE b == [NoRequest EXCEPT !.at = at, !.sub = sub, !.mail = mail]
  <2>1. b \in Request /\ b.at = at /\ b.sub = sub /\ b.mail = mail
    BY <1>1 DEF Request, Ended, OnboardPoints, UpdatePoints
  <2> HIDE DEF b
  <2>2. CarriesInv(b)
    BY <2>1 DEF CarriesInv, OnboardPoints, UpdatePoints
  <2> QED BY <2>1, <2>2 DEF b
<1>3. WizardSub \in Subdomains /\ WizardMail \in Emails
  BY OnboardingAssumption
<1> QED BY <1>2, <1>3 DEF onboard, wizardBody

\* Onboardings from elsewhere, updates, and the wizard's submission.
LEMMA ArrivalSteps ==
  ASSUME OnboardingIInv, NEW r \in Requests,
         \/ \E sub \in Subdomains, mail \in Emails : OthersOnboard(r, sub, mail)
         \/ \E valid \in BOOLEAN : HandleSubmit(r, valid)
         \/ /\ \E q, t \in Settled, d \in Domains \cup {None}, k \in BrandingKeys \cup {None} :
                 UpdateTenant(r, q, t, d, k)
            /\ UNCHANGED <<tenants, permissions, straddled, welcomed, profileVars, wizardVars>>
  PROVE  OnboardingIInv'
<1>1. ASSUME NEW sub \in Subdomains, NEW mail \in Emails, OthersOnboard(r, sub, mail)
      PROVE  OnboardingIInv'
  BY <1>1, Bodies, ArriveStep DEF OthersOnboard, rights
<1>2. ASSUME NEW valid \in BOOLEAN, HandleSubmit(r, valid)
      PROVE  OnboardingIInv'
  BY <1>2, Bodies, ArriveStep DEF HandleSubmit, rights
<1>3. ASSUME NEW q \in Settled, NEW t \in Settled, NEW d \in Domains \cup {None},
             NEW k \in BrandingKeys \cup {None}, UpdateTenant(r, q, t, d, k),
             UNCHANGED <<tenants, permissions, straddled, welcomed, profileVars, wizardVars>>
      PROVE  OnboardingIInv'
  <2> DEFINE b == [NoRequest EXCEPT !.at = IF q = t THEN "read" ELSE "forbidden",
                                    !.tenant = t, !.domain = d, !.key = k]
  <2>1. b \in Request /\ b.at \in {"read", "forbidden"} /\ b.tenant = t /\ Arrives(r, b)
    BY <1>3 DEF UpdateTenant, NoRequest, Request, Ended, OnboardPoints, UpdatePoints
  <2> HIDE DEF b
  <2>2. CarriesInv(b)
    BY <2>1 DEF CarriesInv, OnboardPoints, UpdatePoints
  <2> QED BY <1>3, <2>1, <2>2, ArriveStep
<1> QED BY <1>1, <1>2, <1>3

\* What the wizard does by itself.
LEMMA WizardStep ==
  ASSUME OnboardingIInv, WizardRuns
  PROVE  OnboardingIInv'
<1>0. /\ UNCHANGED <<request, tenants, permissions, straddled, welcomed, metWith, domain, branding,
                     acknowledged>>
      /\ WizardInv /\ StepsInv /\ step \in 1..5 /\ filledIn \in [InputSteps -> BOOLEAN]
      /\ waitingFor \subseteq sentByWizard /\ sentByWizard \subseteq Requests
      /\ session \in {None, "open", "none"}
  BY DEF WizardRuns, serverVars, rights, profileVars, OnboardingIInv, OnboardingTypeOK
<1>1. /\ \A x \in Requests : CarriesInv(request'[x]) /\ PassedInv(x)'
      /\ MetInv' /\ TenantsInv' /\ SharedEmailNeedsOverlap' /\ WelcomeMeansWorkspace'
      /\ OwnersInv' /\ IndexStopsOnlyRaces' /\ BrandingLostOnlyInRaces' /\ IsFiniteSet(welcomed)'
  <2>1. \A x \in Requests : CarriesInv(request'[x]) /\ PassedInv(x)'
    BY <1>0 DEF OnboardingIInv, PassedInv, taken
  <2>2. MetInv' /\ IndexStopsOnlyRaces' /\ BrandingLostOnlyInRaces' /\ IsFiniteSet(welcomed)'
    BY <1>0 DEF OnboardingIInv, MetInv, underWay, IndexStopsOnlyRaces, BrandingLostOnlyInRaces
  <2>3. TenantsInv' /\ SharedEmailNeedsOverlap' /\ WelcomeMeansWorkspace' /\ OwnersInv'
    BY <1>0 DEF OnboardingIInv, TenantsInv, SharedEmailNeedsOverlap, WelcomeMeansWorkspace,
       OwnersInv, OwnersMissOnlyStraddled
  <2> QED BY <2>1, <2>2, <2>3
<1>2. ASSUME step' \in 1..5, filledIn' \in [InputSteps -> BOOLEAN], wizardSubmitting' \in BOOLEAN,
             answerLost' \in BOOLEAN, session' \in {None, "open", "none"},
             waitingFor' \subseteq sentByWizard', sentByWizard' = sentByWizard,
             WizardInv', StepsInv'
      PROVE  OnboardingIInv'
  <2>1. permissions' \subseteq Permissions /\ straddled' \subseteq Permissions
    BY <1>0, Zenon DEF OnboardingIInv, OnboardingTypeOK
  <2>2. OnboardingTypeOK'
    BY <1>0, <1>2, <2>1 DEF OnboardingIInv, OnboardingTypeOK
  <2> QED BY <1>1, <1>2, <2>2 DEF OnboardingIInv
<1>3. \A n \in 1..4 : /\ STEPS[n] \in InputSteps
                      /\ \A m \in 1..4 : STEPS[n] = STEPS[m] => n = m
  BY DEF STEPS, InputSteps
<1>b. wizardSubmitting \in BOOLEAN /\ answerLost \in BOOLEAN
  BY DEF OnboardingIInv, OnboardingTypeOK
<1>r. restOfWizard => /\ wizardSubmitting' \in BOOLEAN /\ answerLost' \in BOOLEAN
                      /\ session' \in {None, "open", "none"} /\ waitingFor' \subseteq sentByWizard'
                      /\ sentByWizard' = sentByWizard /\ WizardInv'
  <2>1. restOfWizard => wizardSubmitting' \in BOOLEAN /\ answerLost' \in BOOLEAN
    BY <1>b, Zenon DEF restOfWizard
  <2> QED BY <1>0, <2>1 DEF restOfWizard, WizardInv
<1>4. ASSUME NEW valid \in BOOLEAN, FillIn(valid) PROVE OnboardingIInv'
  <2>1. /\ step' = step /\ step < 5 /\ restOfWizard
        /\ filledIn' = [filledIn EXCEPT ![STEPS[step]] = valid]
    BY <1>4 DEF FillIn
  <2>2. filledIn' \in [InputSteps -> BOOLEAN]
    BY <1>0, <2>1
  <2>3. \A n \in 1..4 : n < step => filledIn'[STEPS[n]] = filledIn[STEPS[n]]
    BY <1>0, <1>3, <2>1
  <2>4. StepsInv'
    BY <1>0, <2>1, <2>3 DEF StepsInv
  <2> QED BY <1>0, <1>2, <1>r, <2>1, <2>2, <2>4
<1>5. CASE NextStep \/ PrevStep
  <2>1. /\ filledIn' = filledIn /\ restOfWizard /\ step' \in 1..5
        /\ \/ step' = step + 1 /\ step < 5 /\ filledIn[STEPS[step]]
           \/ step' = step - 1
    BY <1>0, <1>5 DEF NextStep, PrevStep, validateStep
  <2>2. StepsInv'
    BY <1>0, <2>1 DEF StepsInv
  <2> QED BY <1>0, <1>2, <1>r, <2>1, <2>2
<1>6. ASSUME NEW r \in Requests, HearOnboarded(r) \/ HearRefusal(r) \/ LoseOnboardAnswer(r)
      PROVE  OnboardingIInv'
  <2>1. /\ UNCHANGED <<step, filledIn, session, sentByWizard>> /\ awaited(r)
        /\ waitingFor' = waitingFor \ {r}
    BY <1>6 DEF HearOnboarded, HearRefusal, LoseOnboardAnswer
  <2>2. /\ waitingFor' = {} /\ result = None /\ apiError = None /\ r \in waitingFor
    BY <1>0, <2>1 DEF WizardInv, awaited
  <2>3. sentByWizard' \ waitingFor' = (sentByWizard \ waitingFor) \cup {r}
    BY <1>0, <2>1, <2>2 DEF WizardInv
  <2>4. wizardSubmitting' \in BOOLEAN /\ answerLost' \in BOOLEAN
    BY <1>6, <1>b, Zenon DEF HearOnboarded, HearRefusal, LoseOnboardAnswer
  <2>5. WizardInv'
    <3>1. CASE HearOnboarded(r)
      <4>1. result' = r /\ r # None /\ apiError' = apiError
        BY <3>1, OnboardingAssumption DEF HearOnboarded
      <4> QED BY <2>2, <4>1 DEF WizardInv
    <3>2. CASE HearRefusal(r)
      <4>1. result' = None /\ answerLost' = answerLost /\ request'[r].at \in Ended \ {"created"}
        BY <1>0, <2>2, <3>2 DEF HearRefusal
      <4> QED BY <1>0, <2>2, <2>3, <4>1 DEF WizardInv
    <3>3. CASE LoseOnboardAnswer(r)
      <4>1. result' = None /\ answerLost' = TRUE
        BY <2>2, <3>3 DEF LoseOnboardAnswer
      <4> QED BY <2>2, <4>1 DEF WizardInv
    <3> QED BY <1>6, <3>1, <3>2, <3>3
  <2>6. StepsInv'
    BY <1>0, <2>1 DEF StepsInv
  <2> QED BY <1>0, <1>2, <2>1, <2>2, <2>4, <2>5, <2>6
<1>7. ASSUME NEW ok \in BOOLEAN, AutoLogin(ok) PROVE OnboardingIInv'
  <2>1. /\ UNCHANGED <<step, filledIn, result, apiError, sentByWizard, waitingFor, answerLost>>
        /\ result # None /\ session' \in {None, "open", "none"}
    BY <1>7 DEF AutoLogin
  <2>2. wizardSubmitting' \in BOOLEAN /\ answerLost' \in BOOLEAN
    BY <1>7, <1>b, Zenon DEF AutoLogin
  <2>3. WizardInv'
    BY <1>0, <2>1 DEF WizardInv
  <2>4. StepsInv'
    BY <1>0, <2>1 DEF StepsInv
  <2> QED BY <1>0, <1>2, <2>1, <2>2, <2>3, <2>4
<1> QED BY <1>4, <1>5, <1>6, <1>7 DEF WizardRuns

\* Every step of the platform keeps the invariant.
LEMMA OnboardingNextIInv ==
  OnboardingIInv /\ [PlatformNext \/ WizardNext \/ ProfileNext]_onboardingVars => OnboardingIInv'
<1> SUFFICES ASSUME OnboardingIInv, [PlatformNext \/ WizardNext \/ ProfileNext]_onboardingVars
             PROVE  OnboardingIInv'
  OBVIOUS
<1>1. CASE OnboardingRuns
  <2>1. PICK r \in Requests : CheckSubdomain(r) \/ CheckEmail(r) \/ ProvisionTenant(r) \/ CommitTenant(r)
    BY <1>1 DEF OnboardingRuns
  <2>2. UNCHANGED <<profileVars, wizardVars>>
    BY <1>1 DEF OnboardingRuns
  <2> QED BY <2>1, <2>2, LookStep, ProvisionStep, CommitTenantStep
<1>2. CASE \E r \in Requests, sub \in Subdomains, mail \in Emails : OthersOnboard(r, sub, mail)
  BY <1>2, ArrivalSteps
<1>3. CASE (\E p \in Permissions : MigrationRuns(p)) /\ UNCHANGED <<profileVars, wizardVars>>
  BY <1>3, MigrationStep
<1>4. CASE WizardRuns
  BY <1>4, WizardStep
<1>5. CASE \E r \in Requests, valid \in BOOLEAN : HandleSubmit(r, valid)
  BY <1>5, ArrivalSteps
<1>6. CASE ProfileNext
  <2>1. UNCHANGED <<tenants, permissions, straddled, welcomed, wizardVars>>
    BY <1>6 DEF ProfileNext, rights
  <2>2. CASE /\ \E r \in Requests, q, t \in Settled, d \in Domains \cup {None},
                   k \in BrandingKeys \cup {None} : UpdateTenant(r, q, t, d, k)
             /\ UNCHANGED profileVars
    BY <2>1, <2>2, ArrivalSteps
  <2>3. CASE (\E r \in Requests : ReadTenant(r) \/ CheckDomain(r)) /\ UNCHANGED profileVars
    BY <2>1, <2>3, UpdateLookStep
  <2>4. ASSUME NEW r \in Requests, WriteTenant(r) PROVE OnboardingIInv'
    <3>1. CASE Goto(r, "clash")
      <4>1. UNCHANGED profileVars
        <5>1. ~Goto(r, "updated")
          <6>1. request \in [Requests -> Request] /\ request[r] \in Request
            BY DEF OnboardingIInv, OnboardingTypeOK
          <6>2. request'[r].at = "clash"
            BY <3>1, <6>1 DEF Goto, Request
          <6>3. Goto(r, "updated") => request'[r].at = "updated"
            BY <6>1 DEF Goto, Request
          <6> QED BY <6>2, <6>3
        <5> QED BY <2>4, <5>1 DEF WriteTenant, profileVars
      <4> QED BY <2>1, <2>4, <3>1, <4>1, UpdateLookStep
    <3>2. CASE ~Goto(r, "clash")
      BY <2>1, <2>4, <3>2, WriteStep
    <3> QED BY <3>1, <3>2
  <2> QED BY <1>6, <2>2, <2>3, <2>4 DEF ProfileNext
<1>7. CASE UNCHANGED onboardingVars
  <2>1. UNCHANGED <<serverVars, profileVars, wizardVars>>
    BY <1>7 DEF onboardingVars
  <2>2. /\ UNCHANGED <<request, tenants, permissions, straddled, welcomed, metWith, domain, branding,
                       acknowledged>>
        /\ UNCHANGED <<step, filledIn, wizardSubmitting, result, apiError, session, sentByWizard,
                       waitingFor, answerLost>>
    BY <2>1 DEF serverVars, rights, profileVars, wizardVars
  <2>3. \A x \in Requests : CarriesInv(request'[x]) /\ PassedInv(x)'
    BY <2>2 DEF OnboardingIInv, PassedInv, taken
  <2>4. OnboardingTypeOK' /\ IsFiniteSet(welcomed)'
    BY <2>2 DEF OnboardingIInv, OnboardingTypeOK
  <2>5. MetInv' /\ IndexStopsOnlyRaces' /\ BrandingLostOnlyInRaces' /\ WizardInv' /\ StepsInv'
    BY <2>2 DEF OnboardingIInv, MetInv, underWay, IndexStopsOnlyRaces, BrandingLostOnlyInRaces,
       WizardInv, StepsInv
  <2>6. TenantsInv' /\ SharedEmailNeedsOverlap' /\ WelcomeMeansWorkspace' /\ OwnersInv'
    BY <2>2 DEF OnboardingIInv, TenantsInv, SharedEmailNeedsOverlap, WelcomeMeansWorkspace,
       OwnersInv, OwnersMissOnlyStraddled
  <2> QED BY <2>3, <2>4, <2>5, <2>6 DEF OnboardingIInv
<1> QED BY <1>1, <1>2, <1>3, <1>4, <1>5, <1>6, <1>7 DEF PlatformNext, WizardNext, OnboardingNext

\* executeOnboarding, updateTenant and the wizard: whatever requests overlap and answers
\* are lost, an address is shared, a unique index met or a branding key lost only in a
\* race, an owner misses only permissions brought beside an open transaction, and a
\* conflict with oneself needs a lost answer.
THEOREM OnboardingCorrect == OnboardingSpec => []OnboardingInv
<1>1. OnboardingIInv => OnboardingInv
  <2> SUFFICES ASSUME OnboardingIInv PROVE OnboardingInv
    OBVIOUS
  <2>1. SubmittedIsValidated
    <3>1. step = 5 => \A n \in 1..4 : filledIn[STEPS[n]]
      BY DEF OnboardingIInv, StepsInv
    <3> QED BY <3>1 DEF SubmittedIsValidated, InputSteps
  <2>2. OwnConflictNeedsLostAnswer
    <3> SUFFICES ASSUME apiError = "conflict", ~answerLost, NEW t \in tenants, t.id \in sentByWizard
                 PROVE  FALSE
      BY DEF OwnConflictNeedsLostAnswer
    <3>1. apiError # None
      BY OnboardingAssumption DEF Ended
    <3>2. result = None /\ waitingFor = {}
      BY <3>1 DEF OnboardingIInv, WizardInv
    <3>3. request[t.id].at # "created"
      BY <3>2 DEF OnboardingIInv, WizardInv
    <3> QED BY <3>3 DEF OnboardingIInv, TenantsInv
  <2> QED BY <2>1, <2>2 DEF OnboardingIInv, OwnersInv, OnboardingInv
<1> QED BY <1>1, OnboardingInitIInv, OnboardingNextIInv, PTL DEF OnboardingSpec
=============================================================================
