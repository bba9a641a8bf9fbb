---------------------------- MODULE OfflineQueue ----------------------------
(***************************************************************************)
(* The cashier terminal (apps/cashier, CashierTerminal.tsx) and its        *)
(* service worker (public/sw.js). A checkout is posted when the browser is *)
(* online; when that fails, or offline, the sale is kept in IndexedDB as   *)
(* PENDING_SYNC and the service worker posts it again.  Page and worker    *)
(* run side by side over one object store.                                 *)
(*                                                                         *)
(* The cart is counted in items of one product.  A record of the store is  *)
(* its key ("offline-<ms>", or the id the server gave), the sale it stands *)
(* for and its status.                                                     *)
(***************************************************************************)
EXTENDS ClientRequests, Naturals, FiniteSets

CONSTANTS
  Sales,      \* the checkouts the cashier may start
  Syncs,      \* runs of the worker's syncPendingOrders that can be under way
  MaxCart,    \* bound on the items in the cart
  MaxAsked,   \* bound on the sync requests waiting at the worker; more are as one
  MaxTimers   \* bound on the timers of triggerServiceWorkerSync, likewise

VARIABLES
  isOnline, hasSyncManager,
  worker,          \* what the browser and register('/sw.js') came to: "none", "unready", "ready"
  tenantKnown,     \* the staff session names its tenant
  cart,
  sale,            \* per checkout: its phase and what handleCheckout holds across awaits
  placed,          \* per checkout: the orders the server made of it
  store,           \* the IndexedDB object store: a set of records
  offlineOrders,   \* the page's copy of the store
  isSyncing, timers,
  register,        \* the last sync.register: "fine", "failing", or "refused"
  effectDue,       \* the auto-sync effect runs after the next render
  asked,           \* sync events or messages the worker has not taken up
  sync             \* per run of the worker: the records it read and what it is at

terminal == <<hasSyncManager, worker, tenantKnown>>
trigger == <<isSyncing, timers, register>>
pageVars == <<cart, sale, offlineOrders, trigger, effectDue>>
cashierVars == <<isOnline, terminal, pageVars, placed, store, asked, sync>>

offlineKey(a) == <<"offline", a>>
serverKey(a) == <<"server", a>>
record(key, a, status) == [key |-> key, sale |-> a, status |-> status]
pendingIn(records) == {r \in records : r.status = "PENDING_SYNC"}

Records ==
  {record(k[1], k[2], st) :
     k \in {<<offlineKey(a), a>> : a \in Sales} \cup {<<serverKey(a), a>> : a \in Sales},
     st \in {"PENDING_SYNC", "SYNCED", "FAILED"}}

\* What handleCheckout holds across its awaits, and what a run of the worker holds.
Sale ==
  [phase : {"none", "sent", "taken", "saving", "done", "gone"},
   status : {None, "PENDING_SYNC", "SYNCED"},
   key : {None} \cup {offlineKey(a) : a \in Sales} \cup {serverKey(a) : a \in Sales},
   offline : BOOLEAN, wasSyncing : BOOLEAN]
SyncRun == [todo : SUBSET Records, at : Records \cup {None}, ok : BOOLEAN]

ASSUME CashierAssumption ==
  /\ MaxCart \in Nat /\ MaxAsked \in Nat \ {0} /\ MaxTimers \in Nat
  /\ None \notin Records

NoSale == [phase |-> "none", status |-> None, key |-> None, offline |-> FALSE, wasSyncing |-> FALSE]
Idle == [todo |-> {}, at |-> None, ok |-> FALSE]

OfflineQueueTypeOK ==
  /\ isOnline \in BOOLEAN /\ hasSyncManager \in BOOLEAN
  /\ worker \in {"none", "unready", "ready"} /\ tenantKnown \in BOOLEAN
  /\ cart \in 0..MaxCart
  /\ sale \in [Sales -> Sale]
  /\ placed \in [Sales -> Nat]
  /\ store \subseteq Records /\ offlineOrders \subseteq Records
  /\ isSyncing \in BOOLEAN /\ timers \in 0..MaxTimers /\ effectDue \in BOOLEAN
  /\ register \in {"fine", "failing", "refused"}
  /\ asked \in 0..MaxAsked
  /\ sync \in [Syncs -> SyncRun]

\* An opened terminal: the first effect has loaded an empty store.
OfflineQueueInit ==
  /\ isOnline \in BOOLEAN /\ hasSyncManager \in BOOLEAN
  /\ worker \in {"none", "unready", "ready"} /\ tenantKnown \in BOOLEAN
  /\ cart = 0
  /\ sale = [a \in Sales |-> NoSale]
  /\ placed = [a \in Sales |-> 0]
  /\ store = {} /\ offlineOrders = {}
  /\ isSyncing = FALSE /\ timers = 0 /\ effectDue = TRUE
  /\ register = "fine" /\ asked = 0
  /\ sync = [y \in Syncs |-> Idle]

\* store.put under keyPath 'id'.
putOrder(records, r) == {x \in records : x.key # r.key} \cup {r}

AtMost(n, bound) == IF n > bound THEN bound ELSE n

\* sync.register keeps one registration for its tag, postMessage sends a message each time.
AskWorker == asked' = IF hasSyncManager THEN 1 ELSE AtMost(asked + 1, MaxAsked)
-----------------------------------------------------------------------------
(* The page. *)

startTimer == timers' = AtMost(timers + 1, MaxTimers)

\* The isSyncing that a closure sees is the one of the render it was made in.
\* A browser without workers gets the timer only; where the worker could not be
\* registered, serviceWorker.ready does not resolve; sync.register may be refused.
triggerServiceWorkerSync(seenSyncing) ==
  IF seenSyncing THEN UNCHANGED <<trigger, asked>>
  ELSE /\ isSyncing' = TRUE
       /\ \/ worker = "none" /\ startTimer /\ UNCHANGED <<register, asked>>
          \/ worker = "unready" /\ UNCHANGED <<timers, register, asked>>
          \/ /\ worker = "ready" /\ startTimer /\ AskWorker
             /\ register' = IF register = "failing" THEN register ELSE "fine"
          \/ /\ worker = "ready" /\ hasSyncManager
             /\ register' = "failing" /\ UNCHANGED <<timers, asked>>

AddToCart ==
  /\ cart < MaxCart
  /\ cart' = cart + 1
  /\ UNCHANGED <<isOnline, terminal, sale, placed, store, offlineOrders, trigger,
                 effectDue, asked, sync>>

\* The browser's online and offline events.
ConnectivityChanges ==
  /\ isOnline' = ~isOnline
  /\ effectDue' = TRUE
  /\ UNCHANGED <<terminal, cart, sale, placed, store, offlineOrders, trigger, asked,
                 sync>>

\* Nothing disables the button while a checkout is under way.
HandleCheckout(a) ==
  /\ cart > 0 /\ sale[a].phase = "none"
  /\ sale' = [sale EXCEPT ![a] =
       IF isOnline THEN [NoSale EXCEPT !.phase = "sent", !.wasSyncing = isSyncing]
       ELSE [NoSale EXCEPT !.phase = "saving", !.status = "PENDING_SYNC", !.key = offlineKey(a),
                           !.offline = TRUE]]
  /\ UNCHANGED <<isOnline, terminal, cart, placed, store, offlineOrders, trigger,
                 effectDue, asked, sync>>

\* The request carries the CSRF header; the token may have expired.
ServerTakesSale(a) ==
  /\ sale[a].phase = "sent" /\ passesGuards(TRUE, TRUE)
  /\ sale' = [sale EXCEPT ![a].phase = "taken"]
  /\ placed' = [placed EXCEPT ![a] = @ + 1]
  /\ UNCHANGED <<isOnline, terminal, cart, store, offlineOrders, trigger,
                 effectDue, asked, sync>>

AnswerArrives(a) ==
  /\ sale[a].phase = "taken"
  /\ sale' = [sale EXCEPT ![a].phase = "saving", ![a].status = "SYNCED", ![a].key = serverKey(a)]
  /\ UNCHANGED <<isOnline, terminal, cart, placed, store, offlineOrders, trigger,
                 effectDue, asked, sync>>

\* The server refused, or the request or its answer was lost.
CheckoutFails(a) ==
  /\ sale[a].phase \in {"sent", "taken"}
  /\ sale' = [sale EXCEPT ![a].phase = "saving", ![a].status = "PENDING_SYNC",
                          ![a].key = offlineKey(a)]
  /\ UNCHANGED <<isOnline, terminal, cart, placed, store, offlineOrders, trigger,
                 effectDue, asked, sync>>

\* The record is written, the list is read again, the cart is emptied (of what was
\* added since the click as well) and the worker is asked to sync what was not placed.
SaveOfflineOrder(a) ==
  /\ sale[a].phase = "saving"
  /\ sale' = [sale EXCEPT ![a].phase = "done"]
  /\ store' = putOrder(store, record(sale[a].key, a, sale[a].status))
  /\ offlineOrders' = store' /\ effectDue' = TRUE
  /\ cart' = 0
  /\ IF sale[a].offline
     THEN /\ (worker = "ready" /\ hasSyncManager /\ AskWorker) \/ asked' = asked
          /\ UNCHANGED trigger
     ELSE triggerServiceWorkerSync(sale[a].status = "SYNCED" \/ sale[a].wasSyncing)
  /\ UNCHANGED <<isOnline, terminal, placed, sync>>

\* The effect over [isOnline, offlineOrders].
AutoSync ==
  /\ effectDue
  /\ effectDue' = FALSE
  /\ IF isOnline /\ pendingIn(offlineOrders) # {} THEN triggerServiceWorkerSync(isSyncing)
     ELSE UNCHANGED <<trigger, asked>>
  /\ UNCHANGED <<isOnline, terminal, cart, sale, placed, store, offlineOrders, sync>>

SyncNow ==
  /\ isOnline /\ pendingIn(offlineOrders) # {} /\ ~isSyncing
  /\ triggerServiceWorkerSync(isSyncing)
  /\ UNCHANGED <<isOnline, terminal, cart, sale, placed, store, offlineOrders,
                 effectDue, sync>>

\* Mutant: isSyncing is not reset.
TimerKeepsSyncing ==
  /\ timers > 0
  /\ timers' = timers - 1
  /\ offlineOrders' = store /\ effectDue' = TRUE
  /\ UNCHANGED <<isOnline, terminal, cart, sale, placed, store, isSyncing, register, asked,
                 sync>>

\* Two seconds after a trigger.
TimerFires ==
  /\ timers > 0
  /\ timers' = timers - 1
  /\ isSyncing' = FALSE /\ offlineOrders' = store /\ effectDue' = TRUE
  /\ UNCHANGED <<isOnline, terminal, cart, sale, placed, store, register, asked, sync>>

\* The catch of triggerServiceWorkerSync: no timer, and nobody has been asked.
RegisterRefused ==
  /\ register = "failing"
  /\ register' = "refused" /\ isSyncing' = FALSE
  /\ UNCHANGED <<isOnline, terminal, cart, sale, placed, store, offlineOrders, timers,
                 effectDue, asked, sync>>

\* The page is loaded again: what a checkout was waiting for is not heard any more.  A
\* registered worker stays; one that failed to register is tried again.
Reload ==
  /\ cart' = 0
  /\ sale' = [a \in Sales |->
       IF sale[a].phase \in {"sent", "taken", "saving"} THEN [NoSale EXCEPT !.phase = "gone"]
       ELSE sale[a]]
  /\ offlineOrders' = store /\ isSyncing' = FALSE /\ timers' = 0 /\ effectDue' = TRUE
  /\ register' = "fine"
  /\ worker' \in (IF worker = "unready" THEN {"unready", "ready"} ELSE {worker})
  /\ UNCHANGED <<isOnline, hasSyncManager, tenantKnown, placed, store, asked, sync>>
-----------------------------------------------------------------------------
(* The service worker. *)

\* The browser fires one sync event at a time, and only online; messages start
\* a run each.
StartSync(y) ==
  /\ asked > 0 /\ sync[y] = Idle
  /\ hasSyncManager => isOnline /\ \A z \in Syncs : sync[z] = Idle
  /\ asked' = asked - 1
  /\ sync' = [sync EXCEPT ![y].todo = pendingIn(store)]
  /\ UNCHANGED <<isOnline, terminal, pageVars, placed, store>>

\* The worker's request has no CSRF header.
SyncSends(y, r) ==
  /\ r \in sync[y].todo /\ sync[y].at = None /\ tenantKnown
  /\ LET ok == isOnline /\ passesGuards(TRUE, FALSE)
     IN /\ sync' = [sync EXCEPT ![y] = [todo |-> @.todo \ {r}, at |-> r, ok |-> ok]]
        /\ placed' = IF ok THEN [placed EXCEPT ![r.sale] = @ + 1] ELSE placed
  /\ UNCHANGED <<isOnline, terminal, pageVars, store, asked>>

\* A record that names no tenant is passed over, in every run.
SyncSkips(y, r) ==
  /\ r \in sync[y].todo /\ sync[y].at = None /\ ~tenantKnown
  /\ sync' = [sync EXCEPT ![y].todo = @ \ {r}]
  /\ UNCHANGED <<isOnline, terminal, pageVars, placed, store, asked>>

\* A placed order is written under its new id, which leaves the old record; any
\* failure writes FAILED.  ORDER_SYNCED makes the page read the store again.
SyncRecords(y) ==
  /\ sync[y].at # None
  /\ sync' = [sync EXCEPT ![y].at = None, ![y].ok = FALSE]
  /\ store' = putOrder(store,
       LET r == sync[y].at
       IN IF sync[y].ok THEN record(serverKey(r.sale), r.sale, "SYNCED")
          ELSE [r EXCEPT !.status = "FAILED"])
  /\ offlineOrders' = IF sync[y].ok THEN store' ELSE offlineOrders
  /\ effectDue' = (effectDue \/ sync[y].ok)
  /\ UNCHANGED <<isOnline, terminal, cart, sale, placed, trigger, asked>>
-----------------------------------------------------------------------------
CashierSteps ==
  \/ AddToCart \/ ConnectivityChanges \/ SyncNow \/ Reload
  \/ \E a \in Sales : HandleCheckout(a) \/ ServerTakesSale(a) \/ AnswerArrives(a)
                      \/ CheckoutFails(a) \/ SaveOfflineOrder(a)

\* An open page renders and its timers fire, and the browser runs the worker: these
\* steps are taken when they stay possible.
PageRuns == AutoSync \/ TimerFires \/ RegisterRefused
WorkerRuns ==
  \E y \in Syncs :
    StartSync(y) \/ (\E r \in sync[y].todo : SyncSends(y, r) \/ SyncSkips(y, r)) \/ SyncRecords(y)

CashierNext == CashierSteps \/ PageRuns \/ WorkerRuns
CashierSpec == OfflineQueueInit /\ [][CashierNext]_cashierVars
-----------------------------------------------------------------------------
(* Properties. *)

\* A record shown as SYNCED stands for an order the server has: the terminal and the
\* worker both write that status only after an accepted checkout.
SyncedIsOnServer == \A r \in store : r.status = "SYNCED" => placed[r.sale] > 0

\* A checkout that ran to its end left an order at the server or a record of it that
\* says it is not synced, whatever was lost on the way.
SalesAreKept ==
  \A a \in Sales : sale[a].phase = "done" =>
    placed[a] > 0 \/ \E r \in store : r.sale = a /\ r.status # "SYNCED"

\* However often the worker repeats a sale whose answer was lost, the server has it at
\* most once: the repetitions carry no CSRF token and are refused.
SoldOnce == \A a \in Sales : placed[a] <= 1

\* No sale of the terminal is lost, shown as synced without an order, or sold twice
\* (handleCheckout, saveOfflineOrder, syncOfflineOrders).
CashierInv ==
  /\ OfflineQueueTypeOK
  /\ SyncedIsOnServer
  /\ SalesAreKept
  /\ SoldOnce

\* A pending record does not stay pending while the terminal stays online: the effect,
\* the timer and the worker between them try it.  The code leaves it untried where there
\* is no registered worker, where the last sync.register is refused (nothing asks again
\* by itself), and where the session names no tenant.
PendingIsTried ==
  \A a \in Sales :
    (tenantKnown /\ \E r \in pendingIn(store) : r.sale = a)
      ~> (\/ ~isOnline \/ worker # "ready" \/ register # "fine"
          \/ ~(\E r \in pendingIn(store) : r.sale = a))
=============================================================================
