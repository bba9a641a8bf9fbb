----------------------------- MODULE Backoffice -----------------------------
(* One operator's back office over the catalogue: six screens built alike   *)
(* (a list that is a cached query, a form in a dialog, a confirmation, and  *)
(* a mutation hook for each kind of change), beside colleagues whose        *)
(* requests come from other browsers. The lists are refetched when a        *)
(* mutation invalidates them or a screen mounts, never on their own: a list *)
(* can be older than any change. One snapshot of a kind stands for its      *)
(* queries (the active and the archived view, the counts).                  *)
EXTENDS Catalog, FormRules

CONSTANTS MaxForms,   \* bound on the forms the operator opens
          MaxListed   \* the rows findMany reads at most (500)

ASSUME ScreenAssumption == MaxForms \in Nat /\ MaxListed \in Nat /\ None \notin Requests

VARIABLES
  tab,          \* the screen shown
  cache,        \* cache[k]: the rows of kind k as last fetched
  invalid,      \* kinds whose queries a mutation invalidated
  form,         \* the dialog: its mode, row, fields, error; serial numbers the openings
  hook,         \* hook[h]: the request the hook is pending for, or None
  submitted,    \* the serial of the form whose request is pending, or 0
  detached,     \* requests whose screen was left before their answer
  target,       \* archiveTarget
  notice,       \* what the confirmation announced: products, and whether the lists were settled and whole
  escaped,      \* a dialog was closed while its request was pending
  answerLost,   \* the network failed under a request
  othersActed   \* a colleague sent a request

screenVars == <<tab, cache, invalid, form, hook, submitted, detached, target,
                notice, escaped, answerLost, othersActed>>
backofficeVars == <<catalogVars, screenVars, filled>>

Hooks == {"form", "archive", "restore", "toggle"}
Closed == [mode |-> "closed", id |-> None, serial |-> 0, error |-> None,
           row |-> NoRow]
Unannounced == [count |-> 0, settled |-> FALSE]
-----------------------------------------------------------------------------
(* What the screens differ in. sends: the fields of an update; picks: the   *)
(* list a new row's parent is chosen from (restaurants never change);       *)
(* toggles: a row has a hide/show button; stales: the queries a success     *)
(* invalidates.                                                             *)

productsScreen ==
  [kind |-> "product", picks |-> "category", sends |-> {"parent", "active", "rev"},
   toggles |-> TRUE, stales |-> {"product"}]
categoriesScreen ==
  [kind |-> "category", picks |-> None, sends |-> {"active", "rev"},
   toggles |-> TRUE, stales |-> {"category", "product"}]
branchesScreen ==
  [kind |-> "branch", picks |-> None, sends |-> {"active", "rev"},
   toggles |-> TRUE, stales |-> {"branch"}]
tablesScreen ==
  [kind |-> "table", picks |-> "branch", sends |-> {"rev"},
   toggles |-> FALSE, stales |-> {"table"}]
customersScreen ==
  [kind |-> "customer", picks |-> None, sends |-> {"key", "rev"},
   toggles |-> FALSE, stales |-> {"customer"}]

screenOf(kind) ==
  CASE kind = "product" -> productsScreen [] kind = "category" -> categoriesScreen
    [] kind = "branch" -> branchesScreen [] kind = "table" -> tablesScreen
    [] kind = "customer" -> customersScreen
screen == screenOf(tab)

\* findMany takes the first MaxListed rows, in whatever order the database has them.
reads(S) ==
  {T \in SUBSET S : IF Cardinality(S) <= MaxListed THEN T = S ELSE Cardinality(T) = MaxListed}

\* The live rows come from the active view's query, the others from the archived view's,
\* which reads both and is filtered in the browser.
page(kind, active, all) ==
  [i \in idsOf(kind) |-> IF i \in active \cup (all \ liveIn(all)) THEN rows[i] ELSE NoRow]
snapshots(kind) ==
  {page(kind, active, all) : active \in reads(liveIn(idsOf(kind))),
                             all \in reads({i \in idsOf(kind) : rows[i].exists})}
listed(kind) == {i \in idsOf(kind) : cache[kind][i].exists}

\* The two views of a list: the archive holds the tombstoned rows.
visible == {i \in listed(tab) : cache[tab][i].deletedAt = None}
archived == listed(tab) \ visible

\* The parents a form offers come from the other cached list.
pickable ==
  IF screen.picks = None THEN {None}
  ELSE {i \in listed(screen.picks) : cache[screen.picks][i].deletedAt = None}

\* productCounts: what the archive dialog of a category announces.
productCounts(c) ==
  Cardinality({p \in listed("product") : /\ cache["product"][p].parent = c
                                         /\ cache["product"][p].deletedAt = None})
-----------------------------------------------------------------------------
BackofficeInit ==
  /\ tab \in Kinds
  /\ cache \in [Kinds -> UNION {snapshots(k) : k \in Kinds}]
  /\ \A k \in Kinds : cache[k] \in snapshots(k)
  /\ invalid = {}
  /\ form = Closed /\ hook = [h \in Hooks |-> None] /\ submitted = 0 /\ detached = {}
  /\ target = None /\ notice = Unannounced
  /\ escaped = FALSE /\ answerLost = FALSE /\ othersActed = FALSE

noDialog == form.mode = "closed" /\ target = None
historyKept == UNCHANGED <<escaped, answerLost, othersActed>>
navigationKept == UNCHANGED <<tab, cache, invalid, detached>>

\* useQuery: a mount, an invalidation or a reconnect reads the list again.
Fetch(k) ==
  /\ k \in {tab, screen.picks} \cup (IF tab = "category" THEN {"product"} ELSE {})
  /\ k # None
  /\ \E s \in snapshots(k) : cache' = [cache EXCEPT ![k] = s]
  /\ invalid' = invalid \ {k}
  /\ cache' # cache \/ invalid' # invalid
  /\ UNCHANGED <<tab, form, hook, submitted, detached, target, notice>> /\ historyKept
  /\ UNCHANGED catalogVars

\* Another tab mounts another component: the hooks' state goes, their requests stay.
SwitchTab(t) ==
  /\ noDialog /\ t # tab
  /\ tab' = t
  /\ detached' = detached \cup ({hook[h] : h \in Hooks} \ {None})
  /\ hook' = [h \in Hooks |-> None] /\ submitted' = 0
  /\ UNCHANGED <<cache, invalid, form, target, notice>> /\ historyKept
  /\ UNCHANGED catalogVars

OpenCreate ==
  /\ noDialog /\ pickable # {} /\ form.serial < MaxForms
  /\ form' = [Closed EXCEPT !.mode = "create", !.serial = form.serial + 1]
  /\ UNCHANGED <<hook, submitted, target, notice>> /\ navigationKept /\ historyKept
  /\ UNCHANGED catalogVars

OpenEdit(i) ==
  /\ noDialog /\ i \in visible /\ form.serial < MaxForms
  /\ form' = [Closed EXCEPT !.mode = "edit", !.serial = form.serial + 1, !.id = i,
                            !.row = cache[tab][i]]
  /\ UNCHANGED <<hook, submitted, target, notice>> /\ navigationKept /\ historyKept
  /\ UNCHANGED catalogVars

closedForm == [Closed EXCEPT !.serial = form.serial]

\* Escape, the backdrop and the cross close the dialog also while it is saving.
CloseForm ==
  /\ form.mode # "closed"
  /\ form' = closedForm
  /\ escaped' = (escaped \/ hook["form"] # None)
  /\ UNCHANGED <<hook, submitted, target, notice, answerLost, othersActed>> /\ navigationKept
  /\ UNCHANGED catalogVars

sent(field, value) == IF field \in screen.sends THEN value ELSE None

\* The bodies a submission can have: the operator picks a parent and a key; an
\* edit sends every field of the form, changed or not.
bodies ==
  IF form.mode = "create"
  THEN {[op |-> "create", kind |-> tab, id |-> i, parent |-> p, key |-> k, active |-> None,
         rev |-> form.serial] :
          i \in idsOf(tab), p \in pickable,
          k \in IF tab \in {"table", "customer"} THEN Keys ELSE {None}}
  ELSE {[op |-> "update", kind |-> tab, id |-> form.id, parent |-> sent("parent", p),
         key |-> sent("key", k), active |-> sent("active", form.row.active),
         rev |-> form.serial] :
          p \in {form.row.parent} \cup pickable,
          k \in IF tab = "customer" THEN Keys ELSE {None}}

neverBusy == FALSE
mutationBusy == hook["form"] # None

\* submitForm, once the form has passed validation (FormRules).
SubmitForm(r, q) ==
  /\ form.mode # "closed" /\ ~mutationBusy
  /\ q \in bodies /\ Start(r, q, TRUE)
  /\ form' = [form EXCEPT !.error = None]
  /\ hook' = [hook EXCEPT !["form"] = r] /\ submitted' = form.serial
  /\ UNCHANGED <<target, notice>> /\ navigationKept /\ historyKept

AskArchive(i) ==
  /\ noDialog /\ i \in visible
  /\ target' = i
  /\ UNCHANGED <<form, hook, submitted, notice>> /\ navigationKept /\ historyKept
  /\ UNCHANGED catalogVars

CancelArchive ==
  /\ target # None /\ target' = None
  /\ UNCHANGED <<form, hook, submitted, notice>> /\ navigationKept /\ historyKept
  /\ UNCHANGED catalogVars

ownPending == detached # {} \/ \E h \in Hooks : hook[h] # None

ConfirmArchive(r) ==
  /\ target # None /\ hook["archive"] = None
  /\ Start(r, [op |-> "delete", kind |-> tab, id |-> target, parent |-> None, key |-> None,
               active |-> None, rev |-> None], TRUE)
  /\ hook' = [hook EXCEPT !["archive"] = r]
  /\ notice' = IF tab = "category"
               THEN [count |-> productCounts(target),
                     settled |-> /\ invalid = {} /\ ~ownPending
                                 /\ Cardinality(liveIn(Products)) <= MaxListed]
               ELSE Unannounced
  /\ UNCHANGED <<form, submitted, target>> /\ navigationKept /\ historyKept

RestoreRow(r, i) ==
  /\ noDialog /\ i \in archived /\ hook["restore"] = None
  /\ Start(r, [op |-> "restore", kind |-> tab, id |-> i, parent |-> None, key |-> None,
               active |-> None, rev |-> None], TRUE)
  /\ hook' = [hook EXCEPT !["restore"] = r]
  /\ UNCHANGED <<form, submitted, target, notice>> /\ navigationKept /\ historyKept

\* toggleAvailability, toggleActive: the opposite of what the list shows.
ToggleRow(r, i) ==
  /\ noDialog /\ i \in visible /\ screen.toggles /\ hook["toggle"] = None
  /\ Start(r, [op |-> "update", kind |-> tab, id |-> i, parent |-> None, key |-> None,
               active |-> ~cache[tab][i].active, rev |-> None], TRUE)
  /\ hook' = [hook EXCEPT !["toggle"] = r]
  /\ UNCHANGED <<form, submitted, target, notice>> /\ navigationKept /\ historyKept

formAfterAny(h, ok) ==
  CASE ok -> closedForm
    [] h = "form" /\ ~ok /\ form.mode # "closed" -> [form EXCEPT !.error = submitted]
    [] OTHER -> form

\* onSuccess and onError of the hooks. A success of the form's mutation closes
\* whatever form is open; a failure shows in it.
formAfter(h, ok) ==
  CASE h = "form" /\ ok -> closedForm
    [] h = "form" /\ ~ok /\ form.mode # "closed" -> [form EXCEPT !.error = submitted]
    [] OTHER -> form

HearAnswer(h) ==
  LET r == hook[h]
      ok == req[r].answer = "ok"
  IN
  /\ r # None /\ at(r, "answered")
  /\ Finish(r)
  /\ hook' = [hook EXCEPT ![h] = None]
  /\ form' = formAfter(h, ok)
  /\ submitted' = IF h = "form" THEN 0 ELSE submitted
  /\ target' = IF h = "archive" THEN None ELSE target
  /\ notice' = IF h = "archive" THEN Unannounced ELSE notice
  /\ invalid' = IF ok THEN invalid \cup screen.stales ELSE invalid
  /\ UNCHANGED <<tab, cache, detached>> /\ historyKept

\* A mutation whose screen is gone still invalidates.
HearDetached(r) ==
  /\ r \in detached /\ at(r, "answered")
  /\ Finish(r)
  /\ detached' = detached \ {r}
  /\ invalid' = IF req[r].answer = "ok" THEN invalid \cup screenOf(req[r].q.kind).stales ELSE invalid
  /\ UNCHANGED <<tab, cache, form, hook, submitted, target, notice>> /\ historyKept

\* fetch rejects although the request may be served: the hook reports a failure.
LoseAnswer(h) ==
  /\ hook[h] # None /\ Abandon(hook[h])
  /\ hook' = [hook EXCEPT ![h] = None]
  /\ form' = formAfter(h, FALSE)
  /\ submitted' = IF h = "form" THEN 0 ELSE submitted
  /\ target' = IF h = "archive" THEN None ELSE target
  /\ notice' = IF h = "archive" THEN Unannounced ELSE notice
  /\ answerLost' = TRUE
  /\ UNCHANGED <<tab, cache, invalid, detached, escaped, othersActed>>

Others(r, q) ==
  /\ Start(r, q, FALSE)
  /\ othersActed' = TRUE
  /\ UNCHANGED <<tab, cache, invalid, form, hook, submitted, detached, target, notice,
                 escaped, answerLost>>

\* What the operator and the network do on the screens `tabs`.
Operator(tabs) ==
  \/ \E k \in Kinds : Fetch(k)
  \/ \E t \in tabs : SwitchTab(t)
  \/ OpenCreate \/ CloseForm \/ CancelArchive
  \/ \E i \in Ids : OpenEdit(i) \/ AskArchive(i)
  \/ \E r \in Requests :
       \/ \E q \in bodies : SubmitForm(r, q)
       \/ ConfirmArchive(r) \/ HearDetached(r)
       \/ \E i \in Ids : RestoreRow(r, i) \/ ToggleRow(r, i)
  \/ \E h \in Hooks : HearAnswer(h) \/ LoseAnswer(h)

\* The operator beside a whole server; what colleagues send names no form of the operator's.
BackofficeNext ==
  \/ Operator(Kinds) /\ UNCHANGED filled
  \/ (\E r \in Requests, q \in Payload : q.rev \in {0, None} /\ Others(r, q)) /\ UNCHANGED filled
  \/ (Progress \/ Auditing \/ Guests \/ BillingChanges \/ Tick) /\ UNCHANGED <<screenVars, filled>>
  \/ Fill /\ UNCHANGED <<catalogVars, screenVars>>

BackofficeSpec ==
  CatalogInit /\ FormInit /\ BackofficeInit /\ [][BackofficeNext]_backofficeVars
-----------------------------------------------------------------------------
BackofficeTypeOK ==
  /\ tab \in Kinds /\ invalid \subseteq Kinds
  /\ \A k \in Kinds : cache[k] \in [idsOf(k) -> Row]
  /\ form.mode \in {"closed", "create", "edit"} /\ form.serial \in 0 .. MaxForms
  /\ \A h \in Hooks : hook[h] \in Requests \cup {None}
  /\ \A g, h \in Hooks : g # h /\ hook[g] # None => hook[g] # hook[h]
  /\ detached \subseteq Requests /\ target \in Ids \cup {None}

\* A form with the operator's input closes by the operator's hand or when its own
\* submission succeeded, and the error it shows is its own, unless a dialog was
\* closed while saving and another one opened before the answer.
FormHearsItsOwnAnswer ==
  [][/\ form.mode # "closed" /\ form'.mode = "closed" /\ hook' # hook
          => escaped \/ submitted = form.serial
     /\ form'.error # None => escaped' \/ form'.error = form'.serial]_<<form, hook>>

\* mutationBusy and closeForm: however the operator and the network behave, one
\* filled-in form makes at most one row, unless an answer was lost on the way and
\* the form submitted again.
OneRowPerForm ==
  ~answerLost => \A s \in 1 .. form.serial :
    Cardinality({i \in Ids : rows[i].exists /\ rows[i].rev = s}) <= 1

\* "The confirmation dialog therefore states the exact number of products that
\* will be archived": so it is when the lists were settled and one read takes all the
\* products, no colleague acted and nothing overlapped, because every screen invalidates what its changes make stale.
CascadeIsAnnounced ==
  hook["archive"] # None /\ at(hook["archive"], "write") /\ req[hook["archive"]].q.kind = "category"
    /\ notice.settled /\ ~othersActed /\ ~overlapped /\ ~answerLost
  => Cardinality(req[hook["archive"]].batch) = notice.count

\* What the screens promise their operator (mutationBusy, the archive dialog, the
\* validate functions): one row per submitted form, the announced number of archived
\* products, and no form that the server refuses for its fields.
ScreensInv ==
  /\ BackofficeTypeOK
  /\ filled \in Samples
  /\ OneRowPerForm
  /\ CascadeIsAnnounced
  /\ FormsMirrorDtos
=============================================================================
