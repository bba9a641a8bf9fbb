----------------------------- MODULE MCClients -----------------------------
(* The browser applications share no state, and displays do not affect each *)
(* other: focus says which one moves.  A guest adds dishes with a size or a  *)
(* variant and submits them again, or adds once, in any quantity, one with   *)
(* several addons.                                                           *)
EXTENDS OfflineQueue, KdsScreen, GuestMenu, Onboarding, TLC

CONSTANTS s1, s2, b1, b2, t1, t2, d1, d2, o1, o2, m1, m2, m3, z1, v1, g1, g2, g3, a1, a2, a3, a4, a5, a6

VARIABLE focus

\* Two tenants with a branch each; the display of the second tenant has the
\* address of the first one's branch.
MCTenantOf == (b1 :> t1) @@ (b2 :> t2)
MCTokenTenant == (d1 :> t1) @@ (d2 :> t2)
MCScreenBranch == (d1 :> b1) @@ (d2 :> b1)
MCOrderBranch == (o1 :> b1) @@ (o2 :> b1)

\* A product with a size, a variant and one addon; one with two of three addons; one
\* with a single choice.
MCSizesOf == (m1 :> {z1}) @@ (m2 :> {}) @@ (m3 :> {})
MCVariantsOf == (m1 :> {v1}) @@ (m2 :> {}) @@ (m3 :> {})
MCGroupsOf == (m1 :> {g1}) @@ (m2 :> {g2}) @@ (m3 :> {g3})
MCOptionsOf == (g1 :> {a1}) @@ (g2 :> {a2, a3, a4}) @@ (g3 :> {a5, a6})
MCMaxSelections == (g1 :> 1) @@ (g2 :> 2) @@ (g3 :> 1)
MCBasePrice == (m1 :> 100) @@ (m2 :> 200) @@ (m3 :> 300)
MCVariantPrice == v1 :> 150
MCSizeAdjust == z1 :> 30
MCAddonPrice == (a1 :> 5) @@ (a2 :> 7) @@ (a3 :> 11) @@ (a4 :> 13) @@ (a5 :> 17) @@ (a6 :> 19)

mcVars == <<cashierVars, kdsVars, guestVars, onboardingVars, focus>>

MCInit ==
  /\ focus \in {"cashier", "display", "overlap", "stranger", "dishes", "extras", "platform", "wizard", "profile"}
  /\ OfflineQueueInit /\ KdsInit /\ GuestInit /\ OnboardingInit
  /\ worker # "ready" => tenantKnown
  /\ focus # "cashier" => isOnline /\ hasSyncManager /\ worker = "ready" /\ tenantKnown

\* A page sees a change of the menu only when it is loaded again.
ChangesInFlight == menuVersion' # menuVersion => submitting

\* Sales and orders are numbered as they come: the others are these renamed.  The second
\* order is there to be left alone by the events of the first.
SalesInTurn == sale'[s2].phase # "none" => sale[s1].phase # "none"
OrdersInTurn == cooking'[o2] = None \/ (cooking'[o2] = "PENDING" /\ cooking[o1] # None)

\* An update is written as soon as it is validated; updates that overlap are a focus of
\* their own, with one order.
OneUpdate == validated' = {} \/ (validated = {} /\ \A u \in validated' : u.order = o1)

MCNext ==
  /\ UNCHANGED focus
  /\ \/ focus = "cashier" /\ CashierNext /\ SalesInTurn /\ UNCHANGED <<kdsVars, guestVars, onboardingVars>>
     \/ focus = "overlap" /\ KdsNext({d1}) /\ cooking'[o2] = None /\ UNCHANGED <<cashierVars, guestVars, onboardingVars>>
     \/ focus = "display" /\ KdsNext({d1}) /\ OrdersInTurn /\ OneUpdate /\ UNCHANGED <<cashierVars, guestVars, onboardingVars>>
     \/ focus = "stranger" /\ (KdsNext({d2}) \/ Logouts({d2})) /\ OrdersInTurn /\ OneUpdate
          /\ UNCHANGED <<cashierVars, guestVars, onboardingVars>>
     \/ focus = "dishes" /\ GuestNext({m1}, {}) /\ ChangesInFlight /\ UNCHANGED <<cashierVars, kdsVars, onboardingVars>>
     \/ focus = "extras" /\ GuestNext({m2, m3}, 1..MaxQuantity) /\ additions' <= 1 /\ Len(submissions') <= 1 /\ ChangesInFlight
          /\ UNCHANGED <<cashierVars, kdsVars, onboardingVars>>
     \/ focus = "platform" /\ PlatformNext /\ UNCHANGED <<cashierVars, kdsVars, guestVars>>
     \/ focus = "wizard" /\ WizardNext /\ UNCHANGED <<cashierVars, kdsVars, guestVars>>
     \/ focus = "profile" /\ ProfileNext /\ UNCHANGED <<cashierVars, kdsVars, guestVars>>

\* The steps of an open page and of the worker, whichever application moves.
Fairness ==
  /\ WF_cashierVars(focus = "cashier" /\ AutoSync)
  /\ WF_cashierVars(focus = "cashier" /\ TimerFires)
  /\ WF_cashierVars(focus = "cashier" /\ RegisterRefused)
  /\ WF_cashierVars(focus = "cashier" /\ WorkerRuns)

MCSpec == MCInit /\ [][MCNext]_mcVars /\ Fairness
=============================================================================
