--------------------------- MODULE PlatformProofs ---------------------------
(***************************************************************************)
(* Theorems about the platform's own parts: the subscriptions that Stripe  *)
(* bills (BillingWebhook, for any set of events and any number of          *)
(* deliveries, in every tenant scope, with and without faults), and the    *)
(* Eleva office (ElevaOffice, ElevaAgent, for any number of conversations, *)
(* tasks, tools, action ids and plans).                                    *)
(***************************************************************************)
EXTENDS BillingWebhook, ElevaAgent, ElevaOffice, FiniteSetTheorems, SequenceTheorems,
        WellFoundedInduction, TLAPS

(***************************************************************************)
(* Stripe's deliveries (BillingWebhook).                                   *)
(***************************************************************************)

\* What is kept of a delivery.
Delivery ==
  [at : Points, ev : Events \cup {None}, cust : Customers \cup {None},
   stripe : Subscriptions \cup {None}]

\* Where a delivery has not yet caused anything.
Before == {"missed", "route", "resolved", "bind", "link"}

\* What a delivery knows at each of its awaits, whatever runs beside it.
DeliveryInv(d) ==
  /\ dl[d].at # "new" => dl[d].ev \in Events
  /\ dl[d].at = "resolved" =>
       newStatus(dl[d].ev) \in Status /\ dl[d].ev.kind \notin {"checkout", "trial_will_end"}
  /\ dl[d].at = "emit" => dl[d].ev.kind # "trial_will_end"
  /\ dl[d].at \in {"bind", "link"} => dl[d].ev.meta

\* The deliveries that have committed e and not announced it yet.
ToEmit(e) == {d \in Deliveries : dl[d].at = "emit" /\ dl[d].ev = e}

\* Each of them has a transaction of its own.
EmitsCounted(e) ==
  /\ IsFiniteSet(ToEmit(e))
  /\ e.kind # "trial_will_end" => emitted[e] + Cardinality(ToEmit(e)) <= applied[e]

\* Both statuses of the rows have a committed cause.
HasCause(s) == s # "TRIALING" => \E e \in Events : applied[e] > 0 /\ newStatus(e) = s

\* Until deliveries overlap there is one at a time, and what it has read holds.
ReadsHold(d) ==
  /\ dl[d].at \in {"bind", "link"} => dl[d].cust = tenant.customer
  /\ dl[d].at = "link" => dl[d].stripe = sub.stripe
  /\ dl[d].at = "resolved" => tenantResolved(dl[d].ev)

AloneInv ==
  ~overlapped =>
    /\ \A d \in Deliveries : ReadsHold(d)
    /\ \A c, d \in Deliveries : dl[c].at \notin Finished /\ dl[d].at \notin Finished => c = d

\* Until deliveries overlap the two rows have the ids of one checkout.
LinkInv ==
  ~overlapped =>
    \/ tenant.customer = None /\ sub.stripe = None
    \/ \E f \in Events : f.meta /\ tenant.customer = f.cust /\ sub.stripe = f.sub

\* While deliveries do not overlap and nothing fails, what an event has caused
\* is marked, or about to be, and a delivery on its way has caused nothing.
OnceInv ==
  ~overlapped /\ ~disturbed =>
    /\ online
    /\ \A e \in Events :
         \/ applied[e] = 0 /\ emitted[e] = 0
         \/ redis[e] = "true"
         \/ \E d \in Deliveries : dl[d].at \in {"emit", "mark"} /\ dl[d].ev = e
    /\ \A d \in Deliveries :
         /\ dl[d].at \in Before => applied[dl[d].ev] = 0 /\ emitted[dl[d].ev] = 0
         /\ dl[d].at = "emit" => emitted[dl[d].ev] = 0
    /\ \A e \in Events : applied[e] <= 1 /\ emitted[e] <= 1

\* The inductive invariant.
IInv ==
  /\ TypeOK
  /\ \A d \in Deliveries : DeliveryInv(d)
  /\ \A e \in Events : EmitsCounted(e)
  /\ HasCause(tenant.status) /\ HasCause(sub.status)
  /\ AloneInv
  /\ LinkInv
  /\ OnceInv
  /\ StatusesInSync

-----------------------------------------------------------------------------
\* What an event stands for is a status or nothing.
LEMMA NewStatusType == \A e : newStatus(e) \in Status \cup {None}
BY DEF newStatus, Status

\* The tenant and the subscription as onboarding leaves them.
LEMMA InitIInv == Init => IInv
<1> SUFFICES ASSUME Init PROVE IInv
  OBVIOUS
<1>1. TypeOK
  <2>1. online \in BOOLEAN /\ disturbed \in BOOLEAN /\ overlapped \in BOOLEAN
    BY DEF Init
  <2> QED BY <2>1 DEF Init, TypeOK, Status, Points
<1>2. \A d \in Deliveries : DeliveryInv(d)
  BY DEF Init, DeliveryInv
<1>3. ASSUME NEW e \in Events PROVE EmitsCounted(e)
  <2>1. ToEmit(e) = {}
    BY DEF Init, ToEmit
  <2> QED BY <2>1, FS_EmptySet DEF Init, EmitsCounted
<1>4. HasCause(tenant.status) /\ HasCause(sub.status) /\ LinkInv /\ StatusesInSync
  BY DEF Init, HasCause, LinkInv, StatusesInSync
<1>5. AloneInv /\ OnceInv
  BY DEF Init, AloneInv, ReadsHold, OnceInv, Finished, Before
<1> QED BY <1>1, <1>2, <1>3, <1>4, <1>5 DEF IInv

-----------------------------------------------------------------------------
\* The counts of commits and announcements survive a delivery's step that
\* neither commits nor announces, wherever it goes but to "emit".
LEMMA CountsKeep ==
  ASSUME IInv, NEW d \in Deliveries, NEW e \in Events,
         dl'[d].at # "emit" \/ dl'[d].ev # e,
         \A c \in Deliveries \ {d} : dl'[c] = dl[c],
         applied'[e] >= applied[e], applied'[e] \in Nat, emitted'[e] = emitted[e]
  PROVE  EmitsCounted(e)'
<1>1. ToEmit(e)' \subseteq ToEmit(e) /\ IsFiniteSet(ToEmit(e))
  BY DEF ToEmit, IInv, EmitsCounted
<1>2. /\ IsFiniteSet(ToEmit(e)') /\ Cardinality(ToEmit(e)') <= Cardinality(ToEmit(e))
      /\ Cardinality(ToEmit(e)') \in Nat /\ Cardinality(ToEmit(e)) \in Nat
  BY <1>1, FS_Subset, FS_CardinalityType
<1>3. applied[e] \in Nat /\ emitted[e] \in Nat
  BY DEF IInv, TypeOK
<1> QED BY <1>2, <1>3 DEF IInv, EmitsCounted

\* The cache and the way in.
LEMMA ReceiveSteps ==
  ASSUME IInv, NEW d \in Deliveries, NEW e \in Events, Receive(d, e)
  PROVE  IInv'
<1> USE NoneAssumption DEF IInv, Receive
<1> DEFINE at == dl'[d].at
<1>1. /\ dl[d].at = "new" /\ dl'[d].ev = e /\ at \in {"refused", "route", "done", "missed"}
      /\ dl'[d].cust = dl[d].cust /\ dl'[d].stripe = dl[d].stripe
      /\ \A c \in Deliveries \ {d} : dl'[c] = dl[c]
      /\ at \in {"route", "missed"} => ~online \/ redis[e] # "true"
  BY DEF TypeOK
<1>2. TypeOK'
  <2>1. overlapped' \in BOOLEAN
    OBVIOUS
  <2> QED BY <2>1 DEF TypeOK, Points
<1>3. \A c \in Deliveries : DeliveryInv(c)'
  BY <1>1 DEF DeliveryInv
<1>4. \A f \in Events : EmitsCounted(f)'
  BY <1>1, CountsKeep DEF TypeOK
<1>5. overlapped \in BOOLEAN /\ (overlapped' <=> overlapped \/ ~Idle)
  BY DEF TypeOK
<1>6. \A c \in Deliveries : ReadsHold(c) => ReadsHold(c)'
  BY <1>1 DEF ReadsHold, tenantResolved
<1>7. AloneInv'
  <2> SUFFICES ASSUME ~overlapped' PROVE AloneInv'
    BY DEF AloneInv
  <2>1. Idle /\ ~overlapped
    BY <1>5
  <2> QED BY <1>1, <1>6, <2>1 DEF AloneInv, Idle
<1>8. LinkInv' /\ StatusesInSync'
  BY <1>5 DEF LinkInv, StatusesInSync
<1>9. OnceInv'
  <2> SUFFICES ASSUME ~overlapped', ~disturbed PROVE OnceInv'
    BY DEF OnceInv
  <2>1. Idle /\ ~overlapped /\ online
    BY <1>5 DEF OnceInv
  <2>2. at \in {"route", "missed"} => applied[e] = 0 /\ emitted[e] = 0
    BY <1>1, <2>1 DEF OnceInv, Idle, Finished
  <2>3. \A c \in Deliveries : dl'[c].at \notin Finished => c = d
    BY <1>1, <2>1 DEF Idle
  <2>4. \A f \in Events : (applied[f] = 0 /\ emitted[f] = 0) \/ redis[f] = "true"
    BY <2>1 DEF OnceInv, Idle, Finished
  <2>5. \A c \in Deliveries :
          /\ dl'[c].at \in Before => applied[dl'[c].ev] = 0 /\ emitted[dl'[c].ev] = 0
          /\ dl'[c].at # "emit"
    BY <1>1, <2>2, <2>3 DEF Before, Finished
  <2>6. \A f \in Events : applied[f] <= 1 /\ emitted[f] <= 1
    BY <2>1 DEF OnceInv
  <2> QED BY <2>1, <2>4, <2>5, <2>6 DEF OnceInv
<1> QED BY <1>2, <1>3, <1>4, <1>7, <1>8, <1>9 DEF HasCause

\* A step of a delivery that only moves it, to a point that owes no more than
\* the one it leaves.
LEMMA MoveKeeps ==
  ASSUME IInv, NEW d \in Deliveries, dl[d].at \notin Finished,
         TypeOK', DeliveryInv(d)', ~overlapped => ReadsHold(d)',
         dl'[d].at # "emit", dl'[d].ev = dl[d].ev,
         \A c \in Deliveries \ {d} : dl'[c] = dl[c],
         dl'[d].at \in Before => dl[d].at \in Before,
         dl[d].at \in {"emit", "mark"} => dl'[d].at = "mark",
         UNCHANGED <<tenant, sub, redis, online, applied, emitted, disturbed, overlapped>>
  PROVE  IInv'
<1> USE DEF IInv
<1>1. \A c \in Deliveries : DeliveryInv(c)'
  BY DEF DeliveryInv
<1>2. \A f \in Events : EmitsCounted(f)'
  BY CountsKeep DEF TypeOK
<1>3. AloneInv' /\ LinkInv' /\ StatusesInSync'
  BY DEF AloneInv, ReadsHold, LinkInv, StatusesInSync, tenantResolved
<1>4. OnceInv'
  BY DEF TypeOK, OnceInv, Before
<1> QED BY <1>1, <1>2, <1>3, <1>4 DEF HasCause

\* The routing of an event, the reads of a checkout and a failed transaction
\* only move the delivery.
LEMMA MovingSteps ==
  ASSUME IInv, NEW d \in Deliveries,
         \/ Route(d) \/ FindTenant(d) \/ FindSubscription(d)
         \/ ApplyFails(d) \/ PersistFails(d)
  PROVE  IInv'
<1> USE NoneAssumption DEF Goto
<1> DEFINE e == dl[d].ev
<1>0. TypeOK /\ DeliveryInv(d) /\ (~overlapped => ReadsHold(d))
  BY DEF IInv, AloneInv
<1>1. CASE Route(d)
  <2>1. dl'[d].at \in {"done", "mark", "resolved"} /\ dl[d].at = "route"
    BY <1>0, <1>1 DEF Route, TypeOK
  <2>2. dl'[d].at = "resolved" =>
          tenantResolved(e) /\ newStatus(e) \in Status /\ e.kind \notin {"checkout", "trial_will_end"}
    BY <1>0, <1>1, NewStatusType DEF Route, TypeOK
  <2>3. ReadsHold(d)' /\ DeliveryInv(d)'
    BY <1>0, <1>1, <2>1, <2>2 DEF Route, ReadsHold, DeliveryInv, tenantResolved, TypeOK
  <2>4. /\ TypeOK' /\ dl'[d].ev = dl[d].ev
        /\ \A c \in Deliveries \ {d} : dl'[c] = dl[c]
        /\ UNCHANGED <<tenant, sub, redis, online, applied, emitted, disturbed, overlapped>>
    BY <1>0, <1>1 DEF Route, TypeOK, Points
  <2> QED BY <2>1, <2>3, <2>4, MoveKeeps DEF Before, Finished
<1>2. CASE FindTenant(d)
  <2>1. ReadsHold(d)' /\ DeliveryInv(d)'
    BY <1>0, <1>2 DEF FindTenant, ReadsHold, DeliveryInv, TypeOK
  <2>2. /\ dl'[d].ev = dl[d].ev
        /\ dl[d].at = "route" /\ dl'[d].at \in {"bind", "done"}
        /\ \A c \in Deliveries \ {d} : dl'[c] = dl[c]
        /\ UNCHANGED <<tenant, sub, redis, online, applied, emitted, disturbed, overlapped>>
    BY <1>0, <1>2 DEF FindTenant, TypeOK
  <2>3. TypeOK'
    <3>1. tenant.customer \in Customers \cup {None} /\ dl[d] \in Delivery
      BY <1>0 DEF TypeOK, Delivery
    <3>2. dl' \in [Deliveries -> Delivery]
      BY <1>0, <1>2, <3>1 DEF FindTenant, TypeOK, Delivery, Points
    <3> QED BY <1>0, <2>2, <3>2 DEF TypeOK, Delivery
  <2> QED BY <2>1, <2>2, <2>3, MoveKeeps DEF Before, Finished
<1>3. CASE FindSubscription(d)
  <2>1. (~overlapped => ReadsHold(d)') /\ DeliveryInv(d)'
    BY <1>0, <1>3 DEF FindSubscription, ReadsHold, DeliveryInv, TypeOK
  <2>2. /\ dl'[d].ev = dl[d].ev
        /\ dl[d].at = "bind" /\ dl'[d].at = "link"
        /\ \A c \in Deliveries \ {d} : dl'[c] = dl[c]
        /\ UNCHANGED <<tenant, sub, redis, online, applied, emitted, disturbed, overlapped>>
    BY <1>0, <1>3 DEF FindSubscription, TypeOK
  <2>3. TypeOK'
    <3>1. sub.stripe \in Subscriptions \cup {None} /\ dl[d] \in Delivery
      BY <1>0 DEF TypeOK, Delivery
    <3>2. dl' \in [Deliveries -> Delivery]
      BY <1>0, <1>3, <3>1 DEF FindSubscription, TypeOK, Delivery, Points
    <3> QED BY <1>0, <2>2, <3>2 DEF TypeOK, Delivery
  <2> QED BY <2>1, <2>2, <2>3, MoveKeeps DEF Before, Finished
<1>4. CASE ApplyFails(d) \/ PersistFails(d)
  <2>1. ReadsHold(d)' /\ DeliveryInv(d)'
    BY <1>0, <1>4 DEF ApplyFails, PersistFails, ReadsHold, DeliveryInv, TypeOK
  <2>2. /\ TypeOK' /\ dl'[d].ev = dl[d].ev
        /\ dl[d].at \in {"resolved", "link"} /\ dl'[d].at = "mark"
        /\ \A c \in Deliveries \ {d} : dl'[c] = dl[c]
        /\ UNCHANGED <<tenant, sub, redis, online, applied, emitted, disturbed, overlapped>>
    BY <1>0, <1>4 DEF ApplyFails, PersistFails, TypeOK, Points
  <2> QED BY <2>1, <2>2, MoveKeeps DEF Before, Finished
<1> QED BY <1>1, <1>2, <1>3, <1>4

\* The write-back of a miss undoes no mark, because alone it caused nothing yet.
LEMMA WriteBackStep ==
  ASSUME IInv, NEW d \in Deliveries, WriteBack(d)
  PROVE  IInv'
<1> USE DEF IInv, WriteBack, Goto, cacheSet
<1>1. /\ dl[d].at = "missed" /\ dl'[d].at = "route" /\ dl'[d].ev = dl[d].ev
      /\ \A c \in Deliveries \ {d} : dl'[c] = dl[c]
      /\ dl[d].ev \in Events
  BY DEF TypeOK, DeliveryInv
<1>2. TypeOK'
  BY DEF TypeOK, Points
<1>3. (\A c \in Deliveries : DeliveryInv(c)') /\ AloneInv' /\ LinkInv' /\ StatusesInSync'
  BY <1>1 DEF DeliveryInv, AloneInv, ReadsHold, LinkInv, StatusesInSync, tenantResolved, Finished
<1>4. \A f \in Events : EmitsCounted(f)'
  BY <1>1, CountsKeep DEF TypeOK
<1>5. OnceInv'
  <2>1. \A f \in Events : redis'[f] = redis[f] \/ f = dl[d].ev
    BY DEF TypeOK
  <2> QED BY <1>1, <2>1 DEF OnceInv, Before
<1> QED BY <1>2, <1>3, <1>4, <1>5 DEF HasCause

\* The mark: what the event has caused is now remembered, if Redis is there.
LEMMA MarkStep ==
  ASSUME IInv, NEW d \in Deliveries, MarkProcessed(d)
  PROVE  IInv'
<1> USE DEF IInv, MarkProcessed, Goto, cacheSet
<1>1. /\ dl[d].at = "mark" /\ dl'[d].at = "done" /\ dl'[d].ev = dl[d].ev
      /\ \A c \in Deliveries \ {d} : dl'[c] = dl[c]
      /\ dl[d].ev \in Events
  BY DEF TypeOK, DeliveryInv
<1>2. TypeOK'
  BY DEF TypeOK, Points
<1>3. (\A c \in Deliveries : DeliveryInv(c)') /\ AloneInv' /\ LinkInv' /\ StatusesInSync'
  BY <1>1 DEF DeliveryInv, AloneInv, ReadsHold, LinkInv, StatusesInSync, tenantResolved, Finished
<1>4. \A f \in Events : EmitsCounted(f)'
  BY <1>1, CountsKeep DEF TypeOK
<1>5. OnceInv'
  <2>1. \A f \in Events : redis'[f] = redis[f] \/ redis'[f] = "true"
    BY DEF TypeOK
  <2>2. online => redis'[dl[d].ev] = "true"
    BY <1>1 DEF TypeOK
  <2> QED BY <1>1, <2>1, <2>2 DEF OnceInv, Before
<1> QED BY <1>2, <1>3, <1>4, <1>5 DEF HasCause

\* An outage of Redis and the death of a process end the promise of OnceInv.
LEMMA FaultSteps ==
  ASSUME IInv, RedisChanges \/ \E d \in Deliveries : Crash(d)
  PROVE  IInv'
<1> USE DEF IInv
<1>1. CASE RedisChanges
  <2>0. TypeOK'
    <3>1. online' \in BOOLEAN /\ disturbed' \in BOOLEAN
      BY <1>1 DEF RedisChanges, TypeOK
    <3> QED BY <1>1, <3>1 DEF RedisChanges, TypeOK
  <2>1. (\A c \in Deliveries : DeliveryInv(c)') /\ AloneInv' /\ LinkInv' /\ StatusesInSync'
    BY <1>1 DEF RedisChanges, DeliveryInv, AloneInv, ReadsHold, LinkInv, StatusesInSync, tenantResolved
  <2>2. \A f \in Events : EmitsCounted(f)'
    BY <1>1 DEF RedisChanges, EmitsCounted, ToEmit
  <2>3. OnceInv' /\ HasCause(tenant.status)' /\ HasCause(sub.status)'
    BY <1>1 DEF RedisChanges, OnceInv, HasCause
  <2> QED BY <2>0, <2>1, <2>2, <2>3
<1>2. ASSUME NEW d \in Deliveries, Crash(d) PROVE IInv'
  <2> USE <1>2 DEF Crash, Goto
  <2>1. /\ dl'[d].at = "dead" /\ dl'[d].ev = dl[d].ev
        /\ \A c \in Deliveries \ {d} : dl'[c] = dl[c]
    BY DEF TypeOK
  <2>2. TypeOK'
    <3>1. disturbed' \in BOOLEAN
      OBVIOUS
    <3> QED BY <3>1 DEF TypeOK, Points
  <2>3. (\A c \in Deliveries : DeliveryInv(c)') /\ AloneInv' /\ LinkInv' /\ StatusesInSync'
    BY <2>1 DEF DeliveryInv, AloneInv, ReadsHold, LinkInv, StatusesInSync, tenantResolved, Finished
  <2>4. \A f \in Events : EmitsCounted(f)'
    BY <2>1, CountsKeep DEF TypeOK
  <2>5. OnceInv'
    BY DEF OnceInv
  <2> QED BY <2>2, <2>3, <2>4, <2>5 DEF HasCause
<1> QED BY <1>1, <1>2

\* The reminder of a trial's end: no status is committed or announced.
LEMMA TrialStep ==
  ASSUME IInv, NEW d \in Deliveries, HandleTrialWillEnd(d)
  PROVE  IInv'
<1> USE DEF IInv, HandleTrialWillEnd, Goto
<1> DEFINE e == dl[d].ev
<1>1. /\ dl[d].at = "route" /\ dl'[d].at \in {"mark", "done"} /\ dl'[d].ev = e
      /\ \A c \in Deliveries \ {d} : dl'[c] = dl[c]
      /\ e \in Events /\ e.kind = "trial_will_end"
  BY DEF TypeOK, DeliveryInv
<1>2. /\ emitted' \in [Events -> Nat]
      /\ \A f \in Events \ {e} : emitted'[f] = emitted[f]
      /\ dl'[d].at = "done" => emitted' = emitted
      /\ emitted'[e] \in {emitted[e], emitted[e] + 1}
  BY <1>1 DEF TypeOK
<1>3. TypeOK'
  BY <1>2 DEF TypeOK, Points
<1>4. (\A c \in Deliveries : DeliveryInv(c)') /\ AloneInv' /\ LinkInv' /\ StatusesInSync'
  BY <1>1 DEF DeliveryInv, AloneInv, ReadsHold, LinkInv, StatusesInSync, tenantResolved, Finished
<1>5. \A f \in Events : EmitsCounted(f)'
  <2> TAKE f \in Events
  <2>1. CASE f = e
    <3>1. ToEmit(e)' = ToEmit(e)
      BY <1>1 DEF ToEmit
    <3> QED BY <1>1, <2>1, <3>1 DEF EmitsCounted
  <2>2. CASE f # e
    BY <1>1, <1>2, <2>2, CountsKeep DEF TypeOK
  <2> QED BY <2>1, <2>2
<1>6. OnceInv'
  <2> SUFFICES ASSUME ~overlapped, ~disturbed PROVE OnceInv'
    BY DEF OnceInv
  <2>1. applied[e] = 0 /\ emitted[e] = 0 /\ online
    BY <1>1 DEF OnceInv, Before
  <2>2. \A c \in Deliveries : c # d => dl[c].at \in Finished
    BY <1>1 DEF AloneInv, Finished
  <2>3. \A f \in Events : applied[f] <= 1 /\ emitted'[f] <= 1
    BY <1>2, <2>1 DEF OnceInv
  <2>4. \A f \in Events :
         \/ applied[f] = 0 /\ emitted'[f] = 0
         \/ redis[f] = "true"
         \/ \E c \in Deliveries : dl'[c].at \in {"emit", "mark"} /\ dl'[c].ev = f
    BY <1>1, <1>2, <2>1, <2>2 DEF OnceInv, Finished
  <2>5. \A c \in Deliveries : dl'[c].at \notin Before \cup {"emit"}
    BY <1>1, <2>2 DEF Before, Finished
  <2> QED BY <2>1, <2>3, <2>4, <2>5 DEF OnceInv
<1> QED BY <1>3, <1>4, <1>5, <1>6 DEF HasCause

\* The announcement uses up the delivery's own transaction.
LEMMA EmitStep ==
  ASSUME IInv, NEW d \in Deliveries, Emit(d)
  PROVE  IInv'
<1> USE DEF IInv, Emit, Goto
<1> DEFINE e == dl[d].ev
<1>1. /\ dl[d].at = "emit" /\ dl'[d].at = "mark" /\ dl'[d].ev = e
      /\ \A c \in Deliveries \ {d} : dl'[c] = dl[c]
      /\ e \in Events /\ e.kind # "trial_will_end"
  BY DEF TypeOK, DeliveryInv
<1>2. /\ emitted' \in [Events -> Nat]
      /\ \A f \in Events \ {e} : emitted'[f] = emitted[f]
      /\ emitted'[e] = emitted[e] + 1
  BY <1>1 DEF TypeOK
<1>3. TypeOK'
  BY <1>2 DEF TypeOK, Points
<1>4. (\A c \in Deliveries : DeliveryInv(c)') /\ AloneInv' /\ LinkInv' /\ StatusesInSync'
  BY <1>1 DEF DeliveryInv, AloneInv, ReadsHold, LinkInv, StatusesInSync, tenantResolved, Finished
<1>5. \A f \in Events : EmitsCounted(f)'
  <2> TAKE f \in Events
  <2>1. CASE f = e
    <3>1. /\ ToEmit(e)' = ToEmit(e) \ {d} /\ d \in ToEmit(e)
          /\ IsFiniteSet(ToEmit(e))
      BY <1>1 DEF ToEmit, EmitsCounted
    <3>2. /\ IsFiniteSet(ToEmit(e)') /\ Cardinality(ToEmit(e)) \in Nat
          /\ Cardinality(ToEmit(e)') = Cardinality(ToEmit(e)) - 1
      BY <3>1, FS_RemoveElement, FS_CardinalityType
    <3> QED BY <1>1, <1>2, <2>1, <3>2 DEF EmitsCounted, TypeOK
  <2>2. CASE f # e
    BY <1>1, <1>2, <2>2, CountsKeep DEF TypeOK
  <2> QED BY <2>1, <2>2
<1>6. OnceInv'
  <2> SUFFICES ASSUME ~overlapped, ~disturbed PROVE OnceInv'
    BY DEF OnceInv
  <2>1. emitted[e] = 0 /\ online
    BY <1>1 DEF OnceInv
  <2>2. \A c \in Deliveries : c # d => dl[c].at \in Finished
    BY <1>1 DEF AloneInv, Finished
  <2>3. \A f \in Events : applied[f] <= 1 /\ emitted'[f] <= 1
    BY <1>2, <2>1 DEF OnceInv
  <2>4. \A f \in Events :
         \/ applied[f] = 0 /\ emitted'[f] = 0
         \/ redis[f] = "true"
         \/ \E c \in Deliveries : dl'[c].at \in {"emit", "mark"} /\ dl'[c].ev = f
    BY <1>1, <1>2, <2>2 DEF OnceInv, Finished
  <2>5. \A c \in Deliveries : dl'[c].at \notin Before \cup {"emit"}
    BY <1>1, <2>2 DEF Before, Finished
  <2> QED BY <2>1, <2>3, <2>4, <2>5 DEF OnceInv
<1> QED BY <1>3, <1>4, <1>5, <1>6 DEF HasCause

\* The status transaction.
LEMMA ApplyStep ==
  ASSUME IInv, NEW d \in Deliveries, ApplyStatus(d)
  PROVE  IInv'
<1> USE DEF IInv, ApplyStatus, Goto
<1> DEFINE e == dl[d].ev
<1>1. /\ dl[d].at = "resolved" /\ dl'[d].at = "emit" /\ dl'[d].ev = e
      /\ \A c \in Deliveries \ {d} : dl'[c] = dl[c]
      /\ e \in Events /\ e.kind \notin {"checkout", "trial_will_end"} /\ newStatus(e) \in Status
  BY DEF TypeOK, DeliveryInv
<1>2. /\ applied' \in [Events -> Nat]
      /\ \A f \in Events \ {e} : applied'[f] = applied[f]
      /\ applied'[e] = applied[e] + 1 /\ applied[e] \in Nat
  BY <1>1 DEF TypeOK
<1>3. /\ tenant'.status = newStatus(e) /\ tenant'.customer = tenant.customer
      /\ sub'.stripe = sub.stripe /\ sub'.status \in {sub.status, newStatus(e)}
      /\ matches(e) => sub'.status = newStatus(e)
  BY DEF TypeOK
<1>4. TypeOK'
  BY <1>1, <1>2 DEF TypeOK, Points
<1>5. HasCause(tenant.status)' /\ HasCause(sub.status)'
  <2>1. \A f \in Events : applied[f] > 0 => applied'[f] > 0
    BY <1>2 DEF TypeOK
  <2>2. applied'[e] > 0
    BY <1>2
  <2> QED BY <1>1, <1>3, <2>1, <2>2 DEF HasCause
<1>6. (\A c \in Deliveries : DeliveryInv(c)') /\ AloneInv' /\ LinkInv'
  BY <1>1, <1>3 DEF DeliveryInv, AloneInv, ReadsHold, LinkInv, tenantResolved, Finished
<1>7. \A f \in Events : EmitsCounted(f)'
  <2> TAKE f \in Events
  <2>1. CASE f = e
    <3>1. /\ ToEmit(e)' = ToEmit(e) \cup {d} /\ d \notin ToEmit(e)
          /\ IsFiniteSet(ToEmit(e))
      BY <1>1 DEF ToEmit, EmitsCounted
    <3>2. /\ IsFiniteSet(ToEmit(e)') /\ Cardinality(ToEmit(e)) \in Nat
          /\ Cardinality(ToEmit(e)') = Cardinality(ToEmit(e)) + 1
      BY <3>1, FS_AddElement, FS_CardinalityType
    <3> QED BY <1>1, <1>2, <2>1, <3>2 DEF EmitsCounted, TypeOK
  <2>2. CASE f # e
    BY <1>1, <1>2, <2>2, CountsKeep DEF TypeOK
  <2> QED BY <2>1, <2>2
<1>8. OnceInv'
  <2> SUFFICES ASSUME ~overlapped, ~disturbed PROVE OnceInv'
    BY DEF OnceInv
  <2>1. applied[e] = 0 /\ emitted[e] = 0 /\ online
    BY <1>1 DEF OnceInv, Before
  <2>2. \A c \in Deliveries : c # d => dl[c].at \in Finished
    BY <1>1 DEF AloneInv, Finished
  <2>3. \A f \in Events : applied'[f] <= 1 /\ emitted[f] <= 1
    BY <1>2, <2>1 DEF OnceInv
  <2>4. \A f \in Events :
         \/ applied'[f] = 0 /\ emitted[f] = 0
         \/ redis[f] = "true"
         \/ \E c \in Deliveries : dl'[c].at \in {"emit", "mark"} /\ dl'[c].ev = f
    BY <1>1, <1>2, <2>1, <2>2 DEF OnceInv, Finished
  <2>5. \A c \in Deliveries : dl'[c].at \notin Before /\ (dl'[c].at = "emit" => c = d)
    BY <1>1, <2>2 DEF Before, Finished
  <2> QED BY <1>1, <2>1, <2>3, <2>4, <2>5 DEF OnceInv
<1>9. StatusesInSync'
  <2> SUFFICES ASSUME OneSubscription, ~overlapped PROVE matches(e)
    BY <1>3 DEF StatusesInSync
  <2>1. tenant.customer = e.cust \/ (e.sub # None /\ sub.stripe = e.sub)
    BY <1>1, CheckoutAssumption DEF AloneInv, ReadsHold, tenantResolved
  <2>2. CASE tenant.customer = e.cust
    <3>1. e.cust # None
      BY <1>1, EventsAssumption, NoneAssumption DEF Event
    <3>2. PICK f \in Events : f.meta /\ tenant.customer = f.cust /\ sub.stripe = f.sub
      BY <2>2, <3>1 DEF LinkInv
    <3> QED BY <1>1, <2>2, <3>2, CheckoutAssumption DEF matches, OneSubscription
  <2> QED BY <2>1, <2>2 DEF matches
<1> QED BY <1>4, <1>5, <1>6, <1>7, <1>8, <1>9

\* The ids of a checkout.
LEMMA PersistStep ==
  ASSUME IInv, NEW d \in Deliveries, PersistStripeIds(d)
  PROVE  IInv'
<1> USE NoneAssumption DEF IInv, PersistStripeIds, Goto
<1> DEFINE e == dl[d].ev
<1>1. /\ dl[d].at = "link" /\ dl'[d].at = "mark" /\ dl'[d].ev = e
      /\ \A c \in Deliveries \ {d} : dl'[c] = dl[c]
      /\ e \in Events /\ e.meta
  BY DEF TypeOK, DeliveryInv
<1>2. e.cust \in Customers /\ e.sub \in Subscriptions \cup {None} /\ e.sub # None
  BY <1>1, EventsAssumption, CheckoutAssumption DEF Event
<1>3. /\ tenant'.status = tenant.status /\ sub'.status = sub.status
      /\ tenant'.customer = IF dl[d].cust = None THEN e.cust ELSE tenant.customer
      /\ sub'.stripe = IF dl[d].stripe = None THEN e.sub ELSE sub.stripe
  BY <1>2 DEF TypeOK
<1>4. TypeOK'
  BY <1>1, <1>2 DEF TypeOK, Points
<1>5. (\A c \in Deliveries : DeliveryInv(c)') /\ StatusesInSync'
  BY <1>1, <1>3 DEF DeliveryInv, StatusesInSync
<1>6. AloneInv' /\ LinkInv'
  <2> SUFFICES ASSUME ~overlapped PROVE AloneInv' /\ LinkInv'
    BY DEF AloneInv, LinkInv
  <2>1. /\ \A c \in Deliveries : c # d => dl[c].at \in Finished
        /\ dl[d].cust = tenant.customer /\ dl[d].stripe = sub.stripe
    BY <1>1 DEF AloneInv, ReadsHold, Finished
  <2>2. AloneInv'
    BY <1>1, <2>1 DEF AloneInv, ReadsHold, Finished
  <2>3. LinkInv'
    BY <1>1, <1>2, <1>3, <2>1, EventsAssumption, CheckoutAssumption DEF LinkInv, Event
  <2> QED BY <2>2, <2>3
<1>7. \A f \in Events : EmitsCounted(f)'
  BY <1>1, CountsKeep DEF TypeOK
<1>8. OnceInv'
  BY <1>1 DEF OnceInv, Before
<1> QED BY <1>3, <1>4, <1>5, <1>6, <1>7, <1>8 DEF HasCause

\* Every step keeps IInv.
LEMMA NextIInv == IInv /\ [Next]_vars => IInv'
<1> SUFFICES ASSUME IInv, [Next]_vars PROVE IInv'
  OBVIOUS
<1>1. CASE UNCHANGED vars
  BY <1>1
  DEF vars, IInv, TypeOK, DeliveryInv, EmitsCounted, ToEmit, HasCause, AloneInv, ReadsHold,
      LinkInv, OnceInv, StatusesInSync, tenantResolved
<1>2. CASE Next
  BY <1>1, <1>2, ReceiveSteps, MovingSteps, WriteBackStep, MarkStep, FaultSteps, TrialStep, EmitStep,
     ApplyStep, PersistStep
  DEF Next, Step, AllDelivered
<1> QED BY <1>1, <1>2

-----------------------------------------------------------------------------
\* The rows of handleStripeWebhook and the events it emits have a committed
\* cause, and the two rows agree until deliveries overlap, for any events.
THEOREM BillingCorrect == Spec => []BillingInv
<1>1. IInv => BillingInv
  <2> SUFFICES ASSUME IInv PROVE BillingInv
    OBVIOUS
  <2>1. ASSUME NEW e \in Events, e.kind # "trial_will_end" PROVE emitted[e] <= applied[e]
    <3>1. Cardinality(ToEmit(e)) \in Nat /\ emitted[e] + Cardinality(ToEmit(e)) <= applied[e]
      BY <2>1, FS_CardinalityType DEF IInv, EmitsCounted
    <3> QED BY <3>1 DEF IInv, TypeOK
  <2> QED BY <2>1 DEF IInv, BillingInv, StatusHasCause, HasCause
<1> QED BY <1>1, InitIInv, NextIInv, PTL DEF Spec

\* handleStripeWebhook's idempotency key: while deliveries do not overlap and
\* nothing fails, an event's transaction and domain event happen at most once.
THEOREM ProcessedOnce == Spec => []EventProcessedOnce
<1>1. IInv => EventProcessedOnce
  BY DEF IInv, OnceInv, EventProcessedOnce
<1> QED BY <1>1, InitIInv, NextIInv, PTL DEF Spec

\* handleCheckoutSessionCompleted: while deliveries do not overlap, stored
\* Stripe ids are never replaced.
THEOREM IdsNeverReplaced == Spec => StripeIdsPermanent
<1> DEFINE Keeps ==
      ~overlapped' => /\ tenant.customer # None => tenant'.customer = tenant.customer
                      /\ sub.stripe # None => sub'.stripe = sub.stripe
<1>1. IInv /\ [Next]_vars => [Keeps]_vars
  <2> SUFFICES ASSUME IInv, Next PROVE Keeps
    OBVIOUS
  <2>1. ASSUME NEW d \in Deliveries, PersistStripeIds(d), ~overlapped'
        PROVE  Keeps
    <3>1. dl[d].cust = tenant.customer /\ dl[d].stripe = sub.stripe
      BY <2>1 DEF IInv, AloneInv, ReadsHold, PersistStripeIds
    <3> QED BY <2>1, <3>1 DEF IInv, TypeOK, PersistStripeIds
  <2>2. ASSUME NEW d \in Deliveries, ApplyStatus(d)
        PROVE  tenant'.customer = tenant.customer /\ sub'.stripe = sub.stripe
    BY <2>2 DEF IInv, TypeOK, ApplyStatus
  <2>3. \/ UNCHANGED <<tenant, sub>>
        \/ \E d \in Deliveries : PersistStripeIds(d) \/ ApplyStatus(d)
    BY DEF Next, Step, Receive, WriteBack, Route, HandleTrialWillEnd, ApplyFails, Emit, FindTenant,
           FindSubscription, PersistFails, MarkProcessed, RedisChanges, Crash, AllDelivered, vars
  <2> QED BY <2>1, <2>2, <2>3
<1> QED BY <1>1, InitIInv, NextIInv, PTL DEF Spec, StripeIdsPermanent

(***************************************************************************)
(* Lists that are filtered: what Kept keeps of a list.                     *)
(***************************************************************************)

\* A set of natural numbers has a smallest member.
LEMMA LeastNumber ==
  ASSUME NEW S \in SUBSET Nat, S # {}
  PROVE  \E x \in S : \A y \in S : x <= y
<1>1. PICK R : R = OpToRel(<, Nat)
  OBVIOUS
<1>2. IsWellFoundedOn(R, Nat)
  BY <1>1, NatLessThanWellFounded
<1>3. PICK x \in S : \A y \in S : ~ (<<y, x>> \in R)
  BY <1>2, WFMin
<1>4. \A y \in S : ~(y < x)
  BY <1>1, <1>3 DEF OpToRel
<1> QED BY <1>3, <1>4

\* f filters the prefixes of list, up to length m, and says where each element comes from.
Filters(f, list, P, m, A) ==
  /\ f \in [0 .. m -> Seq(A)]
  /\ f[0] = <<>>
  /\ \A n \in 1 .. m : f[n] = IF n \in P THEN Append(f[n - 1], list[n]) ELSE f[n - 1]

\* A longer prefix.
LEMMA FiltersNext ==
  ASSUME NEW A, NEW list \in Seq(A), NEW P, NEW m \in 1 .. Len(list),
         NEW g, Filters(g, list, P, m - 1, A)
  PROVE  \E f : Filters(f, list, P, m, A)
<1> DEFINE last == IF m \in P THEN Append(g[m - 1], list[m]) ELSE g[m - 1]
           f == [n \in 0 .. m |-> IF n = m THEN last ELSE g[n]]
<1>1. g \in [0 .. m - 1 -> Seq(A)] /\ g[0] = <<>> /\ m \in Nat /\ m # 0
      /\ \A n \in 1 .. m - 1 : g[n] = IF n \in P THEN Append(g[n - 1], list[n]) ELSE g[n - 1]
  BY DEF Filters
<1>2. last \in Seq(A)
  <2>1. g[m - 1] \in Seq(A) /\ list[m] \in A
    BY <1>1
  <2> QED BY <2>1
<1> HIDE DEF last
<1>3. f \in [0 .. m -> Seq(A)]
  <2>1. ASSUME NEW n \in 0 .. m PROVE (IF n = m THEN last ELSE g[n]) \in Seq(A)
    <3>1. CASE n = m
      BY <1>2, <3>1
    <3>2. CASE n # m
      <4>1. n \in 0 .. m - 1
        BY <1>1, <3>2
      <4> QED BY <1>1, <3>2, <4>1
    <3> QED BY <3>1, <3>2
  <2> QED BY <2>1
<1>4. f[0] = <<>>
  BY <1>1
<1>5. ASSUME NEW n \in 1 .. m
      PROVE  f[n] = IF n \in P THEN Append(f[n - 1], list[n]) ELSE f[n - 1]
  <2>1. f[n - 1] = g[n - 1]
    BY <1>1
  <2>2. CASE n = m
    BY <1>1, <2>1, <2>2 DEF last
  <2>3. CASE n # m
    <3>1. n \in 1 .. m - 1
      BY <1>1, <2>3
    <3>2. f[n] = g[n]
      BY <2>3
    <3> QED BY <1>1, <2>1, <3>1, <3>2
  <2> QED BY <2>2, <2>3
<1> HIDE DEF f
<1> QED BY <1>3, <1>4, <1>5 DEF Filters

\* Every prefix can be filtered.
LEMMA FiltersExists ==
  ASSUME NEW A, NEW list \in Seq(A), NEW P
  PROVE  \E f : Filters(f, list, P, Len(list), A)
<1> DEFINE Not == {m \in 0 .. Len(list) : ~ \E f : Filters(f, list, P, m, A)}
<1>1. ASSUME Not # {} PROVE FALSE
  <2>1. PICK m \in Not : \A k \in Not : m <= k
    <3>1. Not \in SUBSET Nat
      OBVIOUS
    <3> HIDE DEF Not
    <3> QED BY <1>1, <3>1, LeastNumber
  <2>2. m \in 0 .. Len(list) /\ Len(list) \in Nat
    OBVIOUS
  <2>3. CASE m = 0
    <3> DEFINE f == [n \in 0 .. 0 |-> <<>>]
    <3>1. f \in [0 .. 0 -> Seq(A)] /\ f[0] = <<>>
      OBVIOUS
    <3> HIDE DEF f
    <3>2. Filters(f, list, P, 0, A)
      BY <3>1 DEF Filters
    <3> QED BY <2>1, <2>3, <3>2
  <2>4. CASE m # 0
    <3>1. m - 1 \in 0 .. Len(list) /\ ~(m <= m - 1) /\ m \in 1 .. Len(list)
      BY <2>2, <2>4
    <3>2. PICK g : Filters(g, list, P, m - 1, A)
      BY <2>1, <3>1
    <3>3. \E f : Filters(f, list, P, m, A)
      BY <3>1, <3>2, FiltersNext
    <3> QED BY <2>1, <3>3
  <2> QED BY <2>3, <2>4
<1>2. Len(list) \in 0 .. Len(list)
  OBVIOUS
<1> QED BY <1>1, <1>2

\* Where the elements of each prefix come from, and that none is missing.
LEMMA FilteredElements ==
  ASSUME NEW A, NEW list \in Seq(A), NEW P, NEW f, Filters(f, list, P, Len(list), A),
         NEW n \in 0 .. Len(list)
  PROVE  /\ \A j \in DOMAIN f[n] : \E i \in P \cap (1 .. n) : f[n][j] = list[i]
         /\ \A i \in P \cap (1 .. n) : \E j \in DOMAIN f[n] : f[n][j] = list[i]
<1> DEFINE Right(m) == /\ \A j \in DOMAIN f[m] : \E i \in P \cap (1 .. m) : f[m][j] = list[i]
                       /\ \A i \in P \cap (1 .. m) : \E j \in DOMAIN f[m] : f[m][j] = list[i]
           Wrong == {m \in 0 .. Len(list) : ~Right(m)}
<1>0. /\ f \in [0 .. Len(list) -> Seq(A)] /\ f[0] = <<>> /\ Len(list) \in Nat
      /\ \A k \in 1 .. Len(list) : f[k] = IF k \in P THEN Append(f[k - 1], list[k]) ELSE f[k - 1]
  BY DEF Filters
<1>1. ASSUME Wrong # {} PROVE FALSE
  <2>1. PICK m \in Wrong : \A k \in Wrong : m <= k
    <3>1. Wrong \in SUBSET Nat
      OBVIOUS
    <3> HIDE DEF Wrong
    <3> QED BY <1>1, <3>1, LeastNumber
  <2>2. m \in 0 .. Len(list) /\ ~Right(m)
    BY <2>1
  <2>3. m # 0
    <3>1. Right(0)
      BY <1>0
    <3> HIDE DEF Right
    <3> QED BY <2>2, <3>1
  <2>4. m \in 1 .. Len(list) /\ m - 1 \in 0 .. Len(list) /\ ~(m <= m - 1) /\ m \in Nat
    BY <1>0, <2>2, <2>3
  <2>5. Right(m - 1)
    <3> HIDE DEF Right
    <3> QED BY <2>1, <2>4
  <2>6. f[m - 1] \in Seq(A) /\ list[m] \in A
    BY <1>0, <2>4
  <2>7. \A i \in 1 .. m : i = m \/ i \in 1 .. m - 1
    BY <2>4
  <2>8. \A i \in 1 .. m - 1 : i \in 1 .. m
    BY <2>4
  <2>9. CASE m \notin P
    <3>1. f[m] = f[m - 1]
      BY <1>0, <2>4, <2>9
    <3>2. P \cap (1 .. m) = P \cap (1 .. m - 1)
      BY <2>7, <2>8, <2>9
    <3>3. Right(m)
      BY <2>5, <3>1, <3>2
    <3> QED BY <2>2, <3>3
  <2>10. CASE m \in P
    <3> DEFINE before == f[m - 1]
               k == Len(before) + 1
    <3>1. f[m] = Append(before, list[m])
      BY <1>0, <2>4, <2>10
    <3>2. before \in Seq(A)
      BY <2>6
    <3> HIDE DEF before
    <3>3. /\ DOMAIN f[m] = (DOMAIN before) \cup {k} /\ f[m][k] = list[m]
          /\ \A j \in DOMAIN before : f[m][j] = before[j]
      BY <2>6, <3>1, <3>2
    <3> HIDE DEF k
    <3>4. m \in P \cap (1 .. m)
      BY <2>4, <2>10
    <3>5. ASSUME NEW j \in DOMAIN f[m] PROVE \E i \in P \cap (1 .. m) : f[m][j] = list[i]
      <4>1. CASE j = k
        BY <3>3, <3>4, <4>1
      <4>2. CASE j # k
        <5>1. j \in DOMAIN before /\ f[m][j] = before[j]
          BY <3>3, <3>5, <4>2
        <5>2. PICK i \in P \cap (1 .. m - 1) : before[j] = list[i]
          BY <2>5, <5>1 DEF before
        <5> QED BY <2>8, <5>1, <5>2
      <4> QED BY <4>1, <4>2
    <3>6. ASSUME NEW i \in P \cap (1 .. m) PROVE \E j \in DOMAIN f[m] : f[m][j] = list[i]
      <4>1. CASE i = m
        BY <3>3, <4>1
      <4>2. CASE i # m
        <5>1. i \in P \cap (1 .. m - 1)
          BY <2>7, <4>2
        <5>2. PICK j \in DOMAIN before : before[j] = list[i]
          BY <2>5, <5>1 DEF before
        <5> QED BY <3>3, <5>2
      <4> QED BY <4>1, <4>2
    <3> QED BY <2>2, <3>5, <3>6
  <2> QED BY <2>9, <2>10
<1>2. Right(n)
  <2> HIDE DEF Right
  <2> QED BY <1>1
<1> QED BY <1>2

\* What is kept of a list: elements of the list, from the positions asked for, and all of them.
LEMMA KeptElements ==
  ASSUME NEW A, NEW list \in Seq(A), NEW P \in SUBSET DOMAIN list
  PROVE  /\ Kept(list, P) \in Seq(A)
         /\ \A j \in DOMAIN Kept(list, P) : \E i \in P : Kept(list, P)[j] = list[i]
         /\ \A i \in P : \E j \in DOMAIN Kept(list, P) : Kept(list, P)[j] = list[i]
<1> DEFINE Eq(f) == f = [n \in 0 .. Len(list) |->
                           IF n = 0 THEN <<>>
                           ELSE IF n \in P THEN Append(f[n - 1], list[n]) ELSE f[n - 1]]
           h == CHOOSE f : Eq(f)
<1>1. Kept(list, P) = h[Len(list)]
  BY DEF Kept
<1>2. PICK g : Filters(g, list, P, Len(list), A)
  BY FiltersExists
<1>3. Eq(g)
  <2>1. g = [n \in 0 .. Len(list) |-> g[n]]
    BY <1>2 DEF Filters
  <2>2. \A n \in 0 .. Len(list) :
          g[n] = IF n = 0 THEN <<>> ELSE IF n \in P THEN Append(g[n - 1], list[n]) ELSE g[n - 1]
    <3>1. ASSUME NEW n \in 0 .. Len(list), n # 0 PROVE n \in 1 .. Len(list)
      BY <3>1
    <3> QED BY <1>2, <3>1 DEF Filters
  <2> QED BY <2>1, <2>2
<1>4. Eq(h)
  <2> HIDE DEF Eq
  <2> QED BY <1>3
<1> HIDE DEF h
<1>5. /\ DOMAIN h = 0 .. Len(list) /\ Len(list) \in Nat
      /\ \A n \in 0 .. Len(list) :
           h[n] = IF n = 0 THEN <<>> ELSE IF n \in P THEN Append(h[n - 1], list[n]) ELSE h[n - 1]
  <2>1. h = [n \in 0 .. Len(list) |->
               IF n = 0 THEN <<>> ELSE IF n \in P THEN Append(h[n - 1], list[n]) ELSE h[n - 1]]
    BY <1>4
  <2>2. DOMAIN h = 0 .. Len(list)
    BY <2>1, Zenon
  <2>3. Len(list) \in Nat
    OBVIOUS
  <2>4. ASSUME NEW n \in 0 .. Len(list)
        PROVE  h[n] = IF n = 0 THEN <<>> ELSE IF n \in P THEN Append(h[n - 1], list[n]) ELSE h[n - 1]
    BY <2>1, Zenon
  <2> QED BY <2>2, <2>3, <2>4
<1>6. \A n \in 0 .. Len(list) : h[n] = g[n]
  <2> DEFINE Differ == {m \in 0 .. Len(list) : h[m] # g[m]}
  <2>1. ASSUME Differ # {} PROVE FALSE
    <3>1. PICK m \in Differ : \A k \in Differ : m <= k
      <4>1. Differ \in SUBSET Nat
        OBVIOUS
      <4> HIDE DEF Differ
      <4> QED BY <2>1, <4>1, LeastNumber
    <3>2. m # 0
      BY <1>2, <1>5, <3>1 DEF Filters
    <3>3. m \in 1 .. Len(list) /\ m - 1 \in 0 .. Len(list) /\ ~(m <= m - 1)
      BY <1>5, <3>1, <3>2
    <3>4. h[m - 1] = g[m - 1]
      BY <3>1, <3>3
    <3> QED BY <1>2, <1>5, <3>1, <3>2, <3>3, <3>4 DEF Filters
  <2> QED BY <2>1
<1>7. Kept(list, P) = g[Len(list)] /\ g[Len(list)] \in Seq(A)
  BY <1>1, <1>2, <1>5, <1>6 DEF Filters
<1>8. P \cap (1 .. Len(list)) = P /\ Len(list) \in 0 .. Len(list)
  BY <1>5
<1> QED BY <1>2, <1>7, <1>8, FilteredElements

(***************************************************************************)
(* Conversations, memory and the voice of the office (ElevaOffice).        *)
(***************************************************************************)

Whats == {"question", "execute", "note", "execution_detected", "route_through_approval",
          "context_supplied", "no_facts", "supply_facts"}

\* What may be said in conversation c, and replied: no reply repeats a request to execute.
Texts(c) == [from : {c, Advisory}, what : Whats]
Replies(c) == {t \in Texts(c) : t.what # "execute"}

\* A memory entry holds a text of the conversation it is tagged with, and what is
\* recommended may be a reply.
Fits(e) ==
  /\ e.tag \in Conversations /\ e.class \in {"VERIFIED", "RECOMMENDATION"} /\ e.text \in Texts(e.tag)
  /\ e.class = "RECOMMENDATION" => e.text \in Replies(e.tag)

\* The entries of all conversations, and those of conversation c.
AllNotes ==
  {e \in [key : MemoryKeys, tag : Conversations, class : {"VERIFIED", "RECOMMENDATION"},
          text : UNION {Texts(c) : c \in Conversations}] : Fits(e)}
Notes(c) == {e \in AllNotes : e.tag = c}
ConversationRecords(c) == [open : BOOLEAN, messages : Seq(Texts(c)), keyed : BOOLEAN]

\* A request to execute is followed by its answer.
Routed(messages) ==
  \A i \in DOMAIN messages : messages[i].what = "execute" =>
    i < Len(messages) /\ messages[i + 1] = Text(Advisory, "route_through_approval")

ConversationInv(c) ==
  /\ conversation[c] \in ConversationRecords(c)
  /\ Len(conversation[c].messages) <= MaxMessages
  /\ Routed(conversation[c].messages)

OfficeIInv ==
  /\ conversation = [c \in Conversations |-> conversation[c]]
  /\ notes \in Seq(AllNotes)
  /\ \A c \in Conversations : ConversationInv(c)
  /\ voice \in VoiceStates
  /\ status \in [status : {"IDLE", "RUNNING", "ERROR"}, active : Capabilities \cup {NoCapability}]

\* A sequence of one and of two elements.
LEMMA One ==
  ASSUME NEW S, NEW x \in S
  PROVE  <<x>> \in Seq(S) /\ Len(<<x>>) = 1 /\ <<x>>[1] = x
OBVIOUS

\* Two elements.
LEMMA Two ==
  ASSUME NEW S, NEW x \in S, NEW y \in S
  PROVE  <<x, y>> \in Seq(S) /\ Len(<<x, y>>) = 2 /\ <<x, y>>[1] = x /\ <<x, y>>[2] = y
OBVIOUS

\* remember leaves an entry of the conversation, and the others as they were.
LEMMA RememberedNotes ==
  ASSUME NEW list \in Seq(AllNotes), NEW key \in MemoryKeys, NEW c \in Conversations,
         NEW class \in {"VERIFIED", "RECOMMENDATION"}, NEW text \in Texts(c),
         class = "RECOMMENDATION" => text \in Replies(c)
  PROVE  Remembered(list, key, c, class, text) \in Seq(AllNotes)
<1> DEFINE entry == [key |-> key, tag |-> c, class |-> class, text |-> text]
           others == Kept(list, {i \in DOMAIN list : list[i].key # key})
<1>1. entry \in AllNotes
  <2>1. text \in UNION {Texts(d) : d \in Conversations}
    OBVIOUS
  <2>2. entry \in [key : MemoryKeys, tag : Conversations, class : {"VERIFIED", "RECOMMENDATION"},
                   text : UNION {Texts(d) : d \in Conversations}]
    BY <2>1
  <2>3. entry.tag = c /\ entry.class = class /\ entry.text = text
    OBVIOUS
  <2> HIDE DEF entry
  <2>4. Fits(entry)
    BY <2>3 DEF Fits
  <2> QED BY <2>2, <2>4 DEF AllNotes
<1>2. others \in Seq(AllNotes)
  <2>1. {i \in DOMAIN list : list[i].key # key} \in SUBSET DOMAIN list
    OBVIOUS
  <2> QED BY <2>1, KeptElements
<1>3. Remembered(list, key, c, class, text) = <<entry>> \o others
  BY DEF Remembered
<1> HIDE DEF entry, others
<1>4. <<entry>> \in Seq(AllNotes)
  BY <1>1, One
<1> QED BY <1>2, <1>3, <1>4, ConcatProperties

\* recall finds entries of the conversation only.
LEMMA RecalledNotes ==
  ASSUME NEW list \in Seq(AllNotes), NEW c
  PROVE  recall(list, c) \in Seq(Notes(c))
<1> DEFINE P == {i \in DOMAIN list : list[i].tag = c}
           found == Kept(list, P)
<1>1. P \in SUBSET DOMAIN list
  OBVIOUS
<1>2. \A i \in P : list[i] \in Notes(c)
  BY DEF Notes
<1> HIDE DEF P
<1>3. found \in Seq(AllNotes) /\ \A j \in DOMAIN found : \E i \in P : found[j] = list[i]
  BY <1>1, KeptElements
<1> HIDE DEF found
<1>4. \A j \in DOMAIN found : found[j] \in Notes(c)
  BY <1>2, <1>3
<1>5. found \in Seq(Notes(c))
  <2>1. Len(found) \in Nat /\ DOMAIN found = 1 .. Len(found) /\ found = [j \in 1 .. Len(found) |-> found[j]]
    BY <1>3
  <2> QED BY <1>4, <2>1, SeqDef
<1> QED BY <1>5 DEF recall, found, P

\* The reply of Eleva: a text of the conversation or of the advisory that is no request to
\* execute, and the way through the approval pipeline when one was made.
LEMMA ReplyIs ==
  ASSUME NEW c, NEW list \in Seq(Notes(c)), NEW kind, NEW hasFacts \in BOOLEAN
  PROVE  /\ Reply(advise(kind, hasFacts), list) \in Replies(c)
         /\ kind = "execute" =>
              Reply(advise(kind, hasFacts), list) = Text(Advisory, "route_through_approval")
<1> DEFINE finding == advise(kind, hasFacts)
           P == {i \in DOMAIN list : list[i].class = "RECOMMENDATION"}
           recommended == Kept(list, P)
           told == [i \in 1 .. Len(recommended) |-> recommended[i].text]
           all == finding.recommendation \o told
<1>1. /\ Text(Advisory, "route_through_approval") \in Replies(c)
      /\ Text(Advisory, "supply_facts") \in Replies(c)
      /\ Text(Advisory, "execution_detected") \in Replies(c)
      /\ Text(Advisory, "context_supplied") \in Replies(c)
      /\ Text(Advisory, "no_facts") \in Replies(c)
  BY DEF Text, Replies, Texts, Whats
<1>2. finding.finding \in Replies(c) /\ finding.recommendation \in Seq(Replies(c))
      /\ (kind = "execute" => finding.recommendation = <<Text(Advisory, "route_through_approval")>>)
  <2>1. CASE kind = "execute"
    <3>1. finding = [finding |-> Text(Advisory, "execution_detected"),
                     recommendation |-> <<Text(Advisory, "route_through_approval")>>]
      BY <2>1 DEF advise
    <3> HIDE DEF finding
    <3>2. /\ finding.finding = Text(Advisory, "execution_detected")
          /\ finding.recommendation = <<Text(Advisory, "route_through_approval")>>
      BY <3>1
    <3> QED BY <1>1, <3>2, One
  <2>2. CASE kind # "execute" /\ hasFacts
    <3>1. finding = [finding |-> Text(Advisory, "context_supplied"), recommendation |-> <<>>]
      BY <2>2 DEF advise
    <3> HIDE DEF finding
    <3>2. finding.finding = Text(Advisory, "context_supplied") /\ finding.recommendation = <<>>
      BY <3>1
    <3> QED BY <1>1, <2>2, <3>2, EmptySeq
  <2>3. CASE kind # "execute" /\ ~hasFacts
    <3>1. finding = [finding |-> Text(Advisory, "no_facts"),
                     recommendation |-> <<Text(Advisory, "supply_facts")>>]
      BY <2>3 DEF advise
    <3> HIDE DEF finding
    <3>2. /\ finding.finding = Text(Advisory, "no_facts")
          /\ finding.recommendation = <<Text(Advisory, "supply_facts")>>
      BY <3>1
    <3> QED BY <1>1, <2>3, <3>2, One
  <2> QED BY <2>1, <2>2, <2>3
<1> HIDE DEF finding
<1>3. recommended \in Seq(Notes(c)) /\ \A j \in DOMAIN recommended : \E i \in P : recommended[j] = list[i]
  <2>1. P \in SUBSET DOMAIN list
    OBVIOUS
  <2> HIDE DEF P
  <2> QED BY <2>1, KeptElements
<1>4. \A j \in DOMAIN recommended : recommended[j].text \in Replies(c)
  <2>1. ASSUME NEW i \in P PROVE list[i].text \in Replies(c)
    <3>1. list[i] \in Notes(c) /\ list[i].class = "RECOMMENDATION"
      OBVIOUS
    <3>2. Fits(list[i]) /\ list[i].tag = c
      BY <3>1 DEF Notes, AllNotes
    <3> QED BY <3>1, <3>2 DEF Fits
  <2> HIDE DEF P, recommended
  <2> QED BY <1>3, <2>1
<1> HIDE DEF recommended, P
<1>5. told \in Seq(Replies(c))
  <2>1. Len(recommended) \in Nat /\ DOMAIN recommended = 1 .. Len(recommended)
    BY <1>3
  <2> QED BY <1>4, <2>1
<1>6. Reply(finding, list) = IF all = <<>> THEN finding.finding ELSE Head(all)
  BY DEF Reply, Recommendations, recommended, P
<1> HIDE DEF told
<1>7. all \in Seq(Replies(c))
  BY <1>2, <1>5, ConcatProperties
<1>8. CASE all = <<>>
  <2>1. kind # "execute"
    <3>1. ASSUME kind = "execute" PROVE FALSE
      <4>1. Len(all) = 1 + Len(told) /\ Len(told) \in Nat
        <5>0. finding.recommendation = <<Text(Advisory, "route_through_approval")>>
          BY <1>2, <3>1
        <5>1. Len(finding.recommendation) = 1
          BY <1>1, <5>0, One
        <5>2. Len(told) \in Nat
          BY <1>5, LenProperties
        <5>3. Len(all) = Len(finding.recommendation) + Len(told)
          BY <1>2, <1>5, ConcatProperties
        <5> QED BY <5>1, <5>2, <5>3
      <4> QED BY <1>8, <4>1, EmptySeq
    <3> QED BY <3>1
  <2> QED BY <1>2, <1>6, <1>8, <2>1 DEF finding
<1>9. CASE all # <<>>
  <2>1. Head(all) \in Replies(c)
    BY <1>7, <1>9
  <2>2. ASSUME kind = "execute" PROVE Head(all) = Text(Advisory, "route_through_approval")
    <3>1. Len(finding.recommendation) = 1 /\ 1 \in 1 .. Len(finding.recommendation)
          /\ finding.recommendation[1] = Text(Advisory, "route_through_approval")
      <4>1. finding.recommendation = <<Text(Advisory, "route_through_approval")>>
        BY <1>2, <2>2
      <4>2. Len(finding.recommendation) = 1
          /\ finding.recommendation[1] = Text(Advisory, "route_through_approval")
        BY <1>1, <4>1, One
      <4> QED BY <4>2
    <3>2. all[1] = finding.recommendation[1] /\ Len(all) \in Nat
      <4>1. Len(told) \in Nat
        BY <1>5, LenProperties
      <4>2. 1 \in 1 .. Len(finding.recommendation) + Len(told)
        BY <3>1, <4>1
      <4>3. Len(all) \in Nat
        BY <1>7, LenProperties
      <4> QED BY <1>2, <1>5, <3>1, <4>2, <4>3, ConcatProperties
    <3>3. Head(all) = all[1]
      BY <1>7, <1>9
    <3> QED BY <3>1, <3>2, <3>3
  <2> QED BY <1>6, <1>9, <2>1, <2>2 DEF finding
<1> QED BY <1>8, <1>9

\* A conversation changes, and the memory; the other conversations stay.
LEMMA OneConversation ==
  ASSUME OfficeIInv, NEW c \in Conversations, NEW r,
         conversation' = [conversation EXCEPT ![c] = r], notes' \in Seq(AllNotes),
         r \in ConversationRecords(c), Len(r.messages) <= MaxMessages, Routed(r.messages),
         UNCHANGED <<voice, status>>
  PROVE  OfficeIInv'
<1>1. /\ conversation' = [d \in Conversations |-> conversation'[d]]
      /\ conversation'[c] = r
      /\ \A d \in Conversations \ {c} : conversation'[d] = conversation[d]
  BY DEF OfficeIInv
<1>2. ASSUME NEW d \in Conversations PROVE ConversationInv(d)'
  <2>1. CASE d = c
    BY <1>1, <2>1 DEF ConversationInv
  <2>2. CASE d # c
    BY <1>1, <2>2 DEF OfficeIInv, ConversationInv
  <2> QED BY <2>1, <2>2
<1> QED BY <1>1, <1>2 DEF OfficeIInv

\* Two messages are appended: what was said and what is replied.
LEMMA Exchange ==
  ASSUME NEW c, NEW m \in Seq(Texts(c)), Routed(m), NEW said \in Texts(c), NEW reply \in Replies(c),
         said.what = "execute" => reply = Text(Advisory, "route_through_approval")
  PROVE  /\ m \o <<said, reply>> \in Seq(Texts(c)) /\ Len(m \o <<said, reply>>) = Len(m) + 2
         /\ Routed(m \o <<said, reply>>)
<1> DEFINE n == m \o <<said, reply>>
<1>1. reply \in Texts(c) /\ reply.what # "execute" 
  <2>1. reply \in Texts(c) /\ reply.what # "execute"
    BY DEF Replies
  <2> QED BY <2>1
<1>2. /\ n \in Seq(Texts(c)) /\ Len(n) = Len(m) + 2 /\ Len(m) \in Nat
      /\ n[Len(m) + 1] = said /\ n[Len(m) + 2] = reply
      /\ \A i \in DOMAIN m : n[i] = m[i]
      /\ DOMAIN n = 1 .. Len(m) + 2 /\ DOMAIN m = 1 .. Len(m)
  <2> DEFINE two == <<said, reply>>
  <2>1. two \in Seq(Texts(c)) /\ Len(two) = 2 /\ two[1] = said /\ two[2] = reply
    <3>1. reply \in Texts(c)
      BY <1>1
    <3> QED BY <3>1, Two
  <2>2. Len(m) \in Nat /\ DOMAIN m = 1 .. Len(m)
    BY LenProperties
  <2> HIDE DEF two
  <2>3. /\ n \in Seq(Texts(c)) /\ Len(n) = Len(m) + 2
        /\ \A i \in 1 .. Len(m) + 2 : n[i] = IF i <= Len(m) THEN m[i] ELSE two[i - Len(m)]
    BY <2>1, ConcatProperties DEF two
  <2> HIDE DEF n
  <2>4. DOMAIN n = 1 .. Len(m) + 2
    <3>1. DOMAIN n = 1 .. Len(n)
      BY <2>3, LenProperties
    <3> QED BY <2>3, <3>1
  <2> QED BY <2>1, <2>2, <2>3, <2>4
<1> HIDE DEF n
<1>3. ASSUME NEW i \in DOMAIN n, n[i].what = "execute"
      PROVE  i < Len(n) /\ n[i + 1] = Text(Advisory, "route_through_approval")
  <2>1. CASE i \in DOMAIN m
    <3>1. i < Len(m) /\ m[i + 1] = Text(Advisory, "route_through_approval")
      BY <1>2, <1>3, <2>1 DEF Routed
    <3>2. i + 1 \in DOMAIN m
      BY <1>2, <2>1, <3>1
    <3> QED BY <1>2, <3>1, <3>2
  <2>2. CASE i \notin DOMAIN m
    <3>1. i = Len(m) + 1 \/ i = Len(m) + 2
      BY <1>2, <2>2
    <3>2. i = Len(m) + 1
      BY <1>1, <1>2, <1>3, <3>1
    <3>3. i + 1 = Len(m) + 2 /\ i < Len(n)
      BY <1>2, <3>2
    <3> QED BY <1>2, <1>3, <3>2, <3>3
  <2> QED BY <2>1, <2>2
<1>4. Routed(n)
  BY <1>3 DEF Routed
<1> QED BY <1>2, <1>4 DEF n

\* Every step of the office keeps the inductive invariant.
LEMMA OfficeNextIInv ==
  OfficeIInv /\ [ConversationNext \/ VoiceNext]_officeVars => OfficeIInv'
<1> SUFFICES ASSUME OfficeIInv, [ConversationNext \/ VoiceNext]_officeVars PROVE OfficeIInv'
  OBVIOUS
<1>0. ASSUME UNCHANGED <<conversation, notes>>
      PROVE  /\ conversation' = [c \in Conversations |-> conversation'[c]]
             /\ notes' \in Seq(AllNotes)
             /\ \A c \in Conversations : ConversationInv(c)'
  BY <1>0 DEF OfficeIInv, ConversationInv
<1>1. CASE UNCHANGED officeVars
  BY <1>0, <1>1 DEF officeVars, OfficeIInv
<1>2. CASE VoiceNext
  <2>1. UNCHANGED <<conversation, notes>>
    BY <1>2 DEF VoiceNext, transition, startCapability, EndCapability
  <2>2. voice' \in VoiceStates
    BY <1>2 DEF VoiceNext, transition, startCapability, EndCapability, OfficeIInv, VoiceStates
  <2>3. status' \in [status : {"IDLE", "RUNNING", "ERROR"}, active : Capabilities \cup {NoCapability}]
    BY <1>2 DEF VoiceNext, transition, startCapability, EndCapability, OfficeIInv
  <2> QED BY <1>0, <2>1, <2>2, <2>3 DEF OfficeIInv
<1>3. ASSUME NEW c \in Conversations, startConversation(c) PROVE OfficeIInv'
  <2> DEFINE r == Blank(TRUE)
  <2>1. r \in ConversationRecords(c) /\ r.messages = <<>>
    <3>1. r = [open |-> TRUE, messages |-> <<>>, keyed |-> FALSE]
      BY DEF Blank
    <3> HIDE DEF r
    <3>2. <<>> \in Seq(Texts(c))
      BY EmptySeq
    <3> QED BY <3>1, <3>2 DEF ConversationRecords
  <2>2. conversation' = [conversation EXCEPT ![c] = r] /\ UNCHANGED <<notes, voice, status>>
    BY <1>3 DEF startConversation, OfficeIInv
  <2>3. notes' \in Seq(AllNotes)
    BY <2>2 DEF OfficeIInv
  <2> HIDE DEF r
  <2>4. Len(r.messages) <= MaxMessages /\ Routed(r.messages)
    BY <2>1, OfficeAssumption DEF Routed
  <2> QED BY <2>1, <2>2, <2>3, <2>4, OneConversation
<1>4. ASSUME NEW c \in Conversations, NEW kind \in {"question", "execute"}, respondToConversation(c, kind)
      PROVE  OfficeIInv'
  <2> DEFINE said == Text(c, kind)
             heard == IF conversation[c].keyed THEN notes
                      ELSE Remembered(notes, Key("last-user-message", c), c, "VERIFIED", said)
             evidence == recall(heard, c)
             reply == Reply(advise(kind, evidence # <<>>), evidence)
             m == conversation[c].messages
             r == [conversation[c] EXCEPT !.messages = m \o <<said, reply>>, !.keyed = TRUE]
             list == Remembered(heard, Key("last-response", c), c, "RECOMMENDATION", reply)
  <2>1. /\ Len(m) + 2 <= MaxMessages
        /\ conversation' = [conversation EXCEPT ![c].messages = @ \o <<said, reply>>, ![c].keyed = TRUE]
        /\ notes' = list
        /\ UNCHANGED <<voice, status>>
    BY <1>4 DEF respondToConversation
  <2>2. conversation' = [conversation EXCEPT ![c] = r]
    <3> HIDE DEF said, reply
    <3> QED BY <2>1 DEF OfficeIInv
  <2>3. said \in Texts(c) /\ said.what = kind
    BY DEF Text, Texts, Whats
  <2>4. notes \in Seq(AllNotes) /\ conversation[c] \in ConversationRecords(c) /\ Routed(m)
    BY DEF OfficeIInv, ConversationInv
  <2> HIDE DEF said
  <2>5. heard \in Seq(AllNotes)
    <3>1. Key("last-user-message", c) \in MemoryKeys
      BY DEF MemoryKeys
    <3> QED BY <2>3, <2>4, <3>1, RememberedNotes
  <2>6. evidence \in Seq(Notes(c))
    <3> HIDE DEF heard
    <3> QED BY <2>5, RecalledNotes
  <2> HIDE DEF heard, evidence
  <2>7. reply \in Replies(c) /\ (kind = "execute" => reply = Text(Advisory, "route_through_approval"))
    BY <2>6, ReplyIs
  <2> HIDE DEF reply
  <2>8. list \in Seq(AllNotes)
    <3>1. Key("last-response", c) \in MemoryKeys /\ reply \in Texts(c)
      BY <2>7 DEF Replies, MemoryKeys
    <3> QED BY <2>5, <2>7, <3>1, RememberedNotes
  <2>9. m \in Seq(Texts(c))
    BY <2>4 DEF ConversationRecords
  <2> DEFINE n == m \o <<said, reply>>
  <2>10. n \in Seq(Texts(c)) /\ Len(n) = Len(m) + 2 /\ Routed(n)
    <3> HIDE DEF m
    <3> QED BY <2>3, <2>4, <2>7, <2>9, Exchange
  <2> HIDE DEF list, m
  <2>11. r = [conversation[c] EXCEPT !.messages = n, !.keyed = TRUE]
    OBVIOUS
  <2> HIDE DEF n, r
  <2>12. r \in ConversationRecords(c) /\ r.messages = n
    BY <2>4, <2>10, <2>11 DEF ConversationRecords
  <2> QED BY <2>1, <2>2, <2>8, <2>10, <2>12, OneConversation
<1>5. ASSUME NEW c \in Conversations, NEW key \in MemoryKeys, NEW class \in {"VERIFIED", "RECOMMENDATION"},
             RememberNote(c, key, class)
      PROVE  OfficeIInv'
  <2> DEFINE list == Remembered(notes, key, c, class, Text(c, "note"))
  <2>1. notes' = list /\ conversation' = [conversation EXCEPT ![c] = conversation[c]]
        /\ UNCHANGED <<voice, status>>
    BY <1>5 DEF RememberNote, OfficeIInv
  <2>2. Text(c, "note") \in Replies(c) /\ Text(c, "note") \in Texts(c)
    BY DEF Text, Texts, Replies, Whats
  <2>3. /\ notes \in Seq(AllNotes) /\ conversation[c] \in ConversationRecords(c)
        /\ Len(conversation[c].messages) <= MaxMessages /\ Routed(conversation[c].messages)
    BY DEF OfficeIInv, ConversationInv
  <2>4. list \in Seq(AllNotes)
    BY <2>2, <2>3, RememberedNotes
  <2> HIDE DEF list
  <2> QED BY <2>1, <2>3, <2>4, OneConversation
<1> QED BY <1>1, <1>2, <1>3, <1>4, <1>5 DEF ConversationNext

\* ElevaMemoryService and ElevaAdvisoryService: whatever is said, noted and recommended in
\* any number of conversations, each is answered from itself and every request to execute
\* is sent through the approval pipeline.
THEOREM OfficeCorrect == OfficeSpec => []OfficeInv
<1>1. OfficeInit => OfficeIInv
  <2> SUFFICES ASSUME OfficeInit PROVE OfficeIInv
    OBVIOUS
  <2>1. conversation = [c \in Conversations |-> conversation[c]] /\ notes \in Seq(AllNotes)
    BY EmptySeq DEF OfficeInit
  <2>2. ASSUME NEW c \in Conversations PROVE ConversationInv(c)
    <3>1. conversation[c] = Blank(FALSE)
      BY DEF OfficeInit
    <3>2. Blank(FALSE) \in ConversationRecords(c) /\ Blank(FALSE).messages = <<>>
      BY EmptySeq DEF Blank, ConversationRecords
    <3> DEFINE blank == Blank(FALSE)
    <3> HIDE DEF blank
    <3>3. conversation[c] = blank /\ blank \in ConversationRecords(c) /\ blank.messages = <<>>
      BY <3>1, <3>2 DEF blank
    <3>4. Len(<<>>) <= MaxMessages /\ Routed(<<>>)
      BY OfficeAssumption, EmptySeq DEF Routed
    <3> QED BY <3>1, <3>3, <3>4 DEF ConversationInv
  <2>3. voice \in VoiceStates /\ status \in [status : {"IDLE", "RUNNING", "ERROR"}, active : Capabilities \cup {NoCapability}]
    BY DEF OfficeInit, VoiceStates
  <2> QED BY <2>1, <2>2, <2>3 DEF OfficeIInv
<1>2. OfficeIInv => OfficeInv
  <2> SUFFICES ASSUME OfficeIInv PROVE OfficeInv
    OBVIOUS
  <2>1. ASSUME NEW c \in Conversations
        PROVE  /\ conversation[c].open \in BOOLEAN /\ conversation[c].keyed \in BOOLEAN
               /\ conversation[c].messages \in Seq(Texts(c))
               /\ Routed(conversation[c].messages) /\ Len(conversation[c].messages) <= MaxMessages
    BY DEF OfficeIInv, ConversationInv, ConversationRecords
  <2>2. ASSUME NEW i \in DOMAIN notes
        PROVE  notes[i].class \in {"VERIFIED", "RECOMMENDATION"} /\ notes[i].tag \in Conversations
    <3>1. notes[i] \in AllNotes
      BY DEF OfficeIInv
    <3> HIDE DEF OfficeIInv
    <3>2. Fits(notes[i])
      BY <3>1 DEF AllNotes
    <3> QED BY <3>2 DEF Fits
  <2>3. status.status \in {"IDLE", "RUNNING", "ERROR"} /\ status.active \in Capabilities \cup {NoCapability}
        /\ voice \in VoiceStates
    BY DEF OfficeIInv
  <2>4. OfficeTypeOK
    BY <2>1, <2>2, <2>3 DEF OfficeTypeOK
  <2>5. NoCrossTalk
    <3>1. ASSUME NEW c \in Conversations, NEW i \in DOMAIN conversation[c].messages
          PROVE  conversation[c].messages[i].from \in {c, Advisory}
      <4>1. conversation[c].messages[i] \in Texts(c)
        BY <2>1
      <4> QED BY <4>1 DEF Texts
    <3> QED BY <3>1 DEF NoCrossTalk
  <2>6. ExecutionIsRouted
    <3>1. ASSUME NEW c \in Conversations, NEW i \in DOMAIN conversation[c].messages,
                 conversation[c].messages[i] = Text(c, "execute")
          PROVE  conversation[c].messages[i + 1] = Text(Advisory, "route_through_approval")
      <4>1. conversation[c].messages[i].what = "execute"
        BY <3>1 DEF Text
      <4> QED BY <2>1, <4>1 DEF Routed
    <3> QED BY <3>1 DEF ExecutionIsRouted
  <2> QED BY <2>4, <2>5, <2>6 DEF OfficeInv
<1> QED BY <1>1, <1>2, OfficeNextIInv, PTL DEF OfficeSpec

(***************************************************************************)
(* The agent's blockers, history, tasks and plans (ElevaAgent).            *)
(***************************************************************************)

Blockers == Tasks \cup {NoObjectiveBlocker}
Executions == [task : Tasks, outcome : Outcomes]

\* What a task waits for.
TaskState(x) ==
  /\ x.phase \in {"new", "running", "auditing", "done"}
  /\ x.phase = "running" =>
       /\ x.tool \in ToolDefs /\ x.hasId \in BOOLEAN /\ x.approved \in BOOLEAN
       /\ x.tool.needsApproval => x.hasId
       /\ ~x.approved => ~(x.named /\ x.risky)
  /\ x.phase = "auditing" => x.outcome \in Outcomes

\* A plan waits for its verifier only under an action id, and an approval is used up by
\* the execution it allows.
PlanState(x) ==
  /\ x \in [status : {"none", "pending", "approved", "executed", "failed", "verified"},
            id : ActionIds \cup {NoId}, waiting : Nat, approvals : Nat, runs : Nat]
  /\ x.runs <= x.approvals
  /\ x.status = "approved" /\ x.id # NoId => x.runs < x.approvals

\* What may be found under a key of the agent that holds a list.
ListEntry(entry, S) ==
  entry \in {Unwritten, Garbage} \/ (entry = Entry(entry.value) /\ entry.value \in Seq(S))

\* The agent's own writing under its keys: the list of blockers as it is, nothing under the
\* history, and anything once someone else wrote there.
MemInv ==
  /\ mem = [k \in Keys |-> mem[k]]
  /\ mem["objective"] = Unwritten \/ \E o \in Objectives : mem["objective"] = Entry(o)
  /\ ListEntry(mem["plan"], PlanItems)
  /\ ListEntry(mem["blockers"], Blockers)
  /\ ListEntry(mem["history"], Executions)
  /\ ~foreign => mem["blockers"] \in {Unwritten, Entry(blockers)} /\ mem["history"] = Unwritten

Blocked(t) == \E i \in DOMAIN blockers : blockers[i] = t
Refused(t) == \E i \in DOMAIN executions : executions[i] = [task |-> t, outcome |-> "APPROVAL_REQUIRED"]

\* A failed verification is recorded in a moment, or among the blockers.
FailedInv(t) ==
  /\ task[t].phase \in {"auditing", "done"}
  /\ task[t].phase = "auditing" => task[t].outcome = "VERIFICATION_FAILURE"
  /\ ~foreign /\ task[t].phase = "done" => Blocked(t)

PendingInv(t) ==
  /\ task[t].phase = "done" /\ t \notin failed
  /\ ~foreign => Refused(t)

ListsInv ==
  /\ executions \in Seq(Executions)
  /\ plan \in Seq(PlanItems)
  /\ blockers \in Seq(Blockers)
  /\ objective \in Objectives \cup {NoObjective}
  /\ foreign \in BOOLEAN

TasksInv ==
  /\ extraTool \in ExtraTools \cup {NoTool}
  /\ task = [t \in Tasks |-> task[t]]
  /\ \A t \in Tasks : TaskState(task[t])
  /\ pending \subseteq Tasks /\ failed \subseteq Tasks
  /\ \A t \in failed : FailedInv(t)
  /\ \A t \in pending : PendingInv(t)

PlansInv ==
  /\ approvals \in [ActionIds -> ApprovalRecords]
  /\ opPlan = [p \in Plans |-> opPlan[p]]
  /\ \A p \in Plans : PlanState(opPlan[p])

AgentIInv == ListsInv /\ MemInv /\ TasksInv /\ PlansInv

\* A list grows by one element.
LEMMA ListGrows ==
  ASSUME NEW S, NEW list \in Seq(S), NEW e \in S
  PROVE  /\ Append(list, e) \in Seq(S)
         /\ \A i \in DOMAIN list : i \in DOMAIN Append(list, e) /\ Append(list, e)[i] = list[i]
         /\ \E i \in DOMAIN Append(list, e) : Append(list, e)[i] = e
<1> DEFINE longer == Append(list, e)
<1>1. /\ longer \in Seq(S) /\ Len(longer) = Len(list) + 1
      /\ \A i \in 1 .. Len(list) : longer[i] = list[i]
      /\ longer[Len(list) + 1] = e
  BY AppendProperties
<1> HIDE DEF longer
<1>2. Len(list) \in Nat /\ DOMAIN list = 1 .. Len(list) /\ DOMAIN longer = 1 .. Len(list) + 1
  BY <1>1, LenProperties
<1>3. Len(list) + 1 \in DOMAIN longer /\ \A i \in DOMAIN list : i \in DOMAIN longer
  BY <1>2
<1> QED BY <1>1, <1>2, <1>3 DEF longer

\* No task moves, and nothing recorded is lost.
LEMMA NoTaskMoves ==
  ASSUME TasksInv, UNCHANGED <<task, pending, failed>>, extraTool' \in ExtraTools \cup {NoTool},
         ~foreign' => ~foreign,
         ~foreign' => \A t \in failed : Blocked(t) => Blocked(t)',
         ~foreign' => \A t \in pending : Refused(t) => Refused(t)'
  PROVE  TasksInv'
<1>1. ASSUME NEW t \in failed' PROVE FailedInv(t)'
  BY <1>1 DEF TasksInv, FailedInv
<1>2. ASSUME NEW t \in pending' PROVE PendingInv(t)'
  BY <1>2 DEF TasksInv, PendingInv
<1>3. task' = [t \in Tasks |-> task'[t]] /\ \A t \in Tasks : TaskState(task'[t])
  BY DEF TasksInv
<1> QED BY <1>1, <1>2, <1>3 DEF TasksInv

\* One task moves.
LEMMA OneTaskMoves ==
  ASSUME TasksInv, UNCHANGED <<extraTool, foreign>>,
         NEW t \in Tasks, NEW x, TaskState(x), task' = [task EXCEPT ![t] = x],
         task[t].phase # "done", t \notin pending' \/ x.phase = "done",
         pending' \in SUBSET Tasks, failed' \in SUBSET Tasks,
         \A u \in Tasks \ {t} : (u \in pending' => u \in pending) /\ (u \in failed' <=> u \in failed),
         \A u \in failed : Blocked(u) => Blocked(u)',
         \A u \in pending : Refused(u) => Refused(u)',
         t \in failed' => x.phase \in {"auditing", "done"} /\ t \notin pending',
         t \in failed' /\ x.phase = "auditing" => x.outcome = "VERIFICATION_FAILURE",
         t \in failed' /\ ~foreign /\ x.phase = "done" => Blocked(t)',
         t \in pending' /\ ~foreign => Refused(t)'
  PROVE  TasksInv'
<1>1. /\ task' = [u \in Tasks |-> task'[u]] /\ task'[t] = x
      /\ \A u \in Tasks \ {t} : task'[u] = task[u]
  BY DEF TasksInv
<1>2. ASSUME NEW u \in Tasks PROVE TaskState(task'[u])
  <2>1. CASE u = t
    BY <1>1, <2>1
  <2>2. CASE u # t
    BY <1>1, <2>2 DEF TasksInv
  <2> QED BY <2>1, <2>2
<1>3. ASSUME NEW u \in failed' PROVE FailedInv(u)'
  <2>1. CASE u = t
    <3>1. t \in failed'
      BY <1>3, <2>1
    <3>2. FailedInv(t)'
      BY <1>1, <3>1 DEF FailedInv
    <3> QED BY <2>1, <3>2 DEF FailedInv, Blocked
  <2>2. CASE u # t
    <3>1. u \in failed /\ u \in Tasks /\ FailedInv(u) /\ task'[u] = task[u]
      BY <1>1, <1>3, <2>2 DEF TasksInv
    <3> QED BY <3>1 DEF FailedInv
  <2> QED BY <2>1, <2>2
<1>4. ASSUME NEW u \in pending' PROVE PendingInv(u)'
  <2>1. CASE u = t
    <3>1. t \in pending' /\ x.phase = "done" /\ t \notin failed'
      BY <1>4, <2>1
    <3>2. PendingInv(t)'
      BY <1>1, <3>1 DEF PendingInv
    <3> QED BY <2>1, <3>2 DEF PendingInv, Refused
  <2>2. CASE u # t
    <3>1. u \in pending /\ u \in Tasks /\ PendingInv(u) /\ task'[u] = task[u] /\ u \notin failed'
      BY <1>1, <1>4, <2>2 DEF TasksInv, PendingInv
    <3> QED BY <3>1 DEF PendingInv
  <2> QED BY <2>1, <2>2
<1>5. extraTool' \in ExtraTools \cup {NoTool} /\ \A u \in Tasks : TaskState(task[u])'
  BY <1>2 DEF TasksInv
<1> QED BY <1>1, <1>3, <1>4, <1>5 DEF TasksInv


\* What the agent writes under its keys stays, when it writes nothing.
LEMMA NothingWritten ==
  ASSUME MemInv, UNCHANGED <<mem, foreign, blockers>>
  PROVE  MemInv'
BY DEF MemInv, ListEntry

\* The lists stay.
LEMMA NothingListed ==
  ASSUME ListsInv, UNCHANGED <<executions, plan, blockers, objective, foreign>>
  PROVE  ListsInv'
BY DEF ListsInv

\* The plans stay.
LEMMA NothingPlanned ==
  ASSUME PlansInv, UNCHANGED <<approvals, opPlan>>
  PROVE  PlansInv'
BY DEF PlansInv

\* The tool of a request.
LEMMA ToolOfRequest ==
  ASSUME TasksInv, NEW req \in Requests
  PROVE  resolveTool(req) \in ToolDefs
<1>1. SafeTool \in ToolDefs /\ NoTool \in ToolDefs
  BY DEF SafeTool, NoTool, ToolDefs
<1>2. extraTool \in ToolDefs
  BY <1>1, AgentAssumption DEF TasksInv
<1> QED BY <1>1, <1>2 DEF resolveTool

\* What a task waits for once it is started.
LEMMA StartedState ==
  ASSUME TasksInv, NEW req \in Requests, NEW permitted \in BOOLEAN,
         ~(isApprovalRequired(req) /\ ~HasApproval(req))
  PROVE  /\ Gate(req, resolveTool(req), permitted) # "" =>
              TaskState([phase |-> "auditing", outcome |-> Gate(req, resolveTool(req), permitted)])
         /\ Gate(req, resolveTool(req), permitted) = "" =>
              TaskState(Running(req, resolveTool(req)))
<1> DEFINE tool == resolveTool(req)
           answer == Gate(req, tool, permitted)
<1>1. tool \in ToolDefs
  BY ToolOfRequest
<1>2. tool.needsApproval \in BOOLEAN /\ req.hasInput \in BOOLEAN
  BY <1>1 DEF ToolDefs, Requests
<1> HIDE DEF tool
<1>3. CASE answer # ""
  <2>1. answer \in {"UNAUTHORIZED", "APPROVAL_REQUIRED", "INVALID_INPUT"}
    BY <1>2, <1>3 DEF Gate
  <2> HIDE DEF answer
  <2> DEFINE x == [phase |-> "auditing", outcome |-> answer]
  <2>2. x.phase = "auditing" /\ x.outcome = answer
    OBVIOUS
  <2> HIDE DEF x
  <2>3. TaskState(x)
    BY <2>1, <2>2 DEF TaskState, Outcomes
  <2> QED BY <1>3, <2>3 DEF x, answer, tool
<1>4. CASE answer = ""
  <2>1. permitted /\ (tool.needsApproval => req.id # NoId)
    BY <1>2, <1>4 DEF Gate
  <2> DEFINE x == Running(req, tool)
             hasId == req.id # NoId
             named == req.tool # "none"
             risky == Risky(req)
             approved == HasApproval(req)
  <2>2. hasId \in BOOLEAN /\ approved \in BOOLEAN /\ (tool.needsApproval => hasId)
    BY <2>1 DEF HasApproval
  <2>3. ~approved => ~(named /\ risky)
    BY DEF isApprovalRequired
  <2>4. x = [phase |-> "running", tool |-> tool, named |-> named, risky |-> risky, hasId |-> hasId,
             approved |-> approved]
    BY DEF Running
  <2> HIDE DEF x, hasId, named, risky, approved
  <2>5. /\ x.phase = "running" /\ x.tool = tool /\ x.hasId = hasId /\ x.named = named
        /\ x.risky = risky /\ x.approved = approved
    BY <2>4
  <2>6. TaskState(x)
    BY <1>1, <2>2, <2>3, <2>5 DEF TaskState
  <2> QED BY <1>4, <2>6 DEF x, answer, tool
<1> QED BY <1>3, <1>4 DEF answer, tool

\* A refused task.
LEMMA RefuseTaskStep ==
  ASSUME AgentIInv, NEW t \in Tasks, NEW req \in Requests, NEW b \in BOOLEAN, RefuseTask(t, req, b)
  PROVE  AgentIInv'
<1> DEFINE outcome == IF b THEN "APPROVAL_REQUIRED" ELSE "UNAUTHORIZED"
           e == [task |-> t, outcome |-> outcome]
           x == [phase |-> "done"]
<1>1. /\ task[t] = NewTask /\ task' = [task EXCEPT ![t] = x] /\ executions' = Append(executions, e)
      /\ pending' = pending \cup {y \in {t} : b}
      /\ UNCHANGED <<approvals, extraTool, objective, plan, blockers, mem, opPlan, foreign, failed>>
  BY DEF RefuseTask, recordExecution
<1>2. outcome \in Outcomes /\ x.phase = "done" /\ TaskState(x) /\ task[t].phase = "new"
  BY <1>1 DEF Outcomes, TaskState, NewTask
<1>3. e \in Executions
  BY <1>2 DEF Executions
<1>4. executions \in Seq(Executions)
  BY DEF AgentIInv, ListsInv
<1> HIDE DEF e
<1>5. /\ executions' \in Seq(Executions)
      /\ \A i \in DOMAIN executions : i \in DOMAIN executions' /\ executions'[i] = executions[i]
      /\ \E i \in DOMAIN executions' : executions'[i] = e
  BY <1>1, <1>3, <1>4, ListGrows
<1>6. ListsInv' /\ MemInv' /\ PlansInv'
  BY <1>1, <1>5, NothingWritten, NothingPlanned DEF AgentIInv, ListsInv
<1>7. TasksInv'
  <2>1. \A u \in pending : Refused(u) => Refused(u)'
    BY <1>5 DEF Refused
  <2>2. t \notin failed
    BY <1>2 DEF AgentIInv, TasksInv, FailedInv
  <2>3. t \in pending' => Refused(t)'
    <3>1. CASE b
      BY <1>5, <3>1 DEF Refused, e
    <3>2. CASE ~b
      <4>1. t \notin pending
        BY <1>2 DEF AgentIInv, TasksInv, PendingInv
      <4> QED BY <1>1, <3>2, <4>1
    <3> QED BY <3>1, <3>2
  <2>4. \A u \in failed : Blocked(u) => Blocked(u)'
    BY <1>1 DEF Blocked
  <2>5. pending' \in SUBSET Tasks /\ failed' \in SUBSET Tasks
        /\ \A u \in Tasks \ {t} : (u \in pending' => u \in pending) /\ (u \in failed' <=> u \in failed)
    BY <1>1 DEF AgentIInv, TasksInv
  <2> HIDE DEF x
  <2> QED BY <1>1, <1>2, <2>1, <2>2, <2>3, <2>4, <2>5, OneTaskMoves DEF AgentIInv
<1> QED BY <1>6, <1>7 DEF AgentIInv

\* A task that moves and leaves the records alone.
LEMMA QuietTask ==
  ASSUME AgentIInv, NEW t \in Tasks, NEW x, TaskState(x), task[t].phase \in {"new", "running"},
         task' = [task EXCEPT ![t] = x],
         failed' \in SUBSET Tasks, \A u \in Tasks \ {t} : u \in failed' <=> u \in failed,
         t \in failed' => x.phase = "auditing" /\ x.outcome = "VERIFICATION_FAILURE",
         UNCHANGED <<approvals, extraTool, executions, pending, objective, plan, blockers, mem, opPlan, foreign>>
  PROVE  AgentIInv'
<1>1. ListsInv' /\ MemInv' /\ PlansInv'
  BY NothingWritten, NothingPlanned, NothingListed DEF AgentIInv
<1>2. t \notin pending
  BY DEF AgentIInv, TasksInv, PendingInv
<1>3. (\A u \in failed : Blocked(u) => Blocked(u)') /\ (\A u \in pending : Refused(u) => Refused(u)')
  BY DEF Blocked, Refused
<1>4. pending' \in SUBSET Tasks
  BY DEF AgentIInv, TasksInv
<1>5. TasksInv'
  BY <1>2, <1>3, <1>4, OneTaskMoves DEF AgentIInv
<1> QED BY <1>1, <1>5 DEF AgentIInv


\* A task starts, its tool answers, or its verifier throws.
LEMMA QuietSteps ==
  ASSUME AgentIInv, NEW t \in Tasks,
         \/ \E req \in Requests, b \in BOOLEAN : StartTask(t, req, b)
         \/ \E ran, verified \in BOOLEAN : ToolSettles(t, ran, verified)
         \/ VerifyThrows(t)
  PROVE  AgentIInv'
<1>0. failed \in SUBSET Tasks /\ TaskState(task[t]) /\ (t \in failed => task[t].phase \in {"auditing", "done"})
  BY DEF AgentIInv, TasksInv, FailedInv
<1>1. ASSUME NEW req \in Requests, NEW b \in BOOLEAN, StartTask(t, req, b) PROVE AgentIInv'
  <2> DEFINE x == IF Gate(req, resolveTool(req), b) = ""
                  THEN Running(req, resolveTool(req))
                  ELSE [phase |-> "auditing", outcome |-> Gate(req, resolveTool(req), b)]
  <2>1. /\ task[t] = NewTask /\ task' = [task EXCEPT ![t] = x]
        /\ ~(isApprovalRequired(req) /\ ~HasApproval(req))
        /\ UNCHANGED <<approvals, extraTool, executions, pending, objective, plan, blockers, mem, opPlan,
                       foreign, failed>>
    BY <1>1 DEF StartTask
  <2>2. TaskState(x)
    BY <2>1, StartedState DEF AgentIInv
  <2>3. task[t].phase = "new" /\ t \notin failed
    <3>1. task[t].phase = "new"
      <4> HIDE DEF x
      <4> QED BY <2>1 DEF NewTask
    <3> QED BY <1>0, <3>1
  <2> HIDE DEF x
  <2> QED BY <1>0, <2>1, <2>2, <2>3, QuietTask
<1>2. ASSUME NEW ran \in BOOLEAN, NEW verified \in BOOLEAN, ToolSettles(t, ran, verified) PROVE AgentIInv'
  <2> DEFINE outcome == Verdict(task[t].tool, ran, verified)
             x == [phase |-> "auditing", outcome |-> outcome]
  <2>1. /\ task[t].phase = "running" /\ task' = [task EXCEPT ![t] = x]
        /\ failed' = failed \cup {y \in {t} : outcome = "VERIFICATION_FAILURE"}
        /\ UNCHANGED <<approvals, extraTool, executions, pending, objective, plan, blockers, mem, opPlan, foreign>>
    BY <1>2 DEF ToolSettles
  <2>2. outcome \in Outcomes
    <3>1. task[t].tool \in ToolDefs
      BY <1>0, <2>1 DEF TaskState
    <3> DEFINE tool == task[t].tool
    <3>2. tool.verifies \in BOOLEAN /\ tool.highRisk \in BOOLEAN
      BY <3>1 DEF ToolDefs
    <3> HIDE DEF tool
    <3>3. Verdict(tool, ran, verified) \in Outcomes
      BY <3>2 DEF Verdict, Outcomes
    <3> QED BY <3>3 DEF tool
  <2> HIDE DEF outcome
  <2>3. x.phase = "auditing" /\ x.outcome = outcome
    OBVIOUS
  <2> HIDE DEF x
  <2>4. TaskState(x)
    BY <2>2, <2>3 DEF TaskState
  <2>5. /\ failed' \in SUBSET Tasks /\ \A u \in Tasks \ {t} : u \in failed' <=> u \in failed
        /\ t \in failed' => x.outcome = "VERIFICATION_FAILURE"
    BY <1>0, <2>1, <2>3
  <2> QED BY <2>1, <2>3, <2>4, <2>5, QuietTask
<1>3. ASSUME VerifyThrows(t) PROVE AgentIInv'
  <2> DEFINE x == [phase |-> "done"]
  <2>1. /\ task[t].phase = "running" /\ task' = [task EXCEPT ![t] = x]
        /\ UNCHANGED <<approvals, extraTool, executions, pending, objective, plan, blockers, mem, opPlan,
                       foreign, failed>>
    BY <1>3 DEF VerifyThrows
  <2>2. TaskState(x)
    BY DEF TaskState
  <2>3. t \notin failed
    BY <1>0, <2>1
  <2> HIDE DEF x
  <2> QED BY <1>0, <2>1, <2>2, <2>3, QuietTask
<1> QED BY <1>1, <1>2, <1>3

\* An executed task is recorded, and a failed verification is persisted as a blocker.
LEMMA FinishTaskStep ==
  ASSUME AgentIInv, NEW t \in Tasks, FinishTask(t)
  PROVE  AgentIInv'
<1> DEFINE outcome == task[t].outcome
           e == [task |-> t, outcome |-> outcome]
           x == [phase |-> "done"]
           failure == outcome = "VERIFICATION_FAILURE"
<1>1. /\ task[t].phase = "auditing" /\ task' = [task EXCEPT ![t] = x] /\ executions' = Append(executions, e)
      /\ blockers' = IF failure THEN Append(blockers, t) ELSE blockers
      /\ mem' = IF failure THEN [mem EXCEPT !["blockers"] = Entry(blockers')] ELSE mem
      /\ pending' = IF outcome = "APPROVAL_REQUIRED" THEN pending \cup {t} ELSE pending \ {t}
      /\ UNCHANGED <<approvals, extraTool, objective, plan, opPlan, foreign, failed>>
  BY DEF FinishTask, recordExecution
<1>2. outcome \in Outcomes /\ TaskState(x) /\ x.phase = "done" /\ pending \in SUBSET Tasks /\ failed \in SUBSET Tasks
      /\ (t \in failed => failure)
  BY <1>1 DEF AgentIInv, TasksInv, TaskState, FailedInv
<1>3. e \in Executions
  BY <1>2 DEF Executions
<1>4. executions \in Seq(Executions) /\ blockers \in Seq(Blockers) /\ t \in Blockers
  BY DEF AgentIInv, ListsInv, Blockers
<1> HIDE DEF e
<1>5. /\ executions' \in Seq(Executions)
      /\ \A i \in DOMAIN executions : i \in DOMAIN executions' /\ executions'[i] = executions[i]
      /\ \E i \in DOMAIN executions' : executions'[i] = e
  BY <1>1, <1>3, <1>4, ListGrows
<1>6. /\ blockers' \in Seq(Blockers)
      /\ \A i \in DOMAIN blockers : i \in DOMAIN blockers' /\ blockers'[i] = blockers[i]
      /\ failure => \E i \in DOMAIN blockers' : blockers'[i] = t
  <2>1. CASE failure
    BY <1>1, <1>4, <2>1, ListGrows
  <2>2. CASE ~failure
    BY <1>1, <1>4, <2>2
  <2> QED BY <2>1, <2>2
<1>7. ListsInv' /\ PlansInv'
  BY <1>1, <1>5, <1>6, NothingPlanned DEF AgentIInv, ListsInv
<1>8. MemInv'
  <2>1. CASE failure
    <3>0. MemInv
      BY DEF AgentIInv
    <3> DEFINE entry == Entry(blockers')
    <3>1. entry.value = blockers' /\ entry = Entry(entry.value)
      BY DEF Entry
    <3>2. ListEntry(entry, Blockers)
      BY <1>6, <3>1 DEF ListEntry
    <3> HIDE DEF entry
    <3>3. /\ mem' = [k \in Keys |-> mem'[k]] /\ mem'["blockers"] = entry
          /\ mem'["objective"] = mem["objective"] /\ mem'["plan"] = mem["plan"] /\ mem'["history"] = mem["history"]
      BY <1>1, <2>1, <3>0 DEF MemInv, Keys, entry
    <3>4. foreign' = foreign
      BY <1>1
    <3>5. ListEntry(mem["blockers"], Blockers)'
      BY <3>2, <3>3 DEF ListEntry
    <3>6. ListEntry(mem["plan"], PlanItems)' /\ ListEntry(mem["history"], Executions)'
      BY <3>0, <3>3 DEF MemInv, ListEntry
    <3> QED BY <3>0, <3>3, <3>4, <3>5, <3>6 DEF MemInv, entry
  <2>2. CASE ~failure
    BY <1>1, <2>2, NothingWritten DEF AgentIInv
  <2> QED BY <2>1, <2>2
<1>9. TasksInv'
  <2>1. \A u \in pending : Refused(u) => Refused(u)'
    BY <1>5 DEF Refused
  <2>2. \A u \in failed : Blocked(u) => Blocked(u)'
    BY <1>6 DEF Blocked
  <2>3. t \in failed' => Blocked(t)' /\ t \notin pending'
    BY <1>1, <1>2, <1>6 DEF Blocked
  <2>4. t \in pending' => Refused(t)'
    BY <1>1, <1>5 DEF Refused, e
  <2>5. pending' \in SUBSET Tasks /\ failed' \in SUBSET Tasks
        /\ \A u \in Tasks \ {t} : (u \in pending' => u \in pending) /\ (u \in failed' <=> u \in failed)
    BY <1>1, <1>2
  <2> HIDE DEF x
  <2> QED BY <1>1, <1>2, <2>1, <2>2, <2>3, <2>4, <2>5, OneTaskMoves DEF AgentIInv
<1> QED BY <1>7, <1>8, <1>9 DEF AgentIInv

\* One entry is written under a key of the agent that holds no history.
LEMMA Written ==
  ASSUME MemInv, NEW v, UNCHANGED <<foreign, blockers>>,
         \/ mem' = [mem EXCEPT !["objective"] = v] /\ \E o \in Objectives : v = Entry(o)
         \/ mem' = [mem EXCEPT !["plan"] = v] /\ ListEntry(v, PlanItems)
  PROVE  MemInv'
<1>1. mem' = [k \in Keys |-> mem'[k]] /\ mem'["blockers"] = mem["blockers"] /\ mem'["history"] = mem["history"]
  BY DEF MemInv, Keys
<1>2. mem'["objective"] = Unwritten \/ \E o \in Objectives : mem'["objective"] = Entry(o)
  BY DEF MemInv, Keys
<1>3. ListEntry(mem'["plan"], PlanItems)
  BY DEF MemInv, Keys
<1>4. ListEntry(mem'["blockers"], Blockers) /\ ListEntry(mem'["history"], Executions)
  BY <1>1 DEF MemInv
<1> QED BY <1>1, <1>2, <1>3, <1>4 DEF MemInv, ListEntry

\* An objective is set, and advice becomes the plan.
LEMMA SimpleSteps ==
  ASSUME AgentIInv,
         \/ \E o \in Objectives : setObjective(o)
         \/ \E o \in Objectives \cup {NoObjective} : planNextTask(o)
  PROVE  AgentIInv'
<1>0. (blockers' = blockers => \A u \in failed : Blocked(u) => Blocked(u)')
      /\ (executions' = executions => \A u \in pending : Refused(u) => Refused(u)')
  BY DEF Blocked, Refused
<1>1. ASSUME NEW o \in Objectives, setObjective(o) PROVE AgentIInv'
  <2> USE <1>1 DEF setObjective
  <2>1. MemInv'
    <3> DEFINE v == Entry(o)
    <3>1. mem' = [mem EXCEPT !["objective"] = v] /\ UNCHANGED <<foreign, blockers>> /\ \E p \in Objectives : v = Entry(p)
      OBVIOUS
    <3> HIDE DEF v
    <3> QED BY <3>1, Written DEF AgentIInv
  <2>2. ListsInv' /\ PlansInv'
    BY NothingPlanned DEF AgentIInv, ListsInv
  <2>3. TasksInv'
    <3>1. extraTool' \in ExtraTools \cup {NoTool}
      BY DEF AgentIInv, TasksInv
    <3> QED BY <1>0, <3>1, NoTaskMoves DEF AgentIInv
  <2> QED BY <2>1, <2>2, <2>3 DEF AgentIInv
<1>2. ASSUME NEW o \in Objectives \cup {NoObjective}, planNextTask(o) PROVE AgentIInv'
  <2> USE <1>2 DEF planNextTask
  <2>0. plan' = <<"advice">> /\ "advice" \in PlanItems
    BY DEF PlanItems
  <2>1. plan' \in Seq(PlanItems)
    BY <2>0, One
  <2>2. MemInv'
    <3> DEFINE v == Entry(plan')
    <3>1. v.value = plan' /\ v = Entry(v.value)
      BY DEF Entry
    <3>2. ListEntry(v, PlanItems)
      BY <2>1, <3>1 DEF ListEntry
    <3>3. mem' = [mem EXCEPT !["plan"] = v] /\ UNCHANGED <<foreign, blockers>>
      OBVIOUS
    <3> HIDE DEF v
    <3> QED BY <3>2, <3>3, Written DEF AgentIInv
  <2>3. ListsInv' /\ PlansInv'
    BY <2>1, NothingPlanned DEF AgentIInv, ListsInv
  <2>4. TasksInv'
    <3>1. extraTool' \in ExtraTools \cup {NoTool}
      BY DEF AgentIInv, TasksInv
    <3> QED BY <1>0, <3>1, NoTaskMoves DEF AgentIInv
  <2> QED BY <2>2, <2>3, <2>4 DEF AgentIInv
<1> QED BY <1>1, <1>2


\* What is loaded: the lists as they are kept, unless someone else wrote under a key.
LEMMA LoadedIs ==
  ASSUME ListsInv, MemInv
  PROVE  /\ Loaded.objective \in Objectives \cup {NoObjective}
         /\ Loaded.executions \in Seq(Executions) /\ Loaded.plan \in Seq(PlanItems)
         /\ Loaded.blockers \in Seq(Blockers)
         /\ ~foreign => Loaded.executions = executions /\ Loaded.blockers = blockers
<1> DEFINE o == IF objective = NoObjective /\ mem["objective"] # Unwritten THEN mem["objective"].value ELSE objective
           e == IF mem["history"] \in {Unwritten, Garbage} THEN executions ELSE mem["history"].value
           items == Parsed(mem["plan"], plan)
           b == Parsed(mem["blockers"], blockers)
<1>1. Loaded = [objective |-> o, executions |-> e, plan |-> items, blockers |-> b]
  BY DEF Loaded
<1>2. o \in Objectives \cup {NoObjective}
  <2>1. CASE objective = NoObjective /\ mem["objective"] # Unwritten
    <3>1. PICK p \in Objectives : mem["objective"] = Entry(p)
      BY <2>1 DEF MemInv
    <3>2. o = mem["objective"].value
      BY <2>1
    <3>3. Entry(p).value = p
      BY DEF Entry
    <3> QED BY <3>1, <3>2, <3>3
  <2>2. CASE ~(objective = NoObjective /\ mem["objective"] # Unwritten)
    BY <2>2 DEF ListsInv
  <2> QED BY <2>1, <2>2
<1>3. e \in Seq(Executions) /\ (~foreign => e = executions)
  BY DEF ListsInv, MemInv, ListEntry
<1>4. ASSUME NEW S, NEW entry, NEW kept \in Seq(S), ListEntry(entry, S) PROVE Parsed(entry, kept) \in Seq(S)
  BY <1>4, EmptySeq DEF Parsed, ListEntry
<1>5. items \in Seq(PlanItems) /\ b \in Seq(Blockers)
  BY <1>4 DEF ListsInv, MemInv
<1>6. Unwritten # Garbage /\ Entry(blockers) # Unwritten /\ Entry(blockers) # Garbage /\ Entry(blockers).value = blockers
  BY DEF Unwritten, Garbage, Entry
<1>7. ~foreign => b = blockers
  BY <1>6 DEF ListsInv, MemInv, Parsed
<1> HIDE DEF o, e, items, b
<1>8. Loaded.objective = o /\ Loaded.executions = e /\ Loaded.plan = items /\ Loaded.blockers = b
  BY <1>1
<1> QED BY <1>2, <1>3, <1>5, <1>7, <1>8

\* Whatever is decided, a task among the blockers stays there.
LEMMA Decided ==
  ASSUME NEW s, s.blockers \in Seq(Blockers)
  PROVE  /\ determineNextAction(s).plan \in Seq(PlanItems)
         /\ determineNextAction(s).blockers \in Seq(Blockers)
         /\ \A t \in Tasks : \A i \in DOMAIN s.blockers : s.blockers[i] = t =>
              \E j \in DOMAIN determineNextAction(s).blockers : determineNextAction(s).blockers[j] = t
<1> DEFINE d == determineNextAction(s)
           old == s.blockers
           P == {i \in DOMAIN old : old[i] # NoObjectiveBlocker}
<1> HIDE DEF old
<1>0. old \in Seq(Blockers) /\ NoObjectiveBlocker \in Blockers
  BY DEF Blockers, old
<1>1. /\ Kept(old, P) \in Seq(Blockers)
      /\ \A i \in P : \E j \in DOMAIN Kept(old, P) : Kept(old, P)[j] = old[i]
  <2>1. P \in SUBSET DOMAIN old
    OBVIOUS
  <2> HIDE DEF P
  <2> QED BY <1>0, <2>1, KeptElements
<1>2. /\ Append(old, NoObjectiveBlocker) \in Seq(Blockers)
      /\ \A i \in DOMAIN old : i \in DOMAIN Append(old, NoObjectiveBlocker)
                               /\ Append(old, NoObjectiveBlocker)[i] = old[i]
  BY <1>0, ListGrows
<1>3. TaskBlockers(s.blockers) = Kept(old, P)
  BY DEF TaskBlockers, old
<1>4. <<>> \in Seq(PlanItems) /\ <<"resolve_blocker">> \in Seq(PlanItems) /\ <<"investigate_failure">> \in Seq(PlanItems)
      /\ <<"continue_objective">> \in Seq(PlanItems)
  BY One, EmptySeq DEF PlanItems
<1>5. \/ d = [plan |-> <<>>, blockers |-> Append(old, NoObjectiveBlocker)]
      \/ d = [plan |-> <<"resolve_blocker">>, blockers |-> Kept(old, P)]
      \/ d = [plan |-> <<"investigate_failure">>, blockers |-> old]
      \/ d = [plan |-> <<"continue_objective">>, blockers |-> old]
  BY <1>3 DEF determineNextAction, old
<1> DEFINE a == Append(old, NoObjectiveBlocker)
           k == Kept(old, P)
<1> HIDE DEF d, a, k
<1>6. d.plan \in Seq(PlanItems) /\ d.blockers \in {a, k, old}
  <2>1. ASSUME NEW items \in Seq(PlanItems), NEW b \in {a, k, old}, d = [plan |-> items, blockers |-> b]
        PROVE  d.plan \in Seq(PlanItems) /\ d.blockers \in {a, k, old}
    BY <2>1
  <2> DEFINE p1 == <<>>
             p2 == <<"resolve_blocker">>
             p3 == <<"investigate_failure">>
             p4 == <<"continue_objective">>
  <2>2. p1 \in Seq(PlanItems) /\ p2 \in Seq(PlanItems) /\ p3 \in Seq(PlanItems) /\ p4 \in Seq(PlanItems)
    BY <1>4
  <2>3. \/ d = [plan |-> p1, blockers |-> a] \/ d = [plan |-> p2, blockers |-> k]
        \/ d = [plan |-> p3, blockers |-> old] \/ d = [plan |-> p4, blockers |-> old]
    BY <1>5 DEF a, k
  <2> HIDE DEF p1, p2, p3, p4
  <2> QED BY <2>1, <2>2, <2>3
<1>7. \A t \in Tasks : \A i \in DOMAIN old : old[i] = t => \E j \in DOMAIN d.blockers : d.blockers[j] = t
  <2> SUFFICES ASSUME NEW t \in Tasks, NEW i \in DOMAIN old, old[i] = t
               PROVE  \E j \in DOMAIN d.blockers : d.blockers[j] = t
    OBVIOUS
  <2>1. i \in P
    BY AgentAssumption
  <2>2. \E j \in DOMAIN a : a[j] = t
    BY <1>2 DEF a
  <2>3. \E j \in DOMAIN k : k[j] = t
    BY <1>1, <2>1 DEF k
  <2> QED BY <1>6, <2>2, <2>3
<1> QED BY <1>0, <1>1, <1>2, <1>6, <1>7 DEF a, k, d, old

\* The state is loaded, the next action decided, and both are persisted.
LEMMA ContinueStep ==
  ASSUME AgentIInv, NEW o \in Objectives \cup {NoObjective}, continueFromLastState(o)
  PROVE  AgentIInv'
<1> DEFINE s == [Loaded EXCEPT !.objective = IF o = NoObjective THEN Loaded.objective ELSE o]
           next == determineNextAction(s)
           newObjective == IF o = NoObjective THEN mem["objective"] ELSE Entry(o)
<1>1. /\ objective' = s.objective /\ executions' = s.executions
      /\ plan' = next.plan /\ blockers' = next.blockers
      /\ mem' = [mem EXCEPT !["objective"] = newObjective,
                            !["plan"] = Entry(next.plan), !["blockers"] = Entry(next.blockers)]
      /\ UNCHANGED <<approvals, extraTool, task, pending, opPlan, foreign, failed>>
  BY DEF continueFromLastState
<1>2. ListsInv /\ MemInv
  BY DEF AgentIInv
<1>3. /\ s.objective \in Objectives \cup {NoObjective} /\ s.executions = Loaded.executions
      /\ s.blockers = Loaded.blockers
  <2>1. s.objective = IF o = NoObjective THEN Loaded.objective ELSE o
    BY DEF Loaded
  <2>2. s.executions = Loaded.executions /\ s.blockers = Loaded.blockers
    BY DEF Loaded
  <2> HIDE DEF s
  <2> QED BY <1>2, <2>1, <2>2, LoadedIs
<1> HIDE DEF s
<1>4. /\ next.plan \in Seq(PlanItems) /\ next.blockers \in Seq(Blockers)
      /\ \A t \in Tasks : \A i \in DOMAIN s.blockers : s.blockers[i] = t =>
           \E j \in DOMAIN next.blockers : next.blockers[j] = t
  BY <1>2, <1>3, LoadedIs, Decided
<1> HIDE DEF next
<1>5. ListsInv'
  BY <1>1, <1>2, <1>3, <1>4, LoadedIs DEF ListsInv
<1>6. MemInv'
  <2> DEFINE planEntry == Entry(next.plan)
             blockersEntry == Entry(next.blockers)
  <2>1. /\ planEntry.value = next.plan /\ planEntry = Entry(planEntry.value)
        /\ blockersEntry.value = next.blockers /\ blockersEntry = Entry(blockersEntry.value)
    BY DEF Entry
  <2>2. ListEntry(planEntry, PlanItems) /\ ListEntry(blockersEntry, Blockers)
    BY <1>4, <2>1 DEF ListEntry
  <2>3. newObjective = Unwritten \/ \E p \in Objectives : newObjective = Entry(p)
    BY <1>2 DEF MemInv
  <2> HIDE DEF planEntry, blockersEntry, newObjective
  <2>4. mem' = [mem EXCEPT !["objective"] = newObjective, !["plan"] = planEntry, !["blockers"] = blockersEntry]
    BY <1>1 DEF planEntry, blockersEntry, newObjective
  <2>5. /\ mem' = [k \in Keys |-> mem'[k]] /\ mem'["objective"] = newObjective /\ mem'["plan"] = planEntry
        /\ mem'["blockers"] = blockersEntry /\ mem'["history"] = mem["history"]
    BY <1>2, <2>4 DEF MemInv, Keys
  <2>6. ListEntry(mem["plan"], PlanItems)' /\ ListEntry(mem["blockers"], Blockers)'
    BY <2>2, <2>5 DEF ListEntry
  <2>7. ListEntry(mem["history"], Executions)'
    BY <1>2, <2>5 DEF MemInv, ListEntry
  <2>8. foreign' = foreign /\ mem'["blockers"] = Entry(blockers')
    BY <1>1, <2>5 DEF blockersEntry
  <2> QED BY <1>2, <2>3, <2>5, <2>6, <2>7, <2>8 DEF MemInv
<1>7. TasksInv'
  <2>1. extraTool' \in ExtraTools \cup {NoTool} /\ failed \in SUBSET Tasks
    BY <1>1 DEF AgentIInv, TasksInv
  <2>2. ~foreign' => \A t \in failed : Blocked(t) => Blocked(t)'
    <3> SUFFICES ASSUME ~foreign', NEW t \in failed, Blocked(t) PROVE Blocked(t)'
      OBVIOUS
    <3>1. s.blockers = blockers /\ t \in Tasks
      BY <1>1, <1>2, <1>3, <2>1, LoadedIs
    <3> QED BY <1>1, <1>4, <3>1 DEF Blocked
  <2>3. ~foreign' => \A t \in pending : Refused(t) => Refused(t)'
    <3> SUFFICES ASSUME ~foreign', NEW t \in pending, Refused(t) PROVE Refused(t)'
      OBVIOUS
    <3>1. executions' = executions
      BY <1>1, <1>2, <1>3, LoadedIs
    <3> QED BY <3>1 DEF Refused
  <2> QED BY <1>1, <2>1, <2>2, <2>3, NoTaskMoves DEF AgentIInv
<1>8. PlansInv'
  BY <1>1, NothingPlanned DEF AgentIInv
<1> QED BY <1>5, <1>6, <1>7, <1>8 DEF AgentIInv

\* A tool is registered, and someone else writes under a key of the agent.
LEMMA OutsideSteps ==
  ASSUME AgentIInv,
         \/ \E def \in ExtraTools : registerTool(def)
         \/ \E k \in Keys \ {"objective"}, v \in {Garbage, Entry(<<>>)} : RememberUnderAgentKey(k, v)
  PROVE  AgentIInv'
<1>1. ASSUME NEW def \in ExtraTools, registerTool(def) PROVE AgentIInv'
  <2> USE <1>1 DEF registerTool
  <2>1. ListsInv' /\ MemInv' /\ PlansInv'
    BY NothingWritten, NothingPlanned, NothingListed DEF AgentIInv
  <2>2. (\A u \in failed : Blocked(u) => Blocked(u)') /\ (\A u \in pending : Refused(u) => Refused(u)')
    BY DEF Blocked, Refused
  <2>3. TasksInv'
    BY <2>2, NoTaskMoves DEF AgentIInv
  <2> QED BY <2>1, <2>3 DEF AgentIInv
<1>2. ASSUME NEW k \in Keys \ {"objective"}, NEW v \in {Garbage, Entry(<<>>)}, RememberUnderAgentKey(k, v)
      PROVE  AgentIInv'
  <2>0. /\ mem' = [mem EXCEPT ![k] = v] /\ foreign' = TRUE
        /\ UNCHANGED <<approvals, extraTool, task, executions, pending, objective, plan, blockers, opPlan, failed>>
    BY <1>2 DEF RememberUnderAgentKey
  <2>1. ListsInv' /\ PlansInv'
    BY <2>0, NothingPlanned DEF AgentIInv, ListsInv
  <2>2. extraTool' \in ExtraTools \cup {NoTool}
    BY <2>0 DEF AgentIInv, TasksInv
  <2>3. TasksInv'
    BY <2>0, <2>2, NoTaskMoves DEF AgentIInv
  <2>4. \A S : ListEntry(v, S)
    <3> DEFINE none == <<>>
    <3>1. Entry(none).value = none
      BY DEF Entry
    <3>2. \A S : none \in Seq(S)
      BY EmptySeq
    <3>3. v \in {Garbage, Entry(none)}
      OBVIOUS
    <3> HIDE DEF none
    <3>4. CASE v = Garbage
      BY <3>4 DEF ListEntry
    <3>5. CASE v = Entry(none)
      BY <3>1, <3>2, <3>5 DEF ListEntry
    <3> QED BY <3>3, <3>4, <3>5
  <2>5. /\ mem' = [j \in Keys |-> mem'[j]] /\ mem'["objective"] = mem["objective"]
        /\ \A j \in Keys : mem'[j] = mem[j] \/ mem'[j] = v
    BY <2>0 DEF AgentIInv, MemInv, Keys
  <2>6. /\ ListEntry(mem["plan"], PlanItems) /\ ListEntry(mem["blockers"], Blockers)
        /\ ListEntry(mem["history"], Executions)
        /\ (mem["objective"] = Unwritten \/ \E o \in Objectives : mem["objective"] = Entry(o))
    BY DEF AgentIInv, MemInv
  <2>7. /\ ListEntry(mem'["plan"], PlanItems) /\ ListEntry(mem'["blockers"], Blockers)
        /\ ListEntry(mem'["history"], Executions)
    <3>1. "plan" \in Keys /\ "blockers" \in Keys /\ "history" \in Keys
      BY DEF Keys
    <3> HIDE DEF ListEntry
    <3>2. ListEntry(mem'["plan"], PlanItems)
      BY <2>4, <2>5, <2>6, <3>1
    <3>3. ListEntry(mem'["blockers"], Blockers)
      BY <2>4, <2>5, <2>6, <3>1
    <3>4. ListEntry(mem'["history"], Executions)
      BY <2>4, <2>5, <2>6, <3>1
    <3> QED BY <3>2, <3>3, <3>4
  <2>8. MemInv'
    BY <2>0, <2>5, <2>6, <2>7 DEF MemInv, ListEntry
  <2> QED BY <2>1, <2>3, <2>8 DEF AgentIInv
<1> QED BY <1>1, <1>2


\* An approval is recorded, revoked or marked as executed, and a plan is built, approved,
\* executed and verified.
LEMMA PlanSteps ==
  ASSUME PlansInv, PlanNext \/ ApprovalNext
  PROVE  PlansInv'
<1>0. Recorded \in ApprovalRecords /\ \A a \in ActionIds : Marked(a) \in [ActionIds -> ApprovalRecords]
  <2>1. Recorded \in ApprovalRecords
    BY DEF Recorded, ApprovalRecords
  <2>2. ASSUME NEW a \in ActionIds PROVE Marked(a) \in [ActionIds -> ApprovalRecords]
    <3>1. approvals \in [ActionIds -> ApprovalRecords]
      BY DEF PlansInv
    <3> QED BY <3>1 DEF Marked, ApprovalRecords
  <2> QED BY <2>1, <2>2
<1>1. CASE ApprovalNext
  <2>1. PICK a \in ActionIds : recordApproval(a) \/ revokeApproval(a) \/ markExecuted(a)
    BY <1>1 DEF ApprovalNext
  <2>2. opPlan' = opPlan
    BY <2>1 DEF recordApproval, revokeApproval, markExecuted
  <2>3. approvals' \in [ActionIds -> ApprovalRecords]
    <3>0. approvals \in [ActionIds -> ApprovalRecords]
      BY DEF PlansInv
    <3>1. CASE recordApproval(a)
      BY <1>0, <3>0, <3>1 DEF recordApproval
    <3>2. CASE revokeApproval(a)
      BY <3>0, <3>2 DEF revokeApproval, ApprovalRecords
    <3>3. CASE markExecuted(a)
      BY <1>0, <3>3 DEF markExecuted
    <3> QED BY <2>1, <3>1, <3>2, <3>3
  <2> QED BY <2>2, <2>3 DEF PlansInv
<1>2. ASSUME NEW p \in Plans, NEW x, PlanState(x), opPlan' = [opPlan EXCEPT ![p] = x],
             approvals' \in [ActionIds -> ApprovalRecords]
      PROVE  PlansInv'
  <2>1. opPlan' = [q \in Plans |-> opPlan'[q]] /\ opPlan'[p] = x /\ \A q \in Plans \ {p} : opPlan'[q] = opPlan[q]
    BY <1>2 DEF PlansInv
  <2>2. ASSUME NEW q \in Plans PROVE PlanState(opPlan'[q])
    <3>1. CASE q = p
      BY <1>2, <2>1, <3>1
    <3>2. CASE q # p
      BY <2>1, <3>2 DEF PlansInv
    <3> QED BY <3>1, <3>2
  <2>3. \A q \in Plans : PlanState(opPlan[q])'
    BY <2>2
  <2> QED BY <1>2, <2>1, <2>3 DEF PlansInv
<1>3. ASSUME NEW p \in Plans
      PROVE  PlanState(opPlan[p]) /\ approvals \in [ActionIds -> ApprovalRecords]
  BY DEF PlansInv
<1>4. ASSUME NEW p \in Plans, NEW a \in ActionIds, NEW b \in BOOLEAN, buildOperationalPlan(p, a, b) PROVE PlansInv'
  <2> DEFINE x == IF b THEN [NewPlan EXCEPT !.status = "pending", !.id = a] ELSE [NewPlan EXCEPT !.status = "approved"]
  <2>1. opPlan' = [opPlan EXCEPT ![p] = x] /\ approvals' \in [ActionIds -> ApprovalRecords]
    BY <1>0, <1>3, <1>4 DEF buildOperationalPlan
  <2>2. PlanState(x)
    <3>1. CASE b
      <4>1. x = [status |-> "pending", id |-> a, waiting |-> 0, approvals |-> 0, runs |-> 0]
        BY <3>1 DEF NewPlan
      <4> HIDE DEF x
      <4> QED BY <4>1 DEF PlanState
    <3>2. CASE ~b
      <4>1. x = [status |-> "approved", id |-> NoId, waiting |-> 0, approvals |-> 0, runs |-> 0]
        BY <3>2 DEF NewPlan
      <4> HIDE DEF x
      <4> QED BY <4>1 DEF PlanState
    <3> QED BY <3>1, <3>2
  <2> HIDE DEF x
  <2> QED BY <1>2, <2>1, <2>2
<1>5. ASSUME NEW p \in Plans, NEW state, NEW waiting, NEW given, NEW runs, NEW x,
             x = [opPlan[p] EXCEPT !.status = state, !.waiting = waiting, !.approvals = given, !.runs = runs],
             state \in {"approved", "executed", "failed", "verified"}, waiting \in Nat, given \in Nat, runs \in Nat,
             runs <= given, state = "approved" => runs < given
      PROVE  PlanState(x)
  <2>1. opPlan[p] \in [status : {"none", "pending", "approved", "executed", "failed", "verified"},
            id : ActionIds \cup {NoId}, waiting : Nat, approvals : Nat, runs : Nat]
    BY <1>3 DEF PlanState
  <2>2. x = [status |-> state, id |-> opPlan[p].id, waiting |-> waiting, approvals |-> given, runs |-> runs]
    BY <1>5, <2>1
  <2>3. opPlan[p].id \in ActionIds \cup {NoId}
    BY <2>1
  <2> QED BY <1>5, <2>2, <2>3 DEF PlanState
<1>6. ASSUME NEW p \in Plans
      PROVE  /\ opPlan[p].waiting \in Nat /\ opPlan[p].approvals \in Nat /\ opPlan[p].runs \in Nat
             /\ opPlan[p].runs <= opPlan[p].approvals
             /\ opPlan[p].status = "approved" /\ opPlan[p].id # NoId => opPlan[p].runs < opPlan[p].approvals
  BY <1>3 DEF PlanState
<1> DEFINE Plan(p, state, waiting, given, runs) ==
             [opPlan[p] EXCEPT !.status = state, !.waiting = waiting, !.approvals = given, !.runs = runs]
<1>7. ASSUME NEW p \in Plans, approveM6Plan(p) PROVE PlansInv'
  <2> DEFINE x == Plan(p, "approved", opPlan[p].waiting, opPlan[p].approvals + 1, opPlan[p].runs)
  <2>1. opPlan' = [opPlan EXCEPT ![p] = x] /\ approvals' = approvals
    BY <1>3, <1>7 DEF approveM6Plan, PlansInv, PlanState
  <2>2. PlanState(x)
    <3> DEFINE given == opPlan[p].approvals + 1
    <3>1. given \in Nat /\ opPlan[p].runs < given /\ opPlan[p].runs <= given
      BY <1>6
    <3>2. x = [opPlan[p] EXCEPT !.status = "approved", !.waiting = opPlan[p].waiting, !.approvals = given,
                                !.runs = opPlan[p].runs]
      OBVIOUS
    <3> HIDE DEF x, given
    <3> QED BY <1>5, <1>6, <3>1, <3>2
  <2> HIDE DEF x
  <2> QED BY <1>2, <1>3, <2>1, <2>2
<1>8. ASSUME NEW p \in Plans, executeM6Plan(p) PROVE PlansInv'
  <2> DEFINE x == Plan(p, "executed", opPlan[p].waiting + 1, opPlan[p].approvals, opPlan[p].runs + 1)
  <2>1. opPlan' = [opPlan EXCEPT ![p] = x] /\ approvals' = approvals
        /\ opPlan[p].status = "approved" /\ opPlan[p].id # NoId
    BY <1>3, <1>8 DEF executeM6Plan, PlansInv, PlanState
  <2>2. PlanState(x)
    <3> DEFINE waiting == opPlan[p].waiting + 1
               runs == opPlan[p].runs + 1
               held == "executed"
    <3>1. /\ waiting \in Nat /\ runs \in Nat /\ runs <= opPlan[p].approvals
          /\ held \in {"approved", "executed", "failed", "verified"} /\ held # "approved"
      BY <1>6, <2>1
    <3>2. x = [opPlan[p] EXCEPT !.status = held, !.waiting = waiting, !.approvals = opPlan[p].approvals,
                                !.runs = runs]
      OBVIOUS
    <3> HIDE DEF x, waiting, runs, held
    <3> QED BY <1>5, <1>6, <3>1, <3>2
  <2> HIDE DEF x
  <2> QED BY <1>2, <1>3, <2>1, <2>2
<1>9. ASSUME NEW p \in Plans, NEW b \in BOOLEAN, VerifyM6Plan(p, b) PROVE PlansInv'
  <2> DEFINE state == IF b THEN "verified" ELSE "failed"
             x == Plan(p, state, opPlan[p].waiting - 1, opPlan[p].approvals, opPlan[p].runs)
  <2>1. opPlan' = [opPlan EXCEPT ![p] = x] /\ opPlan[p].waiting > 0
    BY <1>3, <1>9 DEF VerifyM6Plan, PlansInv, PlanState
  <2>2. approvals' \in [ActionIds -> ApprovalRecords]
    <3>1. approvals \in [ActionIds -> ApprovalRecords]
      BY <1>3
    <3>2. CASE opPlan[p].id \in ActionIds
      BY <1>0, <1>9, <3>1, <3>2 DEF VerifyM6Plan
    <3>3. CASE opPlan[p].id \notin ActionIds
      BY <1>9, <3>1, <3>3 DEF VerifyM6Plan, Marked
    <3> QED BY <3>2, <3>3
  <2>3. PlanState(x)
    <3>1. state \in {"failed", "verified"} /\ opPlan[p].waiting - 1 \in Nat
      BY <1>6, <2>1
    <3> HIDE DEF state
    <3> QED BY <1>5, <1>6, <3>1
  <2> HIDE DEF x
  <2> QED BY <1>2, <2>1, <2>2, <2>3
<1>10. CASE PlanNext
  BY <1>4, <1>7, <1>8, <1>9, <1>10 DEF PlanNext
<1> QED BY <1>1, <1>10

\* ElevaService, AgentExecutionService and ElevaAgentService: for any number of tasks, tools,
\* plans and approvals, failures stay visible and what ran, ran within its approval.
THEOREM AgentCorrect == AgentSpec => []AgentInv
<1>1. AgentInit => AgentIInv
  <2> SUFFICES ASSUME AgentInit PROVE AgentIInv
    OBVIOUS
  <2>1. ListsInv
    BY EmptySeq DEF AgentInit, ListsInv
  <2>2. MemInv
    BY DEF AgentInit, MemInv, ListEntry, Keys
  <2>3. TasksInv
    <3>1. TaskState(NewTask)
      BY DEF TaskState, NewTask
    <3> HIDE DEF NewTask
    <3> QED BY <3>1 DEF AgentInit, TasksInv
  <2>4. PlansInv
    <3>1. PlanState(NewPlan)
      BY DEF PlanState, NewPlan
    <3>2. Unknown \in ApprovalRecords
      BY DEF Unknown, ApprovalRecords
    <3> HIDE DEF NewPlan, Unknown
    <3> QED BY <3>1, <3>2 DEF AgentInit, PlansInv
  <2> QED BY <2>1, <2>2, <2>3, <2>4 DEF AgentIInv
<1>2. AgentIInv /\ [TaskNext \/ PlanNext \/ ApprovalNext]_agentVars => AgentIInv'
  <2> SUFFICES ASSUME AgentIInv, [TaskNext \/ PlanNext \/ ApprovalNext]_agentVars PROVE AgentIInv'
    OBVIOUS
  <2>0. ASSUME UNCHANGED <<extraTool, task, executions, pending, objective, plan, blockers, mem, foreign, failed>>
        PROVE  ListsInv' /\ MemInv' /\ TasksInv'
    <3>1. (\A u \in failed : Blocked(u) => Blocked(u)') /\ (\A u \in pending : Refused(u) => Refused(u)')
      BY <2>0 DEF Blocked, Refused
    <3>2. extraTool' \in ExtraTools \cup {NoTool}
      BY <2>0 DEF AgentIInv, TasksInv
    <3> QED BY <2>0, <3>1, <3>2, NothingWritten, NothingListed, NoTaskMoves DEF AgentIInv
  <2>1. CASE UNCHANGED agentVars
    BY <2>0, <2>1, NothingPlanned DEF agentVars, AgentIInv
  <2>2. CASE PlanNext \/ ApprovalNext
    <3>1. UNCHANGED <<extraTool, task, executions, pending, objective, plan, blockers, mem, foreign, failed>>
      BY <2>2 DEF PlanNext, ApprovalNext, buildOperationalPlan, approveM6Plan, executeM6Plan, VerifyM6Plan,
                  recordApproval, revokeApproval, markExecuted
    <3> QED BY <2>0, <2>2, <3>1, PlanSteps DEF AgentIInv
  <2>3. CASE TaskNext
    BY <2>3, OutsideSteps, RefuseTaskStep, QuietSteps, FinishTaskStep, SimpleSteps, ContinueStep
    DEF TaskNext, PipelineNext, ObjectiveNext
  <2> QED BY <2>1, <2>2, <2>3
<1>3. AgentIInv => AgentInv
  <2> SUFFICES ASSUME AgentIInv PROVE AgentInv
    OBVIOUS
  <2> USE DEF AgentIInv
  <2>1. AgentTypeOK
    <3>1. \A t \in Tasks : task[t].phase \in {"new", "running", "auditing", "done"}
      BY DEF TasksInv, TaskState
    <3>2. \A i \in DOMAIN executions : executions[i].task \in Tasks /\ executions[i].outcome \in Outcomes
      <4>1. \A i \in DOMAIN executions : executions[i] \in Executions
        BY DEF ListsInv
      <4> QED BY <4>1 DEF Executions
    <3>3. (\A i \in DOMAIN plan : plan[i] \in PlanItems) /\ (\A i \in DOMAIN blockers : blockers[i] \in Blockers)
      BY DEF ListsInv
    <3>4. DOMAIN mem = Keys
      BY DEF MemInv
    <3>5. \A p \in Plans : opPlan[p].status \in {"none", "pending", "approved", "executed", "failed", "verified"}
      BY DEF PlansInv, PlanState
    <3> QED BY <3>1, <3>2, <3>3, <3>4, <3>5 DEF AgentTypeOK, ListsInv, TasksInv, PlansInv, Blockers
  <2>2. FailureStaysABlocker
    BY DEF FailureStaysABlocker, TasksInv, FailedInv, Blocked
  <2>3. UnapprovedRunsHideTheRisk
    BY DEF UnapprovedRunsHideTheRisk, TasksInv, TaskState
  <2>4. PlanRunsAreApproved
    BY DEF PlanRunsAreApproved, PlansInv, PlanState
  <2>5. PendingWereRefused
    BY DEF PendingWereRefused, TasksInv, PendingInv, Refused
  <2> QED BY <2>1, <2>2, <2>3, <2>4, <2>5 DEF AgentInv
<1> QED BY <1>1, <1>2, <1>3, PTL DEF AgentSpec

=============================================================================
