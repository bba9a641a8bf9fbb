--------------------------- MODULE AccountsProofs ---------------------------
(***************************************************************************)
(* The accounts of a tenant.  StaffUsers: the last-owner guard is sound    *)
(* for any number of users and requests, but for a removal overtaken by a  *)
(* grant of ownership to the same user.  Sessions: for any lifetimes and any     *)
(* browsers, tokens and handlers, what a token opens after a logout, a     *)
(* rotation or a deactivation, over a Redis that comes and goes.           *)
(***************************************************************************)
EXTENDS Sessions, StaffUsers, TLAPS

(* Staff management *)

\* A request under way is about a user that has a row, as every owner does.
KnownInv ==
  /\ owner \subseteq known
  /\ \A r \in Requests : InProgress(r) => user[r] \in known /\ op[r] \in Operations

\* A request that did not read an owner is not about one, unless a grant to
\* the same user has overtaken it.
UnguardedInv ==
  \A r \in Requests : InProgress(r) /\ ~sawOwner[r] /\ r \notin overtaken => user[r] \notin owner

\* An overtaken request may have removed an owner unguarded.
Slipped ==
  \E r \in overtaken : stage[r] = "done" /\ ~sawOwner[r] /\ op[r] \in {"deactivate", "delete"}

\* A removal past the guard holds the lock and leaves another active owner.
GuardedInv ==
  \A r \in Requests : stage[r] = "write" /\ op[r] \in Removals /\ sawOwner[r] =>
    lock = r /\ (ActiveOwners \ {user[r]} # {} \/ Slipped)

\* Only a request under way is overtaken.
OvertakenInv == \A r \in overtaken : stage[r] # "new"

BaseInv == StaffTypeOK /\ KnownInv
OwnerInv == UnguardedInv /\ GuardedInv /\ OvertakenInv /\ SomeOwnerRemains

-----------------------------------------------------------------------------
\* Staff requests of user.service.ts stay well-typed and about users with a row.
THEOREM BaseInductive == StaffSpec => []BaseInv
<1>1. StaffInit => BaseInv
  BY AccountsAssumption DEF StaffInit, BaseInv, StaffTypeOK, KnownInv, InProgress
<1>2. BaseInv /\ [StaffNext]_staffVars => BaseInv'
  <2> SUFFICES ASSUME BaseInv, [StaffNext]_staffVars PROVE BaseInv'
    OBVIOUS
  <2> USE DEF BaseInv, StaffTypeOK, KnownInv, InProgress, StaffGoto, rows
  <2>1. ASSUME NEW r \in Requests, NEW u \in Users, NEW a \in BOOLEAN, NEW b \in BOOLEAN,
               CreateUser(r, u, a, b)
        PROVE  BaseInv'
    BY <2>1 DEF CreateUser
  <2>2. ASSUME NEW r \in Requests, NEW u \in Users, NEW k \in Operations, FindUser(r, k, u)
        PROVE  BaseInv'
    BY <2>2 DEF FindUser
  <2>3. ASSUME NEW r \in Requests, AssertNotLastOwner(r) PROVE BaseInv'
    BY <2>3 DEF AssertNotLastOwner
  <2>4. ASSUME NEW r \in Requests, SkipGuard(r) PROVE BaseInv'
    BY <2>4 DEF SkipGuard
  <2>5. ASSUME NEW r \in Requests, CommitChange(r) PROVE BaseInv'
    <3>1. user[r] \in known /\ known' = known
      BY <2>5 DEF CommitChange
    <3>2. /\ deleted' \subseteq Users /\ activeUsers' \subseteq Users
          /\ owner' \subseteq known /\ lock' \in Requests \cup {None}
          /\ overtaken' \subseteq Requests
      BY <2>5, <3>1 DEF CommitChange, ReplacedOwners, Release
    <3>3. /\ stage' = [stage EXCEPT ![r] = "done"]
          /\ op' = op /\ user' = user /\ sawOwner' = sawOwner
      BY <2>5 DEF CommitChange
    <3> QED BY <3>1, <3>2, <3>3
  <2>6. ASSUME NEW r \in Requests, RollBack(r) PROVE BaseInv'
    BY <2>6 DEF RollBack, Release
  <2>7. CASE UNCHANGED staffVars
    BY <2>7 DEF staffVars
  <2> QED BY <2>1, <2>2, <2>3, <2>4, <2>5, <2>6, <2>7 DEF StaffNext, Step
<1> QED BY <1>1, <1>2, PTL DEF StaffSpec

\* Type correctness of staff management, whatever operations are in use.
THEOREM StaffTypeCorrect == StaffSpec => []StaffTypeOK
BY BaseInductive, PTL DEF BaseInv

-----------------------------------------------------------------------------
\* Only a grant turns an existing user into an owner, and what it overtakes is
\* recorded; only a guarded removal or an overtaken one takes an active owner away.
LEMMA OwnerStep ==
  ASSUME BaseInv, OwnerInv, [StaffNext]_staffVars
  PROVE  OwnerInv'
<1> USE DEF BaseInv, OwnerInv, StaffTypeOK, KnownInv, InProgress, StaffGoto, rows, OvertakenInv
<1>0. SomeOwnerRemains = (ActiveOwners = {} => Slipped)
  BY DEF SomeOwnerRemains, Slipped
<1>0p. SomeOwnerRemains' = (ActiveOwners' = {} => Slipped')
  BY DEF SomeOwnerRemains, Slipped
<1>s. ASSUME overtaken \subseteq overtaken', op' = op, sawOwner' = sawOwner,
             \A q \in overtaken : stage[q] = "done" => stage'[q] = "done"
      PROVE  Slipped => Slipped'
  BY <1>s DEF Slipped
<1>1. ASSUME NEW r \in Requests, NEW u \in Users, NEW a \in BOOLEAN, NEW b \in BOOLEAN,
             CreateUser(r, u, a, b)
      PROVE  OwnerInv'
  <2>1. u \notin known /\ ActiveOwners \subseteq ActiveOwners' /\ owner' \subseteq owner \cup {u}
    BY <1>1 DEF CreateUser, ActiveOwners
  <2>2. /\ UNCHANGED <<lock, op, user, sawOwner, overtaken>> /\ stage' = [stage EXCEPT ![r] = "done"]
        /\ stage[r] = "new"
    BY <1>1 DEF CreateUser
  <2>3. Slipped => Slipped'
    BY <1>s, <2>2
  <2> QED BY <1>0, <1>0p, <2>1, <2>2, <2>3 DEF UnguardedInv, GuardedInv
<1>2. ASSUME NEW r \in Requests, NEW u \in Users, NEW k \in Operations, FindUser(r, k, u)
      PROVE  OwnerInv'
  <2>1. ActiveOwners' = ActiveOwners /\ UNCHANGED <<known, deleted, activeUsers, owner, lock, overtaken>>
    BY <1>2 DEF FindUser, ActiveOwners
  <2>2. /\ stage[r] = "new" /\ r \notin overtaken
        /\ stage' = [stage EXCEPT ![r] = IF u \in known \ deleted THEN "guard" ELSE "failed"]
        /\ op' = [op EXCEPT ![r] = k] /\ user' = [user EXCEPT ![r] = u]
        /\ sawOwner' = [sawOwner EXCEPT ![r] = u \in owner]
    BY <1>2 DEF FindUser
  <2>3. Slipped => Slipped'
    BY <2>1, <2>2 DEF Slipped
  <2>4. UnguardedInv'
    BY <2>1, <2>2 DEF UnguardedInv
  <2>5. GuardedInv'
    BY <2>1, <2>2, <2>3 DEF GuardedInv
  <2> QED BY <1>0, <1>0p, <2>1, <2>2, <2>3, <2>4, <2>5
<1>3. ASSUME NEW r \in Requests, AssertNotLastOwner(r) PROVE OwnerInv'
  <2>1. /\ ActiveOwners' = ActiveOwners /\ lock = None
        /\ UNCHANGED <<owner, op, user, sawOwner, overtaken>> /\ stage[r] = "guard"
        /\ \/ ActiveOwners \ {user[r]} = {} /\ stage' = [stage EXCEPT ![r] = "failed"] /\ lock' = lock
           \/ /\ ActiveOwners \ {user[r]} # {} /\ stage' = [stage EXCEPT ![r] = "write"]
              /\ lock' = r
    BY <1>3 DEF AssertNotLastOwner, ActiveOwners
  <2>2. ASSUME NEW q \in Requests PROVE ~(stage[q] = "write" /\ op[q] \in Removals /\ sawOwner[q])
    BY <2>1, NoneAssumption DEF GuardedInv
  <2>3. Slipped => Slipped'
    BY <2>1, <1>s
  <2> QED BY <1>0, <1>0p, <2>1, <2>2, <2>3 DEF UnguardedInv, GuardedInv
<1>4. ASSUME NEW r \in Requests, SkipGuard(r) PROVE OwnerInv'
  <2>1. /\ ActiveOwners' = ActiveOwners /\ UNCHANGED <<owner, lock, op, user, sawOwner, overtaken>>
        /\ stage[r] = "guard" /\ stage' = [stage EXCEPT ![r] = "write"]
        /\ ~(op[r] \in Removals /\ sawOwner[r])
    BY <1>4 DEF SkipGuard, ActiveOwners
  <2>2. Slipped => Slipped'
    BY <2>1, <1>s
  <2> QED BY <1>0, <1>0p, <2>1, <2>2 DEF UnguardedInv, GuardedInv
<1>5. ASSUME NEW r \in Requests, CommitChange(r) PROVE OwnerInv'
  <2>1. /\ stage[r] = "write" /\ op[r] \in Operations
        /\ stage' = [stage EXCEPT ![r] = "done"]
        /\ UNCHANGED <<known, op, user, sawOwner>>
        /\ lock' = IF lock = r THEN None ELSE lock
        /\ overtaken \subseteq overtaken'
    BY <1>5 DEF CommitChange, Release
  <2>2. /\ owner' \subseteq owner \cup {user[r]}
        /\ user[r] \in owner' \ owner =>
             \A q \in Requests \ {r} : InProgress(q) /\ user[q] = user[r] => q \in overtaken'
    BY <1>5, <2>1 DEF CommitChange, ReplacedOwners
  <2>3. \A q \in overtaken' : stage'[q] # "new"
    BY <1>5, <2>1 DEF CommitChange
  <2>4. UnguardedInv'
    <3> SUFFICES ASSUME NEW q \in Requests, InProgress(q)', ~sawOwner'[q], q \notin overtaken'
                 PROVE  user'[q] \notin owner'
      BY DEF UnguardedInv
    <3>1. q # r /\ InProgress(q) /\ ~sawOwner[q] /\ q \notin overtaken /\ user'[q] = user[q]
      BY <2>1
    <3>2. user[q] \notin owner
      BY <3>1 DEF UnguardedInv
    <3> QED BY <2>2, <3>1, <3>2
  <2>5. Slipped => Slipped'
    BY <2>1, <1>s
  <2>6. CASE op[r] \in Removals /\ sawOwner[r]
    <3>1. lock = r /\ (ActiveOwners \ {user[r]} # {} \/ Slipped)
      BY <2>1, <2>6 DEF GuardedInv
    <3>2. ActiveOwners \ {user[r]} \subseteq ActiveOwners'
      BY <1>5, <2>6 DEF CommitChange, ReplacedOwners, ActiveOwners, Removals
    <3>3. ASSUME NEW q \in Requests, q # r
          PROVE  ~(stage[q] = "write" /\ op[q] \in Removals /\ sawOwner[q])
      BY <3>1, <3>3 DEF GuardedInv
    <3>4. GuardedInv'
      BY <2>1, <3>3 DEF GuardedInv
    <3> QED BY <1>0p, <2>3, <2>4, <2>5, <3>1, <3>2, <3>4
  <2>7. CASE ~(op[r] \in Removals /\ sawOwner[r])
    <3>1. ActiveOwners \subseteq ActiveOwners' \/ Slipped'
      <4>1. CASE op[r] \in {"deactivate", "delete"} /\ r \in overtaken
        BY <2>1, <2>7, <4>1 DEF Slipped, Removals
      <4>2. CASE op[r] \in {"deactivate", "delete"} /\ r \notin overtaken
        <5>1. user[r] \notin owner /\ owner' = owner
          BY <1>5, <2>1, <2>7, <4>2 DEF UnguardedInv, CommitChange, ReplacedOwners, Removals
        <5> QED BY <1>5, <5>1 DEF CommitChange, ActiveOwners
      <4>3. CASE op[r] \notin {"deactivate", "delete"}
        <5>1. owner \subseteq owner' /\ deleted' = deleted /\ activeUsers \subseteq activeUsers'
          BY <1>5, <2>1, <2>7, <4>3 DEF CommitChange, ReplacedOwners, Removals
        <5> QED BY <5>1 DEF ActiveOwners
      <4> QED BY <4>1, <4>2, <4>3
    <3>2. ASSUME NEW q \in Requests, stage'[q] = "write", op[q] \in Removals, sawOwner[q]
          PROVE  lock' = q /\ (ActiveOwners' \ {user[q]} # {} \/ Slipped')
      <4>1. q # r /\ stage[q] = "write"
        BY <3>2, <2>1
      <4>2. lock = q /\ (ActiveOwners \ {user[q]} # {} \/ Slipped)
        BY <4>1, <3>2 DEF GuardedInv
      <4> QED BY <4>1, <4>2, <3>1, <2>1, <2>5
    <3>3. GuardedInv'
      BY <2>1, <3>2 DEF GuardedInv
    <3> QED BY <1>0, <1>0p, <2>3, <2>4, <2>5, <3>1, <3>3
  <2> QED BY <2>6, <2>7
<1>6. ASSUME NEW r \in Requests, RollBack(r) PROVE OwnerInv'
  <2>1. /\ ActiveOwners' = ActiveOwners /\ UNCHANGED <<owner, op, user, sawOwner, overtaken>>
        /\ stage[r] = "write" /\ stage' = [stage EXCEPT ![r] = "failed"]
        /\ lock' = IF lock = r THEN None ELSE lock
    BY <1>6 DEF RollBack, Release, ActiveOwners
  <2>2. Slipped => Slipped'
    BY <2>1, <1>s
  <2> QED BY <1>0, <1>0p, <2>1, <2>2 DEF UnguardedInv, GuardedInv
<1>7. CASE UNCHANGED staffVars
  BY <1>7 DEF staffVars, UnguardedInv, GuardedInv, SomeOwnerRemains, ActiveOwners, Slipped
<1> QED BY <1>1, <1>2, <1>3, <1>4, <1>5, <1>6, <1>7 DEF StaffNext, Step

\* No overlap of creations, deletions, deactivations and role changes leaves the
\* tenant ownerless, but for a removal overtaken by a grant to the same user.
THEOREM OwnerGuardSound == StaffSpec => []StaffInv
<1>1. StaffInit => OwnerInv
  <2> SUFFICES ASSUME StaffInit PROVE OwnerInv
    OBVIOUS
  <2>1. owner # {} /\ ActiveOwners = owner
    BY DEF StaffInit, ActiveOwners
  <2> QED BY <2>1 DEF StaffInit, OwnerInv, UnguardedInv, GuardedInv, OvertakenInv,
                     SomeOwnerRemains, InProgress
<1>2. BaseInv /\ OwnerInv /\ [StaffNext]_staffVars => OwnerInv'
  BY OwnerStep
<1>3. BaseInv /\ OwnerInv => StaffInv
  BY DEF BaseInv, OwnerInv, StaffInv
<1> QED BY <1>1, <1>2, <1>3, BaseInductive, PTL DEF StaffSpec

-----------------------------------------------------------------------------
(* The sessions of an account *)


\* What browsers and handlers hold was issued, and no lookup of a refresh token is
\* written back.
HeldInv ==
  /\ \A d \in Devices : /\ device[d].access <= Len(pairs) /\ device[d].csrf <= Len(pairs)
                        /\ device[d].cookie <= Len(pairs)
  /\ \A h \in Handlers :
       /\ pc[h] \in {"exchange", "admitted", "refused", "logout"} => job[h].pair \in 1..Len(pairs)
       /\ \A n \in PairIds : refreshKey(n) \notin job[h].missed
  /\ \A n \in 1..Len(pairs) : pairs[n].iat <= clock
  /\ loggedOut \subseteq 1..Len(pairs)

\* When the access token of a pair expires, as far as the clock goes.
Until(n) == IF pairs[n].iat + AccessLife > Forever THEN Forever ELSE pairs[n].iat + AccessLife

\* The entry of a blacklisted access token outlives the token.
BlacklistInv ==
  \A n \in loggedOut : Unexpired(n) /\ accessKey(n) \notin overwritten =>
    redis[accessKey(n)].val = 1 /\ redis[accessKey(n)].exp >= Until(n)

\* From the cut-off on, the marker is newer than every login that does not outlive it,
\* and outlives its access token.
MarkerInv ==
  (admin = "commit" \/ ~active) /\ revokedKey \notin overwritten =>
    \A n \in 1..Len(pairs) : pairs[n].fresh /\ ~pairs[n].late /\ Unexpired(n) =>
      redis[revokedKey].val > pairs[n].iat /\ redis[revokedKey].exp >= Until(n)

Exchanging(h, n) == pc[h] = "exchange" /\ job[h].pair = n

\* A refresh token that was checked properly is with one handler, or was exchanged once
\* and is blacklisted for good.
RotationInv ==
  \A n \in PairIds :
    /\ rotations[n] <= Len(pairs)
    /\ n \notin unchecked =>
         /\ rotations[n] <= 1
         /\ rotations[n] = 1 => redis[refreshKey(n)] = [val |-> 1, exp |-> Forever]
         /\ \A h \in Handlers : Exchanging(h, n) => rotations[n] = 0
         /\ \A g, h \in Handlers : Exchanging(g, n) /\ Exchanging(h, n) => g = h

\* The stored CSRF token is that of the newest pair.
CsrfInv ==
  Len(pairs) > 0 /\ pairs[Len(pairs)].stored /\ loggedOut = {} /\ csrfKey \notin overwritten =>
    redis[csrfKey].val = Len(pairs) /\ redis[csrfKey].exp = Forever

\* What the checks of a request that is served let through.
ServedInv(h) ==
  Serving(h) /\ ~job[h].blind =>
    /\ job[h].out => accessKey(job[h].pair) \in overwritten
    /\ job[h].dead => \/ revokedKey \in overwritten
                      \/ pairs[job[h].pair].late \/ ~pairs[job[h].pair].fresh

\* The inductive invariant of the sessions.
SessionsIInv ==
  /\ TypeOK /\ HeldInv /\ BlacklistInv /\ MarkerInv /\ RotationInv /\ CsrfInv
  /\ \A h \in Handlers : ServedInv(h)

\* The keys are keys, and no two of them are the same.
LEMMA KeyFacts ==
  /\ revokedKey \in Keys /\ csrfKey \in Keys /\ revokedKey # csrfKey
  /\ \A n \in PairIds :
       /\ accessKey(n) \in Keys /\ refreshKey(n) \in Keys
       /\ accessKey(n) # revokedKey /\ accessKey(n) # csrfKey
       /\ refreshKey(n) # revokedKey /\ refreshKey(n) # csrfKey
  /\ \A m, n \in PairIds :
       /\ accessKey(m) # refreshKey(n)
       /\ accessKey(m) = accessKey(n) => m = n
       /\ refreshKey(m) = refreshKey(n) => m = n
BY DEF Keys, revokedKey, csrfKey, accessKey, refreshKey

\* What is written with a time to live: it ends no later than the bound of the clock.
LEMMA EntryFacts ==
  ASSUME clock \in 0..MaxClock, NEW v \in 0..(MaxClock + MaxPairs + 1), NEW ttl \in Nat
  PROVE  /\ Entry(v, ttl) \in Entries
         /\ Entry(v, ttl).val = v
         /\ Entry(v, ttl).exp = IF clock + ttl > Forever THEN Forever ELSE clock + ttl
         /\ ttl >= Forever => Entry(v, ttl).exp = Forever
BY LifeAssumption DEF Entry, Entries, Forever

\* Nothing has happened.
LEMMA SessionsInitIInv == Init => SessionsIInv
<1> SUFFICES ASSUME Init PROVE SessionsIInv
  OBVIOUS
<1> USE DEF Init
<1>1. Absent \in Entries /\ 0 \in 0..MaxClock /\ 0 \in 0..MaxPairs /\ 0 \in 0..MaxRequests
  BY LifeAssumption DEF Absent, Entries, Forever
<1>2. pairs \in Seq(Pair) /\ Len(pairs) = 0
  OBVIOUS
<1>3. NoJob \in Job
  BY <1>1 DEF NoJob, Job, Kinds
<1>4. TypeOK
  <2>1. online \in BOOLEAN /\ active \in BOOLEAN
    BY Zenon
  <2> QED BY LifeAssumption, <1>1, <1>2, <1>3, <2>1 DEF TypeOK, Points
<1>5. HeldInv
  BY LifeAssumption, <1>2 DEF HeldInv, NoJob
<1>6. BlacklistInv /\ MarkerInv /\ CsrfInv
  BY <1>2 DEF BlacklistInv, MarkerInv, CsrfInv
<1>7. RotationInv
  BY <1>2 DEF RotationInv, Exchanging
<1>8. \A h \in Handlers : ServedInv(h)
  BY DEF ServedInv, Serving
<1> QED BY <1>4, <1>5, <1>6, <1>7, <1>8 DEF SessionsIInv

-----------------------------------------------------------------------------
(* Arrivals *)

\* The tokens issued stay, and more may come.
PairsStay ==
  Len(pairs) <= Len(pairs') /\ \A n \in 1..Len(pairs) : pairs'[n] = pairs[n]

\* What was served stays served as it was.
LEMMA ServedFrame ==
  ASSUME SessionsIInv, NEW h \in Handlers, PairsStay,
         pc'[h] \in {"admitted", "logout"} => pc[h] \in {"admitted", "logout"} /\ job'[h] = job[h],
         overwritten \subseteq overwritten'
  PROVE  ServedInv(h)'
<1>1. ServedInv(h) /\ (Serving(h) => job[h].pair \in 1..Len(pairs))
  BY DEF SessionsIInv, HeldInv, Serving
<1> QED BY <1>1 DEF ServedInv, Serving, PairsStay

\* A request arrives: what it was let through by is all there is to show.
LEMMA ArriveStep ==
  ASSUME SessionsIInv,
         NEW h \in Handlers, NEW kind \in Kinds, NEW d \in Devices, NEW n \in 0..Len(pairs),
         NEW point \in Points, NEW missed \in SUBSET Keys,
         Arrive(h, kind, d, n, point, missed),
         point \in {"exchange", "admitted", "refused", "logout"} => n # 0,
         \A m \in PairIds : refreshKey(m) \notin missed,
         unchecked' \in SUBSET PairIds, RotationInv', ServedInv(h)'
  PROVE  SessionsIInv'
<1> USE DEF Arrive
<1>0. TypeOK /\ HeldInv /\ BlacklistInv /\ MarkerInv /\ CsrfInv
  BY DEF SessionsIInv
<1>1. /\ UNCHANGED <<clock, online, redis, active, admin, pairs, device, overwritten, loggedOut, rotations>>
      /\ requests' = requests + 1 /\ requests < MaxRequests
  OBVIOUS
<1> DEFINE new == [kind |-> kind, device |-> d, pair |-> n, at |-> clock, missed |-> missed,
                   blind |-> ~online, dead |-> ~active, out |-> n \in loggedOut]
<1>2. new \in Job /\ new.pair = n /\ new.missed = missed
  <2>1. (~online) \in BOOLEAN /\ (~active) \in BOOLEAN /\ (n \in loggedOut) \in BOOLEAN
    BY SMT
  <2>2. n \in 0..MaxPairs /\ clock \in 0..MaxClock
    BY <1>0, LifeAssumption DEF TypeOK
  <2> QED BY <2>1, <2>2 DEF Job
<1>3. job' = [job EXCEPT ![h] = new] /\ pc' = [pc EXCEPT ![h] = point]
  OBVIOUS
<1> HIDE DEF new, Arrive
<1>4. /\ job' \in [Handlers -> Job] /\ pc' \in [Handlers -> Points]
      /\ job'[h] = new /\ pc'[h] = point
      /\ \A g \in Handlers \ {h} : job'[g] = job[g] /\ pc'[g] = pc[g]
  BY <1>0, <1>2, <1>3 DEF TypeOK
<1>5. TypeOK'
  <2>1. requests' \in 0..MaxRequests
    BY <1>0, <1>1, LifeAssumption DEF TypeOK
  <2> QED BY <1>0, <1>1, <1>4, <2>1 DEF TypeOK
<1>6. HeldInv'
  <2>1. Len(pairs) \in Nat
    BY <1>0 DEF TypeOK
  <2>2. ASSUME NEW g \in Handlers
        PROVE  /\ pc'[g] \in {"exchange", "admitted", "refused", "logout"} => job'[g].pair \in 1..Len(pairs)
               /\ \A m \in PairIds : refreshKey(m) \notin job'[g].missed
    BY <1>0, <1>2, <1>4, <2>1 DEF HeldInv
  <2> QED BY <1>0, <1>1, <2>2 DEF HeldInv
<1>7. BlacklistInv' /\ MarkerInv' /\ CsrfInv'
  BY <1>0, <1>1 DEF BlacklistInv, MarkerInv, CsrfInv, Until, Unexpired
<1>8. ASSUME NEW g \in Handlers \ {h} PROVE ServedInv(g)'
  BY <1>1, <1>4, ServedFrame DEF PairsStay
<1> QED BY <1>5, <1>6, <1>7, <1>8 DEF SessionsIInv

\* The refresh tokens are with the handlers they were with.
LEMMA RotationFrame ==
  ASSUME SessionsIInv, Len(pairs') \in Nat, Len(pairs) <= Len(pairs'),
         \A g \in Handlers : pc'[g] = "exchange" => pc[g] = "exchange" /\ job'[g] = job[g],
         \A n \in PairIds : redis'[refreshKey(n)] = redis[refreshKey(n)],
         rotations' = rotations, unchecked' = unchecked
  PROVE  RotationInv'
<1>1. TypeOK /\ RotationInv
  BY DEF SessionsIInv
<1>2. Len(pairs) \in Nat /\ \A n \in PairIds : rotations[n] \in Nat
  BY <1>1 DEF TypeOK
<1>3. \A n \in PairIds : rotations'[n] <= Len(pairs')
  BY <1>1, <1>2 DEF RotationInv
<1>4. \A n \in PairIds, g \in Handlers : Exchanging(g, n)' => Exchanging(g, n)
  BY DEF Exchanging
<1> QED BY <1>1, <1>3, <1>4 DEF RotationInv

\* A login that has begun holds no token yet.
LEMMA ValidateLoginStep ==
  ASSUME SessionsIInv, NEW h \in Handlers, NEW d \in Devices, ValidateLogin(h, d)
  PROVE  SessionsIInv'
<1>0. TypeOK /\ Len(pairs) \in Nat
  BY DEF SessionsIInv, TypeOK
<1>1. Arrive(h, "login", d, 0, "login", {}) /\ unchecked' = unchecked
  BY DEF ValidateLogin
<1>2. pairs' = pairs /\ redis' = redis /\ rotations' = rotations
  BY <1>1 DEF Arrive
<1>3. pc'[h] = "login" /\ \A g \in Handlers \ {h} : pc'[g] = pc[g] /\ job'[g] = job[g]
  BY <1>0, <1>1 DEF Arrive, TypeOK
<1>4. RotationInv'
  BY <1>0, <1>1, <1>2, <1>3, RotationFrame
<1>5. ServedInv(h)'
  BY <1>3 DEF ServedInv, Serving
<1>6. unchecked' \in SUBSET PairIds /\ 0 \in 0..Len(pairs)
  BY <1>0, <1>1 DEF TypeOK
<1> QED BY <1>1, <1>4, <1>5, <1>6, ArriveStep DEF Kinds, Points

\* A refresh token that passes the blacklist was not exchanged, or was not checked properly.
LEMMA RotateRefreshTokenStep ==
  ASSUME SessionsIInv, NEW h \in Handlers, NEW d \in Devices, RotateRefreshToken(h, d)
  PROVE  SessionsIInv'
<1>0. TypeOK /\ HeldInv /\ RotationInv /\ Len(pairs) \in Nat
  BY DEF SessionsIInv, TypeOK
<1> PICK n : n = device[d].cookie
  OBVIOUS
<1>1. /\ n # 0 /\ Value(refreshKey(n)) # 1 /\ Arrive(h, "refresh", d, n, "exchange", {})
      /\ unchecked' = IF ~online \/ \E g \in Handlers : pc[g] = "exchange" /\ job[g].pair = n
                        THEN unchecked \cup {n} ELSE unchecked
  BY DEF RotateRefreshToken
<1>2. n \in 1..Len(pairs) /\ n \in PairIds
  BY <1>0, <1>1, LifeAssumption DEF TypeOK, HeldInv, PairIds
<1>3. /\ pairs' = pairs /\ redis' = redis /\ rotations' = rotations
      /\ unchecked \subseteq unchecked' /\ unchecked' \subseteq unchecked \cup {n}
  BY <1>1 DEF Arrive
<1>4. /\ pc'[h] = "exchange" /\ job'[h].pair = n
      /\ \A g \in Handlers \ {h} : pc'[g] = pc[g] /\ job'[g] = job[g]
  BY <1>0, <1>1 DEF Arrive, TypeOK
<1>5. RotationInv'
  <2>1. \A m \in PairIds : rotations'[m] <= Len(pairs')
    BY <1>0, <1>3 DEF RotationInv
  <2>2. \A m \in PairIds \ {n}, g \in Handlers : Exchanging(g, m)' => Exchanging(g, m)
    BY <1>4 DEF Exchanging
  <2>3. ASSUME n \notin unchecked'
        PROVE  online /\ n \notin unchecked /\ \A g \in Handlers : ~Exchanging(g, n)
    BY <1>1, <2>3 DEF Exchanging
  <2>4. ASSUME n \notin unchecked' PROVE rotations[n] = 0
    <3>1. rotations[n] \in Nat /\ rotations[n] <= 1
      BY <1>0, <1>2, <2>3, <2>4 DEF RotationInv, TypeOK
    <3>2. rotations[n] # 1
      <4> SUFFICES ASSUME rotations[n] = 1 PROVE FALSE
        OBVIOUS
      <4>1. redis[refreshKey(n)] = [val |-> 1, exp |-> Forever]
        BY <1>0, <1>2, <2>3, <2>4 DEF RotationInv
      <4>2. redis[refreshKey(n)].val = 1 /\ redis[refreshKey(n)].exp = Forever /\ clock < Forever
        BY <1>0, <4>1, LifeAssumption DEF TypeOK, Forever
      <4> QED BY <1>1, <2>3, <2>4, <4>2 DEF Value, Present
    <3> QED BY <3>1, <3>2
  <2>5. \A g \in Handlers \ {h} : Exchanging(g, n)' => Exchanging(g, n)
    BY <1>4 DEF Exchanging
  <2>6. ASSUME NEW m \in PairIds \ {n}, m \notin unchecked'
        PROVE  /\ rotations'[m] <= 1
               /\ rotations'[m] = 1 => redis'[refreshKey(m)] = [val |-> 1, exp |-> Forever]
               /\ \A g \in Handlers : Exchanging(g, m)' => rotations'[m] = 0
               /\ \A f, g \in Handlers : Exchanging(f, m)' /\ Exchanging(g, m)' => f = g
    BY <1>0, <1>3, <2>2, <2>6 DEF RotationInv
  <2>7. ASSUME n \notin unchecked'
        PROVE  /\ rotations'[n] <= 1
               /\ rotations'[n] = 1 => redis'[refreshKey(n)] = [val |-> 1, exp |-> Forever]
               /\ \A g \in Handlers : Exchanging(g, n)' => rotations'[n] = 0
               /\ \A f, g \in Handlers : Exchanging(f, n)' /\ Exchanging(g, n)' => f = g
    BY <1>2, <1>3, <2>3, <2>4, <2>5, <2>7
  <2> QED BY <2>1, <2>6, <2>7 DEF RotationInv
<1>6. ServedInv(h)'
  BY <1>4 DEF ServedInv, Serving
<1>7. unchecked' \in SUBSET PairIds /\ n \in 0..Len(pairs)
  BY <1>0, <1>2, <1>3 DEF TypeOK
<1> QED BY <1>1, <1>2, <1>5, <1>6, <1>7, ArriveStep DEF Kinds, Points

\* An unexpired token expires before an entry that is kept until then.
LEMMA UntilFacts ==
  ASSUME TypeOK, NEW n \in 1..Len(pairs)
  PROVE  /\ n \in PairIds /\ pairs[n] \in Pair /\ pairs[n].iat \in Nat /\ Until(n) \in Nat
         /\ Unexpired(n) => clock < Until(n)
<1>1. n \in PairIds /\ pairs[n] \in Pair
  BY LifeAssumption DEF TypeOK, PairIds
<1>2. pairs[n].iat \in 0..MaxClock
  BY <1>1 DEF Pair
<1> QED BY <1>1, <1>2, LifeAssumption DEF TypeOK, Until, Unexpired, Forever

\* The checks of a request let through no token that was logged out or revoked before.
LEMMA CheckedFacts ==
  ASSUME SessionsIInv, NEW n \in 1..Len(pairs), Unexpired(n), online,
         ~IsTokenBlacklisted(n), ~Revoked(n)
  PROVE  /\ n \in loggedOut => accessKey(n) \in overwritten
         /\ ~active => \/ revokedKey \in overwritten
                       \/ pairs[n].late \/ ~pairs[n].fresh
<1>0. TypeOK /\ BlacklistInv /\ MarkerInv
  BY DEF SessionsIInv
<1>1. /\ n \in PairIds /\ pairs[n].iat \in Nat /\ Until(n) \in Nat /\ clock < Until(n)
      /\ clock \in Nat
  BY <1>0, UntilFacts DEF TypeOK
<1>2. \A k \in Keys : redis[k].exp \in Nat /\ redis[k].val \in Nat
  BY <1>0 DEF TypeOK, Entries
<1>3. ASSUME n \in loggedOut, accessKey(n) \notin overwritten PROVE FALSE
  <2>1. redis[accessKey(n)].val = 1 /\ redis[accessKey(n)].exp >= Until(n)
    BY <1>0, <1>3 DEF BlacklistInv
  <2>2. clock < redis[accessKey(n)].exp
    BY <1>1, <1>2, <2>1, KeyFacts
  <2> QED BY <2>1, <2>2 DEF IsTokenBlacklisted, Value, Present
<1>4. ASSUME ~active, revokedKey \notin overwritten, ~pairs[n].late, pairs[n].fresh PROVE FALSE
  <2>1. redis[revokedKey].val > pairs[n].iat /\ redis[revokedKey].exp >= Until(n)
    BY <1>0, <1>4 DEF MarkerInv
  <2>2. clock < redis[revokedKey].exp /\ redis[revokedKey].val > 0
    BY <1>1, <1>2, <2>1, KeyFacts
  <2>3. Value(revokedKey) = redis[revokedKey].val
    BY <2>2 DEF Value, Present
  <2> QED BY <1>1, <1>2, <2>1, <2>2, <2>3, KeyFacts DEF Revoked
<1> QED BY <1>3, <1>4

\* A request is admitted only past the blacklist and the cut-off.
LEMMA RequestStep ==
  ASSUME SessionsIInv, NEW h \in Handlers, NEW d \in Devices, NEW kind \in Kinds,
         NEW write \in BOOLEAN, Request(h, d, kind, write)
  PROVE  SessionsIInv'
<1>0. TypeOK /\ HeldInv /\ Len(pairs) \in Nat
  BY DEF SessionsIInv, TypeOK
<1> DEFINE n == device[d].access
           checked == ~write \/ ValidateToken(resolveCsrfToken(d))
           asked == (IF write THEN {csrfKey} ELSE {})
                      \cup (IF checked THEN {accessKey(n)} ELSE {})
                      \cup (IF checked /\ ~IsTokenBlacklisted(n) THEN {revokedKey} ELSE {})
           pass == checked /\ ~IsTokenBlacklisted(n) /\ ~Revoked(n)
           point == IF pass THEN "admitted" ELSE "refused"
           missed == IF online THEN {k \in asked : ~Present(k)} ELSE {}
<1>1. /\ n # 0 /\ Unexpired(n) /\ unchecked' = unchecked
      /\ Arrive(h, kind, d, n, point, missed)
  BY DEF Request
<1>2. n \in 1..Len(pairs) /\ n \in PairIds
  BY <1>0, <1>1, LifeAssumption DEF TypeOK, HeldInv, PairIds
<1>3. missed \subseteq {csrfKey, accessKey(n), revokedKey}
  OBVIOUS
<1>4. (point = "admitted" => pass) /\ point \in {"admitted", "refused"}
  OBVIOUS
<1>5. pass => ~IsTokenBlacklisted(n) /\ ~Revoked(n)
  OBVIOUS
<1> HIDE DEF n, checked, asked, pass, point, missed
<1>6. missed \in SUBSET Keys /\ \A m \in PairIds : refreshKey(m) \notin missed
  BY <1>2, <1>3, KeyFacts
<1>7. /\ pairs' = pairs /\ redis' = redis /\ rotations' = rotations /\ overwritten' = overwritten
      /\ pc'[h] = point /\ job'[h].pair = n /\ job'[h].blind = ~online
      /\ job'[h].dead = ~active /\ job'[h].out = (n \in loggedOut)
      /\ \A g \in Handlers \ {h} : pc'[g] = pc[g] /\ job'[g] = job[g]
  BY <1>0, <1>1 DEF Arrive, TypeOK
<1>8. RotationInv'
  BY <1>0, <1>1, <1>4, <1>7, RotationFrame
<1>9. ServedInv(h)'
  <2> SUFFICES ASSUME Serving(h)', ~job'[h].blind
               PROVE  /\ job'[h].out => accessKey(n) \in overwritten
                      /\ job'[h].dead => revokedKey \in overwritten \/ pairs[n].late \/ ~pairs[n].fresh
    BY <1>7 DEF ServedInv
  <2>1. online /\ pass
    BY <1>4, <1>7 DEF Serving
  <2> QED BY <1>1, <1>2, <1>5, <1>7, <2>1, CheckedFacts
<1>10. unchecked' \in SUBSET PairIds /\ n \in 0..Len(pairs) /\ point \in Points
  BY <1>0, <1>1, <1>2, <1>4 DEF TypeOK, Points
<1> QED BY <1>1, <1>2, <1>6, <1>8, <1>9, <1>10, ArriveStep

-----------------------------------------------------------------------------
(* Token pairs *)

\* A handler answers and works on nothing.
LEMMA GotoIdle ==
  ASSUME TypeOK, NEW h \in Handlers, Goto(h, "idle")
  PROVE  /\ pc' \in [Handlers -> Points] /\ job' \in [Handlers -> Job]
         /\ pc'[h] = "idle" /\ job'[h].missed = {}
         /\ \A g \in Handlers \ {h} : pc'[g] = pc[g] /\ job'[g] = job[g]
<1>1. 0 \in 0..MaxPairs /\ 0 \in 0..MaxClock
  BY LifeAssumption
<1>2. FALSE \in BOOLEAN
  OBVIOUS
<1>3. NoJob \in Job /\ NoJob.missed = {}
  BY <1>1, <1>2 DEF NoJob, Job, Kinds
<1>4. pc' = [pc EXCEPT ![h] = "idle"] /\ job' = [job EXCEPT ![h] = NoJob]
  BY DEF Goto
<1> QED BY <1>3, <1>4 DEF TypeOK, Points

\* What browsers hold stays issued when one of them saves a session.
LEMMA SaveSessionStep ==
  ASSUME TypeOK, HeldInv, NEW h \in Handlers, NEW n \in Nat, n <= MaxPairs,
         SaveSession(h, n), Len(pairs') \in Nat, Len(pairs) <= Len(pairs'), n <= Len(pairs')
  PROVE  /\ device' \in [Devices -> [access : 0..MaxPairs, csrf : 0..MaxPairs, cookie : 0..MaxPairs]]
         /\ \A d \in Devices : /\ device'[d].access <= Len(pairs') /\ device'[d].csrf <= Len(pairs')
                               /\ device'[d].cookie <= Len(pairs')
<1>1. Len(pairs) \in Nat
  BY DEF TypeOK
<1>2. ASSUME NEW d \in Devices
      PROVE  /\ device[d] \in [access : 0..MaxPairs, csrf : 0..MaxPairs, cookie : 0..MaxPairs]
             /\ device[d].access <= Len(pairs') /\ device[d].csrf <= Len(pairs')
             /\ device[d].cookie <= Len(pairs')
  <2>1. /\ device[d].access \in 0..MaxPairs /\ device[d].csrf \in 0..MaxPairs
        /\ device[d].cookie \in 0..MaxPairs
    BY DEF TypeOK
  <2>2. device[d].access <= Len(pairs) /\ device[d].csrf <= Len(pairs) /\ device[d].cookie <= Len(pairs)
    BY DEF HeldInv
  <2> QED BY <1>1, <2>1, <2>2, LifeAssumption DEF TypeOK
<1> DEFINE new == [access |-> n, csrf |-> n, cookie |-> n]
<1>3. /\ new \in [access : 0..MaxPairs, csrf : 0..MaxPairs, cookie : 0..MaxPairs]
      /\ new.access = n /\ new.csrf = n /\ new.cookie = n
  BY LifeAssumption
<1>4. device' = [device EXCEPT ![job[h].device] = new] \/ device' = device
  BY DEF SaveSession
<1> HIDE DEF new
<1>5. /\ DOMAIN device' = Devices /\ device' = [d \in Devices |-> device'[d]]
      /\ \A d \in Devices : device'[d] = device[d] \/ device'[d] = new
  BY <1>4 DEF TypeOK
<1> QED BY <1>2, <1>3, <1>5

\* A pair is issued: it is the newest, and its CSRF token is the one stored.
LEMMA IssueStep ==
  ASSUME SessionsIInv, NEW h \in Handlers, NEW p \in Pair, Len(pairs) < MaxPairs,
         p.iat = clock, p.stored => online,
         p.fresh /\ ~p.late => admin # "commit" /\ active,
         pairs' = Append(pairs, p), SaveSession(h, Len(pairs) + 1), Goto(h, "idle"),
         redis' \in [Keys -> Entries], redis'[revokedKey] = redis[revokedKey],
         \A n \in PairIds : redis'[accessKey(n)] = redis[accessKey(n)],
         online => redis'[csrfKey] = Entry(Len(pairs) + 1, Forever),
         rotations' \in [PairIds -> 0..MaxPairs], RotationInv',
         UNCHANGED <<requests, clock, online, active, admin, overwritten, loggedOut, unchecked>>
  PROVE  SessionsIInv'
<1>0. TypeOK /\ HeldInv /\ BlacklistInv /\ MarkerInv /\ CsrfInv
  BY DEF SessionsIInv
<1>1. /\ Len(pairs) \in Nat /\ pairs' \in Seq(Pair) /\ Len(pairs') = Len(pairs) + 1
      /\ Len(pairs') <= MaxPairs /\ pairs'[Len(pairs) + 1] = p
      /\ \A n \in 1..Len(pairs) : pairs'[n] = pairs[n]
  BY <1>0, LifeAssumption DEF TypeOK
<1>2. PairsStay
  BY <1>1 DEF PairsStay
<1>3. /\ pc' \in [Handlers -> Points] /\ job' \in [Handlers -> Job]
      /\ pc'[h] = "idle" /\ job'[h].missed = {}
      /\ \A g \in Handlers \ {h} : pc'[g] = pc[g] /\ job'[g] = job[g]
  BY <1>0, GotoIdle
<1>4. /\ device' \in [Devices -> [access : 0..MaxPairs, csrf : 0..MaxPairs, cookie : 0..MaxPairs]]
      /\ \A d \in Devices : /\ device'[d].access <= Len(pairs') /\ device'[d].csrf <= Len(pairs')
                            /\ device'[d].cookie <= Len(pairs')
  BY <1>0, <1>1, LifeAssumption, SaveSessionStep
<1>5. TypeOK'
  BY <1>0, <1>1, <1>3, <1>4 DEF TypeOK
<1>6. HeldInv'
  <2>1. ASSUME NEW g \in Handlers
        PROVE  /\ pc'[g] \in {"exchange", "admitted", "refused", "logout"} => job'[g].pair \in 1..Len(pairs')
               /\ \A m \in PairIds : refreshKey(m) \notin job'[g].missed
    BY <1>0, <1>1, <1>3 DEF HeldInv
  <2>2. \A n \in 1..Len(pairs') : pairs'[n].iat <= clock'
    BY <1>0, <1>1 DEF HeldInv, TypeOK
  <2>3. loggedOut' \subseteq 1..Len(pairs')
    BY <1>0, <1>1 DEF HeldInv
  <2> QED BY <1>4, <2>1, <2>2, <2>3 DEF HeldInv
<1>7. BlacklistInv'
  <2>1. \A n \in loggedOut : n \in 1..Len(pairs) /\ n \in PairIds
    BY <1>0 DEF HeldInv, TypeOK
  <2> QED BY <1>0, <1>1, <2>1 DEF BlacklistInv, Until, Unexpired
<1>8. MarkerInv'
  <2> SUFFICES ASSUME admin = "commit" \/ ~active, revokedKey \notin overwritten,
                      NEW n \in 1..Len(pairs'), pairs'[n].fresh, ~pairs'[n].late, Unexpired(n)'
               PROVE  redis[revokedKey].val > pairs'[n].iat /\ redis[revokedKey].exp >= Until(n)'
    BY DEF MarkerInv
  <2>1. n \in 1..Len(pairs)
    BY <1>1
  <2>2. pairs'[n] = pairs[n]
    BY <1>1, <2>1
  <2> QED BY <1>0, <2>1, <2>2 DEF MarkerInv, Until, Unexpired
<1>9. CsrfInv'
  <2>1. clock \in 0..MaxClock /\ Len(pairs) + 1 \in 0..(MaxClock + MaxPairs + 1) /\ Forever \in Nat
    BY <1>0, <1>1, LifeAssumption DEF TypeOK, Forever
  <2>2. Entry(Len(pairs) + 1, Forever).val = Len(pairs) + 1 /\ Entry(Len(pairs) + 1, Forever).exp = Forever
    BY <2>1, Forever >= Forever, EntryFacts
  <2> QED BY <1>1, <2>2 DEF CsrfInv
<1>10. \A g \in Handlers : ServedInv(g)'
  BY <1>2, <1>3, ServedFrame
<1> QED BY <1>5, <1>6, <1>7, <1>8, <1>9, <1>10 DEF SessionsIInv

\* A login that outlives the cut-off is marked late.
LEMMA ExecuteLoginStep ==
  ASSUME SessionsIInv, NEW h \in Handlers, ExecuteLogin(h)
  PROVE  SessionsIInv'
<1>0. TypeOK /\ Len(pairs) \in Nat
  BY DEF SessionsIInv, TypeOK
<1> DEFINE p == [iat |-> clock, fresh |-> TRUE, late |-> admin = "commit" \/ ~active, stored |-> online]
<1>1. /\ Len(pairs) < MaxPairs /\ pairs' = Append(pairs, p) /\ SaveSession(h, Len(pairs) + 1)
      /\ Goto(h, "idle")
      /\ UNCHANGED <<requests, clock, online, active, admin, overwritten, loggedOut, rotations, unchecked>>
      /\ redis' = IF online THEN [redis EXCEPT ![csrfKey] = Entry(Len(pairs) + 1, Forever)] ELSE redis
  BY DEF ExecuteLogin, set, history
<1>2. /\ p \in Pair /\ p.iat = clock /\ (p.stored => online)
      /\ (p.fresh /\ ~p.late => admin # "commit" /\ active)
  <2>1. (admin = "commit" \/ ~active) \in BOOLEAN /\ TRUE \in BOOLEAN
    BY SMT
  <2> QED BY <1>0, <2>1 DEF TypeOK, Pair
<1> HIDE DEF p
<1>3. clock \in 0..MaxClock /\ Len(pairs) + 1 \in 0..(MaxClock + MaxPairs + 1) /\ Forever \in Nat
  BY <1>0, <1>1, LifeAssumption DEF TypeOK, Forever
<1>4. Entry(Len(pairs) + 1, Forever) \in Entries
  BY <1>3, EntryFacts
<1>5. /\ redis' \in [Keys -> Entries] /\ redis'[revokedKey] = redis[revokedKey]
      /\ \A n \in PairIds : /\ redis'[accessKey(n)] = redis[accessKey(n)]
                            /\ redis'[refreshKey(n)] = redis[refreshKey(n)]
      /\ online => redis'[csrfKey] = Entry(Len(pairs) + 1, Forever)
  BY <1>0, <1>1, <1>4, KeyFacts DEF TypeOK
<1>6. Len(pairs') = Len(pairs) + 1
  BY <1>0, <1>1, <1>2 DEF TypeOK
<1>7. pc'[h] = "idle" /\ \A g \in Handlers \ {h} : pc'[g] = pc[g] /\ job'[g] = job[g]
  BY <1>0, <1>1, GotoIdle
<1>8. RotationInv'
  BY <1>0, <1>1, <1>5, <1>6, <1>7, RotationFrame
<1>9. rotations' \in [PairIds -> 0..MaxPairs]
  BY <1>0, <1>1 DEF TypeOK
<1> QED BY <1>1, <1>2, <1>5, <1>8, <1>9, IssueStep

\* The exchange blacklists the token it used.
LEMMA ExchangeStep ==
  ASSUME SessionsIInv, NEW h \in Handlers, Exchange(h)
  PROVE  SessionsIInv'
<1>0. TypeOK /\ HeldInv /\ RotationInv /\ Len(pairs) \in Nat
  BY DEF SessionsIInv, TypeOK
<1> PICK old : old = job[h].pair
  OBVIOUS
<1> DEFINE p == [iat |-> clock, fresh |-> FALSE, late |-> FALSE, stored |-> online]
<1>1. /\ pc[h] = "exchange" /\ Len(pairs) < MaxPairs /\ pairs' = Append(pairs, p)
      /\ SaveSession(h, Len(pairs) + 1) /\ Goto(h, "idle")
      /\ UNCHANGED <<requests, clock, online, active, admin, overwritten, loggedOut, unchecked>>
      /\ redis' = IF online
                  THEN [redis EXCEPT ![refreshKey(old)] = Entry(1, Forever),
                                     ![csrfKey] = Entry(Len(pairs) + 1, Forever)]
                  ELSE redis
      /\ rotations' = IF online THEN [rotations EXCEPT ![old] = rotations[old] + 1] ELSE rotations
  BY DEF Exchange
<1>2. p \in Pair /\ p.iat = clock /\ (p.stored => online) /\ ~p.fresh
  <2>1. FALSE \in BOOLEAN
    OBVIOUS
  <2> QED BY <1>0, <2>1 DEF TypeOK, Pair
<1> HIDE DEF p
<1>3. /\ clock \in 0..MaxClock /\ Len(pairs) + 1 \in 0..(MaxClock + MaxPairs + 1) /\ Forever \in Nat
      /\ 1 \in 0..(MaxClock + MaxPairs + 1) /\ Forever >= Forever
      /\ old \in PairIds /\ old \in 1..Len(pairs)
  BY <1>0, <1>1, LifeAssumption DEF TypeOK, Forever, HeldInv, PairIds
<1>4. /\ Entry(Len(pairs) + 1, Forever) \in Entries /\ Entry(1, Forever) \in Entries
      /\ Entry(1, Forever) = [val |-> 1, exp |-> Forever]
  <2>1. Entry(1, Forever).exp = Forever
    BY <1>3, EntryFacts
  <2> QED BY <1>3, <2>1, EntryFacts DEF Entry
<1>5. /\ redis' \in [Keys -> Entries] /\ redis'[revokedKey] = redis[revokedKey]
      /\ \A n \in PairIds : redis'[accessKey(n)] = redis[accessKey(n)]
      /\ \A n \in PairIds \ {old} : redis'[refreshKey(n)] = redis[refreshKey(n)]
      /\ redis'[refreshKey(old)] = IF online THEN [val |-> 1, exp |-> Forever] ELSE redis[refreshKey(old)]
      /\ online => redis'[csrfKey] = Entry(Len(pairs) + 1, Forever)
  BY <1>0, <1>1, <1>3, <1>4, KeyFacts DEF TypeOK
<1>6. Len(pairs') = Len(pairs) + 1
  BY <1>0, <1>1, <1>2 DEF TypeOK
<1>7. pc'[h] = "idle" /\ \A g \in Handlers \ {h} : pc'[g] = pc[g] /\ job'[g] = job[g]
  BY <1>0, <1>1, GotoIdle
<1>8. /\ \A n \in PairIds : rotations[n] \in Nat /\ rotations[n] <= Len(pairs)
      /\ rotations \in [PairIds -> 0..MaxPairs]
  BY <1>0 DEF TypeOK, RotationInv
<1>9. /\ rotations' \in [PairIds -> 0..MaxPairs]
      /\ \A n \in PairIds \ {old} : rotations'[n] = rotations[n]
      /\ rotations'[old] = IF online THEN rotations[old] + 1 ELSE rotations[old]
  <2>1. rotations[old] + 1 \in 0..MaxPairs
    <3>1. rotations[old] \in Nat /\ rotations[old] <= Len(pairs) /\ Len(pairs) < MaxPairs
      BY <1>1, <1>3, <1>8
    <3> QED BY <1>0, <3>1, LifeAssumption
  <2> QED BY <1>1, <1>3, <1>8, <2>1
<1>10. RotationInv'
  <2>1. \A n \in PairIds : rotations'[n] <= Len(pairs')
    BY <1>0, <1>3, <1>6, <1>8, <1>9
  <2>2. \A n \in PairIds, g \in Handlers : Exchanging(g, n)' => Exchanging(g, n) /\ g # h
    BY <1>7 DEF Exchanging
  <2>3. ASSUME NEW n \in PairIds \ {old}, n \notin unchecked'
        PROVE  /\ rotations'[n] <= 1
               /\ rotations'[n] = 1 => redis'[refreshKey(n)] = [val |-> 1, exp |-> Forever]
               /\ \A g \in Handlers : Exchanging(g, n)' => rotations'[n] = 0
               /\ \A f, g \in Handlers : Exchanging(f, n)' /\ Exchanging(g, n)' => f = g
    BY <1>0, <1>1, <1>5, <1>9, <2>2, <2>3 DEF RotationInv
  <2>4. ASSUME old \notin unchecked'
        PROVE  /\ rotations'[old] <= 1
               /\ rotations'[old] = 1 => redis'[refreshKey(old)] = [val |-> 1, exp |-> Forever]
               /\ \A g \in Handlers : Exchanging(g, old)' => rotations'[old] = 0
               /\ \A f, g \in Handlers : Exchanging(f, old)' /\ Exchanging(g, old)' => f = g
    <3>1. Exchanging(h, old)
      BY <1>1 DEF Exchanging
    <3>2. rotations[old] = 0 /\ \A g \in Handlers : Exchanging(g, old) => g = h
      BY <1>0, <1>1, <1>3, <2>4, <3>1 DEF RotationInv
    <3>3. \A g \in Handlers : ~Exchanging(g, old)'
      BY <2>2, <1>3, <3>2
    <3> QED BY <1>5, <1>9, <3>2, <3>3
  <2> QED BY <2>1, <2>3, <2>4 DEF RotationInv
<1> QED BY <1>1, <1>2, <1>5, <1>9, <1>10, IssueStep

-----------------------------------------------------------------------------
(* Write-backs, logout *)

\* A late write-back that replaces a value is on record, and none touches a refresh token.
LEMMA WriteBackStep ==
  ASSUME SessionsIInv, NEW h \in Handlers, WriteBack(h)
  PROVE  SessionsIInv'
<1>0. TypeOK /\ HeldInv /\ BlacklistInv /\ MarkerInv /\ CsrfInv /\ Len(pairs) \in Nat
  BY DEF SessionsIInv, TypeOK
<1>1. /\ pc[h] \in {"admitted", "refused"}
      /\ redis' = IF online
                  THEN [k \in Keys |-> IF k \in job[h].missed
                                       THEN Entry(0, IF k = revokedKey THEN RevocationTTL ELSE DefaultTTL)
                                       ELSE redis[k]]
                  ELSE redis
      /\ overwritten' = overwritten \cup {k \in job[h].missed : Value(k) # 0}
      /\ UNCHANGED <<requests, clock, online, active, admin, pairs, device, loggedOut, rotations, unchecked>>
  BY DEF WriteBack
<1>2. \/ Goto(h, "idle")
      \/ Goto(h, "logout") /\ pc[h] = "admitted"
  BY DEF WriteBack
<1>3. /\ job[h].missed \in SUBSET Keys /\ job[h].pair \in 1..Len(pairs)
      /\ \A n \in PairIds : refreshKey(n) \notin job[h].missed
  BY <1>0, <1>1 DEF TypeOK, Job, HeldInv
<1>4. /\ pc' \in [Handlers -> Points] /\ job' \in [Handlers -> Job]
      /\ \A g \in Handlers \ {h} : pc'[g] = pc[g] /\ job'[g] = job[g]
      /\ \/ pc'[h] = "idle" /\ job'[h].missed = {}
         \/ pc'[h] = "logout" /\ pc[h] = "admitted" /\ job'[h] = job[h]
  <2>1. CASE Goto(h, "idle")
    BY <1>0, <2>1, GotoIdle
  <2>2. CASE Goto(h, "logout") /\ pc[h] = "admitted"
    BY <1>0, <2>2 DEF Goto, TypeOK, Points
  <2> QED BY <1>2, <2>1, <2>2
<1>5. redis' \in [Keys -> Entries] /\ \A n \in PairIds : redis'[refreshKey(n)] = redis[refreshKey(n)]
  <2>1. ASSUME NEW ttl \in {RevocationTTL, DefaultTTL} PROVE Entry(0, ttl) \in Entries
    <3>1. clock \in 0..MaxClock /\ 0 \in 0..(MaxClock + MaxPairs + 1) /\ ttl \in Nat
      BY <1>0, LifeAssumption DEF TypeOK
    <3> QED BY <3>1, EntryFacts
  <2> QED BY <1>0, <1>1, <1>3, <2>1, KeyFacts DEF TypeOK
<1>6. /\ \A k \in Keys : redis[k].val # 0 /\ clock < redis[k].exp => redis'[k] = redis[k] \/ k \in overwritten'
      /\ overwritten \subseteq overwritten' /\ overwritten' \subseteq Keys
  <2>1. ASSUME NEW k \in Keys, redis[k].val # 0, clock < redis[k].exp, k \notin overwritten'
        PROVE  redis'[k] = redis[k]
    BY <1>0, <1>1, <2>1 DEF Value, Present, TypeOK
  <2> QED BY <1>0, <1>1, <1>3, <2>1 DEF TypeOK
<1>7. \A k \in Keys : redis[k].exp \in Nat /\ redis[k].val \in Nat
  BY <1>0 DEF TypeOK, Entries
<1>8. clock \in Nat /\ clock < Forever /\ Forever \in Nat
  BY <1>0, LifeAssumption DEF TypeOK, Forever
<1>9. TypeOK'
  BY <1>0, <1>1, <1>4, <1>5, <1>6 DEF TypeOK
<1>10. HeldInv'
  <2>1. ASSUME NEW g \in Handlers
        PROVE  /\ pc'[g] \in {"exchange", "admitted", "refused", "logout"} => job'[g].pair \in 1..Len(pairs)
               /\ \A m \in PairIds : refreshKey(m) \notin job'[g].missed
    BY <1>0, <1>3, <1>4 DEF HeldInv
  <2> QED BY <1>0, <1>1, <2>1 DEF HeldInv
<1>11. BlacklistInv'
  <2> SUFFICES ASSUME NEW n \in loggedOut, Unexpired(n), accessKey(n) \notin overwritten'
               PROVE  redis'[accessKey(n)].val = 1 /\ redis'[accessKey(n)].exp >= Until(n)
    BY <1>1 DEF BlacklistInv, Until, Unexpired
  <2>1. n \in 1..Len(pairs)
    BY <1>0 DEF HeldInv
  <2>2. n \in PairIds /\ clock < Until(n) /\ Until(n) \in Nat
    BY <1>0, <2>1, UntilFacts
  <2>3. redis[accessKey(n)].val = 1 /\ redis[accessKey(n)].exp >= Until(n)
    BY <1>0, <1>6 DEF BlacklistInv
  <2>4. accessKey(n) \in Keys
    BY <2>2, KeyFacts
  <2>5. clock < redis[accessKey(n)].exp
    BY <1>7, <1>8, <2>2, <2>3, <2>4
  <2> QED BY <1>6, <2>3, <2>4, <2>5
<1>12. MarkerInv'
  <2> SUFFICES ASSUME admin = "commit" \/ ~active, revokedKey \notin overwritten',
                      NEW n \in 1..Len(pairs), pairs[n].fresh, ~pairs[n].late, Unexpired(n)
               PROVE  redis'[revokedKey].val > pairs[n].iat /\ redis'[revokedKey].exp >= Until(n)
    BY <1>1 DEF MarkerInv, Until, Unexpired
  <2>1. n \in PairIds /\ clock < Until(n) /\ Until(n) \in Nat /\ pairs[n].iat \in Nat
    BY <1>0, UntilFacts
  <2>2. redis[revokedKey].val > pairs[n].iat /\ redis[revokedKey].exp >= Until(n)
    BY <1>0, <1>6 DEF MarkerInv
  <2>3. clock < redis[revokedKey].exp /\ redis[revokedKey].val # 0 /\ revokedKey \in Keys
    BY <1>7, <1>8, <2>1, <2>2, KeyFacts
  <2> QED BY <1>6, <2>2, <2>3
<1>13. CsrfInv'
  <2> SUFFICES ASSUME Len(pairs) > 0, pairs[Len(pairs)].stored, loggedOut = {}, csrfKey \notin overwritten'
               PROVE  redis'[csrfKey].val = Len(pairs) /\ redis'[csrfKey].exp = Forever
    BY <1>1 DEF CsrfInv
  <2>1. redis[csrfKey].val = Len(pairs) /\ redis[csrfKey].exp = Forever
    BY <1>0, <1>6 DEF CsrfInv
  <2> QED BY <1>6, <1>8, <2>1, KeyFacts
<1>14. RotationInv'
  BY <1>0, <1>1, <1>4, <1>5, RotationFrame
<1>15. \A g \in Handlers : ServedInv(g)'
  <2>1. PairsStay
    BY <1>0, <1>1 DEF PairsStay
  <2> QED BY <1>4, <1>6, <2>1, ServedFrame
<1> QED BY <1>9, <1>10, <1>11, <1>12, <1>13, <1>14, <1>15 DEF SessionsIInv

\* The entry written at the logout outlives the token.
LEMMA LogoutStep ==
  ASSUME SessionsIInv, NEW h \in Handlers, Logout(h)
  PROVE  SessionsIInv'
<1>0. TypeOK /\ HeldInv /\ BlacklistInv /\ MarkerInv /\ CsrfInv /\ Len(pairs) \in Nat
  BY DEF SessionsIInv, TypeOK
<1> PICK n : n = job[h].pair
  OBVIOUS
<1>1. /\ pc[h] = "logout" /\ SaveSession(h, 0) /\ Goto(h, "idle")
      /\ redis' = IF online
                  THEN [redis EXCEPT ![accessKey(n)] = Entry(1, AccessLife), ![csrfKey] = Absent]
                  ELSE redis
      /\ loggedOut' = IF online THEN loggedOut \cup {n} ELSE loggedOut
      /\ UNCHANGED <<requests, clock, online, active, admin, pairs, overwritten, rotations, unchecked>>
  BY DEF Logout
<1>2. n \in 1..Len(pairs) /\ pairs[n].iat <= clock
  BY <1>0, <1>1 DEF HeldInv
<1>3. n \in PairIds /\ pairs[n].iat \in Nat /\ clock \in 0..MaxClock
  BY <1>0, <1>2, UntilFacts DEF TypeOK
<1>4. /\ Entry(1, AccessLife) \in Entries /\ Entry(1, AccessLife).val = 1
      /\ Entry(1, AccessLife).exp >= Until(n) /\ Absent \in Entries
  <2>1. 1 \in 0..(MaxClock + MaxPairs + 1) /\ AccessLife \in Nat
    BY LifeAssumption
  <2>2. /\ Entry(1, AccessLife) \in Entries /\ Entry(1, AccessLife).val = 1
        /\ Entry(1, AccessLife).exp = IF clock + AccessLife > Forever THEN Forever ELSE clock + AccessLife
    BY <1>3, <2>1, EntryFacts
  <2>3. Entry(1, AccessLife).exp >= Until(n)
    <3>1. /\ Forever \in Nat /\ clock + AccessLife \in Nat /\ pairs[n].iat + AccessLife \in Nat
          /\ pairs[n].iat + AccessLife <= clock + AccessLife
      BY <1>2, <1>3, <2>1, LifeAssumption DEF Forever
    <3>2. (IF clock + AccessLife > Forever THEN Forever ELSE clock + AccessLife) >= Until(n)
      BY <3>1 DEF Until
    <3> QED BY <2>2, <3>2
  <2>4. Absent \in Entries
    BY LifeAssumption DEF Absent, Entries, Forever
  <2> QED BY <2>2, <2>3, <2>4
<1>5. /\ redis' \in [Keys -> Entries] /\ redis'[revokedKey] = redis[revokedKey]
      /\ \A m \in PairIds : redis'[refreshKey(m)] = redis[refreshKey(m)]
      /\ \A m \in PairIds \ {n} : redis'[accessKey(m)] = redis[accessKey(m)]
      /\ online => redis'[accessKey(n)] = Entry(1, AccessLife)
      /\ ~online => redis' = redis
  BY <1>0, <1>1, <1>3, <1>4, KeyFacts DEF TypeOK
<1>6. /\ pc' \in [Handlers -> Points] /\ job' \in [Handlers -> Job]
      /\ pc'[h] = "idle" /\ job'[h].missed = {}
      /\ \A g \in Handlers \ {h} : pc'[g] = pc[g] /\ job'[g] = job[g]
  BY <1>0, <1>1, GotoIdle
<1>7. /\ device' \in [Devices -> [access : 0..MaxPairs, csrf : 0..MaxPairs, cookie : 0..MaxPairs]]
      /\ \A d \in Devices : /\ device'[d].access <= Len(pairs') /\ device'[d].csrf <= Len(pairs')
                            /\ device'[d].cookie <= Len(pairs')
  <2>1. /\ 0 \in Nat /\ 0 <= MaxPairs /\ 0 <= Len(pairs') /\ Len(pairs') \in Nat
        /\ Len(pairs) <= Len(pairs')
    BY <1>0, <1>1, LifeAssumption
  <2> QED BY <1>0, <1>1, <2>1, SaveSessionStep
<1>8. loggedOut' \subseteq PairIds /\ loggedOut' \subseteq 1..Len(pairs)
  BY <1>0, <1>1, <1>2, <1>3 DEF TypeOK, HeldInv
<1>9. TypeOK'
  BY <1>0, <1>1, <1>5, <1>6, <1>7, <1>8 DEF TypeOK
<1>10. HeldInv'
  <2>1. ASSUME NEW g \in Handlers
        PROVE  /\ pc'[g] \in {"exchange", "admitted", "refused", "logout"} => job'[g].pair \in 1..Len(pairs)
               /\ \A m \in PairIds : refreshKey(m) \notin job'[g].missed
    BY <1>0, <1>6 DEF HeldInv
  <2> QED BY <1>0, <1>1, <1>7, <1>8, <2>1 DEF HeldInv
<1>11. BlacklistInv'
  <2> SUFFICES ASSUME NEW m \in loggedOut', Unexpired(m), accessKey(m) \notin overwritten
               PROVE  redis'[accessKey(m)].val = 1 /\ redis'[accessKey(m)].exp >= Until(m)
    BY <1>1 DEF BlacklistInv, Until, Unexpired
  <2>1. CASE m = n /\ online
    BY <1>4, <1>5, <2>1
  <2>2. CASE m # n \/ ~online
    <3>1. m \in loggedOut /\ m \in PairIds
      BY <1>1, <1>8, <2>2
    <3>2. redis'[accessKey(m)] = redis[accessKey(m)]
      BY <1>5, <2>2, <3>1
    <3> QED BY <1>0, <3>1, <3>2 DEF BlacklistInv
  <2> QED BY <2>1, <2>2
<1>12. MarkerInv'
  BY <1>0, <1>1, <1>5 DEF MarkerInv, Until, Unexpired
<1>13. CsrfInv'
  BY <1>0, <1>1, <1>5 DEF CsrfInv
<1>14. RotationInv'
  <2>1. Len(pairs') \in Nat /\ Len(pairs) <= Len(pairs')
    BY <1>0, <1>1
  <2>2. \A g \in Handlers : pc'[g] = "exchange" => pc[g] = "exchange" /\ job'[g] = job[g]
    BY <1>6
  <2> QED BY <1>1, <1>5, <2>1, <2>2, RotationFrame
<1>15. \A g \in Handlers : ServedInv(g)'
  <2>1. PairsStay
    BY <1>0, <1>1 DEF PairsStay
  <2> QED BY <1>1, <1>6, <2>1, ServedFrame
<1> QED BY <1>9, <1>10, <1>11, <1>12, <1>13, <1>14, <1>15 DEF SessionsIInv

\* The browser drops its tokens by itself.
LEMMA LogoutStaffStep ==
  ASSUME SessionsIInv, NEW d \in Devices, LogoutStaff(d)
  PROVE  SessionsIInv'
<1>0. TypeOK /\ HeldInv /\ BlacklistInv /\ MarkerInv /\ CsrfInv /\ Len(pairs) \in Nat
  BY DEF SessionsIInv, TypeOK
<1>1. /\ device' = [device EXCEPT ![d] = [device[d] EXCEPT !.access = 0, !.csrf = 0]]
      /\ UNCHANGED <<clock, online, redis, active, admin, pairs, pc, job, requests, overwritten,
                     loggedOut, rotations, unchecked>>
  BY <1>0 DEF LogoutStaff, history, TypeOK
<1>2. /\ device' \in [Devices -> [access : 0..MaxPairs, csrf : 0..MaxPairs, cookie : 0..MaxPairs]]
      /\ \A e \in Devices : /\ device'[e].access <= Len(pairs) /\ device'[e].csrf <= Len(pairs)
                            /\ device'[e].cookie <= Len(pairs)
  <2>1. \A e \in Devices \ {d} : device'[e] = device[e]
    BY <1>0, <1>1 DEF TypeOK
  <2>2. device'[d] = [access |-> 0, csrf |-> 0, cookie |-> device[d].cookie]
    BY <1>0, <1>1 DEF TypeOK
  <2>3. 0 \in 0..MaxPairs /\ device[d].cookie \in 0..MaxPairs /\ device[d].cookie <= Len(pairs)
    BY <1>0, LifeAssumption DEF TypeOK, HeldInv
  <2>4. DOMAIN device' = Devices /\ device' = [e \in Devices |-> device'[e]]
    BY <1>0, <1>1 DEF TypeOK
  <2>5. /\ device'[d] \in [access : 0..MaxPairs, csrf : 0..MaxPairs, cookie : 0..MaxPairs]
        /\ device'[d].access = 0 /\ device'[d].csrf = 0 /\ device'[d].cookie = device[d].cookie
    BY <2>2, <2>3
  <2>6. \A e \in Devices : device[e] \in [access : 0..MaxPairs, csrf : 0..MaxPairs, cookie : 0..MaxPairs]
    BY <1>0 DEF TypeOK
  <2>7. \A e \in Devices : device'[e] \in [access : 0..MaxPairs, csrf : 0..MaxPairs, cookie : 0..MaxPairs]
    BY <2>1, <2>5, <2>6
  <2>8. \A e \in Devices : /\ device'[e].access <= Len(pairs) /\ device'[e].csrf <= Len(pairs)
                            /\ device'[e].cookie <= Len(pairs)
    BY <1>0, <2>1, <2>3, <2>5 DEF HeldInv
  <2> QED BY <2>4, <2>7, <2>8
<1>3. TypeOK'
  BY <1>0, <1>1, <1>2 DEF TypeOK
<1>4. HeldInv'
  BY <1>0, <1>1, <1>2 DEF HeldInv
<1>5. BlacklistInv' /\ MarkerInv' /\ CsrfInv'
  BY <1>0, <1>1 DEF BlacklistInv, MarkerInv, CsrfInv, Until, Unexpired
<1>6. RotationInv' /\ \A g \in Handlers : ServedInv(g)'
  BY <1>0, <1>1, RotationFrame, ServedFrame DEF PairsStay
<1> QED BY <1>3, <1>4, <1>5, <1>6 DEF SessionsIInv

-----------------------------------------------------------------------------
(* Deactivation, and the world *)

\* Only the account or the connection changes, or the marker.
LEMMA WorldStep ==
  ASSUME SessionsIInv, TypeOK', MarkerInv',
         UNCHANGED <<clock, pairs, device, pc, job, history>>,
         redis'[csrfKey] = redis[csrfKey],
         \A n \in PairIds : /\ redis'[accessKey(n)] = redis[accessKey(n)]
                            /\ redis'[refreshKey(n)] = redis[refreshKey(n)]
  PROVE  SessionsIInv'
<1>0. TypeOK /\ HeldInv /\ BlacklistInv /\ CsrfInv /\ Len(pairs) \in Nat /\ loggedOut \subseteq PairIds
  BY DEF SessionsIInv, TypeOK
<1>1. UNCHANGED <<clock, pairs, device, pc, job, overwritten, loggedOut, rotations, unchecked>>
  BY DEF history
<1>2. HeldInv'
  BY <1>0, <1>1 DEF HeldInv
<1>3. BlacklistInv' /\ CsrfInv'
  BY <1>0, <1>1 DEF BlacklistInv, CsrfInv, Until, Unexpired
<1>4. RotationInv' /\ \A g \in Handlers : ServedInv(g)'
  BY <1>0, <1>1, RotationFrame, ServedFrame DEF PairsStay
<1> QED BY <1>2, <1>3, <1>4 DEF SessionsIInv

\* The marker is newer than every token and outlives it.
LEMMA RevokeStep ==
  ASSUME SessionsIInv, RevokeAllUserTokens
  PROVE  SessionsIInv'
<1>0. TypeOK /\ HeldInv /\ Len(pairs) \in Nat /\ clock \in 0..MaxClock
  BY DEF SessionsIInv, TypeOK
<1>1. /\ redis' = [redis EXCEPT ![revokedKey] = Entry(clock + 1, RevocationTTL)]
      /\ admin' = "commit" /\ UNCHANGED <<online, active>>
      /\ UNCHANGED <<clock, pairs, device, pc, job, history>>
  BY DEF RevokeAllUserTokens, set
<1>2. /\ Entry(clock + 1, RevocationTTL) \in Entries /\ Entry(clock + 1, RevocationTTL).val = clock + 1
      /\ Entry(clock + 1, RevocationTTL).exp =
           IF clock + RevocationTTL > Forever THEN Forever ELSE clock + RevocationTTL
  <2>1. clock + 1 \in 0..(MaxClock + MaxPairs + 1) /\ RevocationTTL \in Nat
    BY <1>0, LifeAssumption
  <2> QED BY <1>0, <2>1, EntryFacts
<1>3. /\ redis' \in [Keys -> Entries] /\ redis'[csrfKey] = redis[csrfKey]
      /\ redis'[revokedKey] = Entry(clock + 1, RevocationTTL)
      /\ \A n \in PairIds : /\ redis'[accessKey(n)] = redis[accessKey(n)]
                            /\ redis'[refreshKey(n)] = redis[refreshKey(n)]
  BY <1>0, <1>1, <1>2, KeyFacts DEF TypeOK
<1>4. TypeOK'
  BY <1>0, <1>1, <1>3 DEF TypeOK, history
<1>5. MarkerInv'
  <2>1. ASSUME NEW n \in 1..Len(pairs)
        PROVE  redis'[revokedKey].val > pairs[n].iat /\ redis'[revokedKey].exp >= Until(n)
    <3>1. pairs[n].iat \in Nat /\ pairs[n].iat <= clock
      BY <1>0, UntilFacts DEF HeldInv
    <3>2. /\ Forever \in Nat /\ RevocationTTL \in Nat /\ AccessLife \in Nat
          /\ AccessLife <= RevocationTTL /\ clock \in Nat
      BY <1>0, LifeAssumption DEF Forever
    <3>3. redis'[revokedKey].val > pairs[n].iat
      BY <1>2, <1>3, <3>1, <3>2
    <3>4. clock + RevocationTTL >= pairs[n].iat + AccessLife
      BY <3>1, <3>2
    <3>5. (IF clock + RevocationTTL > Forever THEN Forever ELSE clock + RevocationTTL) >= Until(n)
      BY <3>1, <3>2, <3>4 DEF Until
    <3> QED BY <1>2, <1>3, <3>3, <3>5
  <2> QED BY <1>1, <2>1 DEF MarkerInv, Until
<1> QED BY <1>1, <1>3, <1>4, <1>5, WorldStep

\* A commit deactivates; a failed one leaves the account as it was.
LEMMA CommitDeactivationStep ==
  ASSUME SessionsIInv, NEW ok \in BOOLEAN, CommitDeactivation(ok)
  PROVE  SessionsIInv'
<1>0. TypeOK /\ MarkerInv
  BY DEF SessionsIInv
<1>1. /\ admin = "commit" /\ admin' = "idle" /\ active' = ~ok
      /\ UNCHANGED <<online, redis>> /\ UNCHANGED <<clock, pairs, device, pc, job, history>>
  BY DEF CommitDeactivation
<1>2. active' \in BOOLEAN
  BY <1>1, Zenon
<1>3. TypeOK'
  BY <1>0, <1>1, <1>2 DEF TypeOK, history
<1>4. MarkerInv'
  BY <1>0, <1>1 DEF MarkerInv, Until, Unexpired, history
<1> QED BY <1>1, <1>3, <1>4, WorldStep

\* While Redis is away its keys stay as they are.
LEMMA RedisStep ==
  ASSUME SessionsIInv, RedisDown \/ RedisUp
  PROVE  SessionsIInv'
<1>0. TypeOK /\ MarkerInv
  BY DEF SessionsIInv
<1>1. /\ UNCHANGED <<redis, active, admin>> /\ UNCHANGED <<clock, pairs, device, pc, job, history>>
      /\ online' \in BOOLEAN
  <2>1. UNCHANGED <<redis, active, admin>> /\ UNCHANGED <<clock, pairs, device, pc, job, history>>
    BY DEF RedisDown, RedisUp, history
  <2>2. online' \in BOOLEAN
    BY Zenon DEF RedisDown, RedisUp
  <2> QED BY <2>1, <2>2
<1>2. TypeOK'
  BY <1>0, <1>1 DEF TypeOK, history
<1>3. MarkerInv'
  BY <1>0, <1>1 DEF MarkerInv, Until, Unexpired, history
<1> QED BY <1>1, <1>2, <1>3, WorldStep

\* A second passes: what must outlive a token is still there while the token is valid.
LEMMA TickStep ==
  ASSUME SessionsIInv, Tick
  PROVE  SessionsIInv'
<1>0. TypeOK /\ HeldInv /\ BlacklistInv /\ MarkerInv /\ CsrfInv /\ RotationInv /\ Len(pairs) \in Nat
  BY DEF SessionsIInv, TypeOK
<1>1. /\ clock < MaxClock /\ clock' = clock + 1
      /\ redis' = [k \in Keys |-> IF redis[k].exp <= clock + 1 THEN Absent ELSE redis[k]]
      /\ UNCHANGED <<online, active, admin, pairs, device, pc, job, requests, overwritten,
                     loggedOut, rotations, unchecked>>
  BY DEF Tick, history
<1>2. /\ clock \in Nat /\ clock' \in 0..MaxClock /\ Forever \in Nat /\ clock + 1 < Forever
      /\ \A k \in Keys : redis[k] \in Entries /\ redis[k].exp \in Nat
  BY <1>0, <1>1, LifeAssumption DEF TypeOK, Forever, Entries
<1>3. Absent \in Entries
  BY LifeAssumption DEF Absent, Entries, Forever
<1>4. /\ redis' \in [Keys -> Entries]
      /\ \A k \in Keys : clock + 1 < redis[k].exp => redis'[k] = redis[k]
  BY <1>1, <1>2, <1>3
<1>5. ASSUME NEW n \in 1..Len(pairs), Unexpired(n)'
      PROVE  /\ n \in PairIds /\ pairs[n].iat \in Nat /\ Unexpired(n) /\ Until(n)' = Until(n)
             /\ Until(n) \in Nat /\ clock + 1 < Until(n)
  <2>1. n \in PairIds /\ pairs[n].iat \in Nat /\ Until(n) \in Nat /\ AccessLife \in Nat
    BY <1>0, UntilFacts, LifeAssumption
  <2>2. clock + 1 < pairs[n].iat + AccessLife
    BY <1>1, <1>5 DEF Unexpired
  <2>3. Unexpired(n)
    BY <1>2, <2>1, <2>2 DEF Unexpired
  <2>4. clock + 1 < Until(n)
    BY <1>2, <2>1, <2>2 DEF Until
  <2>5. Until(n)' = Until(n)
    BY <1>1 DEF Until
  <2> QED BY <2>1, <2>3, <2>4, <2>5
<1>6. TypeOK'
  BY <1>0, <1>1, <1>2, <1>4 DEF TypeOK
<1>7. HeldInv'
  <2>1. \A n \in 1..Len(pairs) : pairs[n].iat <= clock'
    <3> TAKE n \in 1..Len(pairs)
    <3>1. pairs[n].iat \in Nat /\ pairs[n].iat <= clock
      BY <1>0, UntilFacts DEF HeldInv
    <3> QED BY <1>1, <1>2, <3>1
  <2> QED BY <1>0, <1>1, <2>1 DEF HeldInv
<1>8. BlacklistInv'
  <2> SUFFICES ASSUME NEW n \in loggedOut, Unexpired(n)', accessKey(n) \notin overwritten
               PROVE  redis'[accessKey(n)].val = 1 /\ redis'[accessKey(n)].exp >= Until(n)'
    BY <1>1 DEF BlacklistInv
  <2>1. n \in 1..Len(pairs)
    BY <1>0 DEF HeldInv
  <2>2. n \in PairIds /\ Unexpired(n) /\ Until(n)' = Until(n) /\ Until(n) \in Nat /\ clock + 1 < Until(n)
    BY <1>5, <2>1
  <2>3. redis[accessKey(n)].val = 1 /\ redis[accessKey(n)].exp >= Until(n) /\ accessKey(n) \in Keys
    BY <1>0, <2>2, KeyFacts DEF BlacklistInv
  <2>4. clock + 1 < redis[accessKey(n)].exp
    BY <1>2, <2>2, <2>3
  <2> QED BY <1>4, <2>2, <2>3, <2>4
<1>9. MarkerInv'
  <2> SUFFICES ASSUME admin = "commit" \/ ~active, revokedKey \notin overwritten,
                      NEW n \in 1..Len(pairs), pairs[n].fresh, ~pairs[n].late, Unexpired(n)'
               PROVE  redis'[revokedKey].val > pairs[n].iat /\ redis'[revokedKey].exp >= Until(n)'
    BY <1>1 DEF MarkerInv
  <2>1. Unexpired(n) /\ Until(n)' = Until(n) /\ Until(n) \in Nat /\ clock + 1 < Until(n)
    BY <1>5
  <2>2. redis[revokedKey].val > pairs[n].iat /\ redis[revokedKey].exp >= Until(n) /\ revokedKey \in Keys
    BY <1>0, <2>1, KeyFacts DEF MarkerInv
  <2>3. clock + 1 < redis[revokedKey].exp
    BY <1>2, <2>1, <2>2
  <2> QED BY <1>4, <2>1, <2>2, <2>3
<1>10. CsrfInv'
  BY <1>0, <1>1, <1>2, <1>4, KeyFacts DEF CsrfInv
<1>11. RotationInv'
  <2>1. ASSUME NEW n \in PairIds, redis[refreshKey(n)] = [val |-> 1, exp |-> Forever]
        PROVE  redis'[refreshKey(n)] = [val |-> 1, exp |-> Forever]
    BY <1>2, <1>4, <2>1, KeyFacts
  <2>2. \A g \in Handlers, n \in PairIds : Exchanging(g, n)' <=> Exchanging(g, n)
    BY <1>1 DEF Exchanging
  <2> QED BY <1>0, <1>1, <2>1, <2>2 DEF RotationInv
<1>12. \A g \in Handlers : ServedInv(g)'
  BY <1>0, <1>1, ServedFrame DEF PairsStay
<1> QED BY <1>6, <1>7, <1>8, <1>9, <1>10, <1>11, <1>12 DEF SessionsIInv

-----------------------------------------------------------------------------
\* Every step of the account's sessions keeps the invariant.
LEMMA SessionsNextIInv == SessionsIInv /\ [Next]_vars => SessionsIInv'
<1> SUFFICES ASSUME SessionsIInv, [Next]_vars PROVE SessionsIInv'
  OBVIOUS
<1>1. CASE UNCHANGED vars
  <2>1. /\ TypeOK /\ MarkerInv
        /\ UNCHANGED <<clock, online, redis, active, admin, pairs, device, pc, job, requests,
                       overwritten, loggedOut, rotations, unchecked>>
    BY <1>1 DEF SessionsIInv, vars
  <2>2. TypeOK' /\ MarkerInv'
    BY <2>1 DEF TypeOK, MarkerInv, Until, Unexpired
  <2> QED BY <2>1, <2>2, WorldStep DEF history
<1>2. ASSUME NEW h \in Handlers, NEW d \in Devices,
             \/ ValidateLogin(h, d) \/ RotateRefreshToken(h, d)
             \/ \E write \in BOOLEAN : Request(h, d, "api", write)
             \/ Request(h, d, "logout", TRUE)
      PROVE  SessionsIInv'
  BY <1>2, ValidateLoginStep, RotateRefreshTokenStep, RequestStep DEF Kinds
<1>3. ASSUME NEW h \in Handlers, ExecuteLogin(h) \/ Exchange(h) \/ WriteBack(h) \/ Logout(h)
      PROVE  SessionsIInv'
  BY <1>3, ExecuteLoginStep, ExchangeStep, WriteBackStep, LogoutStep
<1> QED BY <1>1, <1>2, <1>3, LogoutStaffStep, RevokeStep, CommitDeactivationStep, RedisStep, TickStep DEF Next

\* The invariant holds throughout.
LEMMA SessionsInductive == Spec => []SessionsIInv
BY SessionsInitIInv, SessionsNextIInv, PTL DEF Spec

\* auth.service and csrf.service over a best-effort Redis: a blacklisted token stays
\* refused, a refresh token is exchanged once and the latest browser can write, with
\* exactly the exceptions a late write-back or an absent Redis makes.
THEOREM SessionsCorrect == Spec => []SessionsInv
<1>1. SessionsIInv => SessionsInv
  <2> SUFFICES ASSUME SessionsIInv PROVE SessionsInv
    OBVIOUS
  <2>0. TypeOK /\ RotationInv /\ CsrfInv
    BY DEF SessionsIInv
  <2>1. LoggedOutStaysOut
    BY DEF SessionsIInv, ServedInv, LoggedOutStaysOut
  <2>2. RotatedOnce
    BY <2>0 DEF RotationInv, RotatedOnce, TypeOK
  <2>3. LatestBrowserCanWrite
    <3> SUFFICES ASSUME NEW d \in Devices, online, device[d].csrf # 0, device[d].csrf = Len(pairs),
                        pairs[Len(pairs)].stored, loggedOut = {}, csrfKey \notin overwritten
                 PROVE  Value(csrfKey) = Len(pairs)
      BY DEF LatestBrowserCanWrite
    <3>1. Len(pairs) > 0
      BY <2>0 DEF TypeOK
    <3>2. redis[csrfKey].val = Len(pairs) /\ redis[csrfKey].exp = Forever
      BY <2>0, <3>1 DEF CsrfInv
    <3>3. clock < Forever
      BY <2>0, LifeAssumption DEF TypeOK, Forever
    <3> QED BY <3>2, <3>3 DEF Value, Present
  <2> QED BY <2>0, <2>1, <2>2, <2>3 DEF SessionsInv
<1> QED BY <1>1, SessionsInductive, PTL

-----------------------------------------------------------------------------
(* Who opens what *)

\* The routes of the staff, by action and subject.
LEMMA RoutePermissions ==
  ASSUME NEW route \in StaffRoutes
  PROVE  \/ \E a \in {"create", "read", "update", "delete"} :
              \E s \in {"User", "Product", "Category", "Branch", "Table", "Customer"} :
                route.perm = <<a, s>>
         \/ \E a \in {"create", "read", "update"} : route.perm = <<a, "Order">>
         \/ route.perm = <<"update", "Tenant">>
         \/ route.perm = <<"read", "Restaurant">>
         \/ route.perm = <<"read", "Agent">>
<1> USE DEF OnCollection, OnRecord, OnRestore
<1>1. CASE route \in customerRoutes
  BY <1>1 DEF customerRoutes
<1>2. CASE route \in userRoutes
  BY <1>2 DEF userRoutes
<1>3. CASE route \in restaurantRoutes
  BY <1>3 DEF restaurantRoutes
<1>4. CASE route \in menuRoutes
  BY <1>4 DEF menuRoutes
<1>5. CASE route \in branchRoutes
  BY <1>5 DEF branchRoutes
<1>6. CASE route \in orderRoutes
  BY <1>6 DEF orderRoutes
<1>7. CASE route \in kdsRoutes
  BY <1>7 DEF kdsRoutes
<1>8. CASE route \in tenantRoutes
  BY <1>8 DEF tenantRoutes
<1>9. CASE route \in agentRoutes
  BY <1>9 DEF agentRoutes
<1> QED BY <1>1, <1>2, <1>3, <1>4, <1>5, <1>6, <1>7, <1>8, <1>9 DEF StaffRoutes

\* A token without permissions opens no guarded route of the staff.
LEMMA RotatedTokens == RotatedOpensNothing
<1> SUFFICES ASSUME NEW route \in StaffRoutes, NEW record \in Records
             PROVE  canActivate({}, route, record) # "allowed"
  BY DEF RotatedOpensNothing
<1>1. route.perm # <<"read", "Tenant">>
  BY RoutePermissions
<1>2. createForUser({}) = {<<"read", "Tenant">>}
  BY DEF createForUser
<1> QED BY <1>1, <1>2 DEF canActivate

\* The rows of the seed that the routes need.
LEMMA SeededRows ==
  /\ \A a \in {"create", "read", "update", "delete"} :
       \A s \in {"user", "product", "category", "branch", "table", "customer"} :
         <<a, s>> \in permissionData
  /\ \A a \in {"create", "read", "update"} : <<a, "order">> \in permissionData
  /\ <<"update", "tenant">> \in permissionData
  /\ <<"read", "restaurant">> \in permissionData
  /\ <<"read", "agent">> \in permissionData
BY DEF permissionData, legacyPermissions

\* The subjects of the ability.
LEMMA Subjects ==
  /\ normalizedResource.user = "User" /\ normalizedResource.product = "Product"
  /\ normalizedResource.category = "Category" /\ normalizedResource.branch = "Branch"
  /\ normalizedResource.table = "Table" /\ normalizedResource.customer = "Customer"
  /\ normalizedResource.order = "Order" /\ normalizedResource.tenant = "Tenant"
  /\ normalizedResource.restaurant = "Restaurant" /\ normalizedResource.agent = "Agent"
BY DEF normalizedResource

\* A row gives its holder the right on the subject.
LEMMA RowGivesRight ==
  ASSUME NEW a, NEW s, <<a, s>> \in permissionData
  PROVE  <<a, normalizedResource[s]>> \in createForUser(permissionData)
BY DEF createForUser

\* Every staff route names a right the seed gives the owner.
LEMMA OwnerOpens == OwnerOpensAll
<1> SUFFICES ASSUME NEW route \in StaffRoutes
             PROVE  canActivate(rolePermissions("RESTAURANT_OWNER"), route, "own") = "allowed"
  BY DEF OwnerOpensAll
<1>1. realEntityFound(route, "own")
  BY DEF realEntityFound
<1>2. \A a \in {"create", "read", "update", "delete"} :
        \A s \in {"User", "Product", "Category", "Branch", "Table", "Customer"} :
          <<a, s>> \in createForUser(permissionData)
  BY SeededRows, Subjects, RowGivesRight
<1>3. \A a \in {"create", "read", "update"} : <<a, "Order">> \in createForUser(permissionData)
  BY SeededRows, Subjects, RowGivesRight
<1>4. /\ <<"update", "Tenant">> \in createForUser(permissionData)
      /\ <<"read", "Restaurant">> \in createForUser(permissionData)
      /\ <<"read", "Agent">> \in createForUser(permissionData)
  BY SeededRows, Subjects, RowGivesRight
<1>5. route.perm \in createForUser(permissionData)
  BY <1>2, <1>3, <1>4, RoutePermissions
<1> QED BY <1>1, <1>5 DEF canActivate, rolePermissions

\* A record of another tenant is not found, whatever the rights.
LEMMA ForeignRecords == ForeignRecordsStayHidden
BY DEF ForeignRecordsStayHidden, canActivate, realEntityFound

\* No role of the seed has a right on the subject the office controllers name.
LEMMA OfficeClosed == OfficeIsClosed
<1> SUFFICES ASSUME NEW route \in OfficeRoutes, NEW role \in Roles
             PROVE  canActivate(rolePermissions(role), route, "own") = "forbidden"
  BY DEF OfficeIsClosed
<1>1. route.perm = <<"read", "agent">> /\ ~route.byId
  BY DEF OfficeRoutes, officeRoutes, officeAgentRoutes, businessRoutes, intelligenceRoutes,
         operationalRoutes, OnCollection
<1>2. ASSUME NEW p \in permissionData PROVE normalizedResource[p[2]] # "agent"
  <2>1. p[2] \in {"branch", "menu", "order", "kds", "customer", "billing", "analytics", "tenant", "user",
                  "product", "category", "table", "restaurant", "agent"}
    BY DEF permissionData, legacyPermissions
  <2> QED BY <2>1 DEF normalizedResource
<1>3. rolePermissions(role) \subseteq permissionData
  BY DEF rolePermissions
<1>4. <<"read", "agent">> \notin createForUser(rolePermissions(role))
  BY <1>2, <1>3 DEF createForUser
<1> QED BY <1>1, <1>4 DEF canActivate

\* revokeAllUserTokens, JwtStrategy and RbacPermissionGuard: after a deactivation no token
\* of the account opens a guarded route, with the exceptions the property names.
THEOREM DeactivatedStaysOut == Spec => []DeactivatedCannotAct
<1>1. SessionsIInv => DeactivatedCannotAct
  BY RotatedTokens DEF SessionsIInv, ServedInv, DeactivatedCannotAct
<1> QED BY <1>1, SessionsInductive, PTL

\* seed.ts and RbacPermissionGuard: whoever is served with the token of a login meets tables
\* that open the staff routes to an owner, no other tenant's record and no office route.
THEOREM OwnerIsServed == Spec => []OwnerOpensStaffRoutes
<1>1. OwnerOpensStaffRoutes
  BY OwnerOpens, ForeignRecords, OfficeClosed DEF OwnerOpensStaffRoutes
<1> QED BY <1>1, PTL
=============================================================================
