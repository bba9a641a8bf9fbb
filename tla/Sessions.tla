------------------------------ MODULE Sessions ------------------------------
(***************************************************************************)
(* The sessions of one staff account: login, refresh token rotation, the   *)
(* checks of an authenticated request (CsrfGuard, then JwtStrategy), logout *)
(* and deactivation, over the Redis keys CacheService reads and writes.    *)
(* Handlers interleave at every Redis or database call; Redis may go away  *)
(* and come back.  A pair of tokens is named by its serial number, and so  *)
(* is the CSRF token issued with it.  Time is counted in seconds.          *)
(***************************************************************************)
EXTENDS AccessControl, Sequences

CONSTANTS
  Devices,        \* browsers of the account's user
  Handlers,       \* request handlers that may be in progress at once
  AccessLife,     \* JWT_CONFIG.accessTokenExpiry
  RevocationTTL,  \* USER_REVOCATION_TTL_SECONDS
  DefaultTTL,     \* default ttlSeconds of CacheService.get
  MaxClock,       \* bound: the clock stops here
  MaxPairs,       \* bound: token pairs issued
  MaxRequests     \* bound: requests of all kinds

ASSUME LifeAssumption ==
  /\ AccessLife \in Nat \ {0} /\ DefaultTTL \in Nat \ {0}
  /\ RevocationTTL \in Nat /\ RevocationTTL >= AccessLife
  /\ MaxClock \in Nat /\ MaxPairs \in Nat /\ MaxRequests \in Nat

VARIABLES
  clock,
  online,       \* CacheService.isConnected
  redis,        \* key -> [val, exp]; a key is absent from exp on
  active,       \* users.isActive
  admin,        \* where the deactivation is: "idle", "commit"
  pairs,        \* the token pairs issued, as signed
  device,       \* what each browser holds: local access and CSRF token, refresh cookie
  pc,           \* where each handler is
  job,          \* what each handler works on
  requests,     \* how many requests have arrived
  \* history
  overwritten,  \* keys whose security value a late write-back replaced
  loggedOut,    \* pairs whose access token the logout handler blacklisted
  rotations,    \* refresh token -> how often it was exchanged and blacklisted
  unchecked     \* refresh tokens let through while Redis was away, or while another
                \* handler held the same token between its check and its blacklisting

vars == <<clock, online, redis, active, admin, pairs, device, pc, job, requests,
          overwritten, loggedOut, rotations, unchecked>>

PairIds == 1..MaxPairs
Forever == MaxClock + 1

\* Key names: revoked:user, csrf:token, blacklist:access:n, blacklist:token:n.
revokedKey == <<"revoked", 0>>
csrfKey == <<"csrf", 0>>
accessKey(n) == <<"access", n>>
refreshKey(n) == <<"refresh", n>>
Keys == {revokedKey, csrfKey} \cup ({"access", "refresh"} \X PairIds)

\* Every value these keys hold is a number: false and null are 0, true is 1.
\* A time to live that reaches past the bound of the clock is as good as any other.
Entries == [val : 0..(MaxClock + MaxPairs + 1), exp : 0..Forever]
Absent == [val |-> 0, exp |-> 0]
Entry(v, ttl) == [val |-> v, exp |-> IF clock + ttl > Forever THEN Forever ELSE clock + ttl]

\* fresh: signed at login, with the roles and permissions of the account.
\* stored: Redis was there to take the CSRF token issued with the pair.
\* late: signed by a login that outlived the deactivation's cut-off.
Pair == [iat : 0..MaxClock, fresh : BOOLEAN, late : BOOLEAN, stored : BOOLEAN]

\* blind, dead, out: what was true of Redis, account and token when the request
\* arrived: Redis away, the account deactivated, the token logged out.
Points == {"idle", "login", "exchange", "admitted", "refused", "logout"}
Kinds == {"login", "refresh", "api", "logout"}
Job == [kind : Kinds, device : Devices \cup {"none"}, pair : 0..MaxPairs, at : 0..MaxClock,
        missed : SUBSET Keys, blind : BOOLEAN, dead : BOOLEAN, out : BOOLEAN]

NoJob == [kind |-> "api", device |-> "none", pair |-> 0, at |-> 0,
          missed |-> {}, blind |-> FALSE, dead |-> FALSE, out |-> FALSE]

TypeOK ==
  /\ clock \in 0..MaxClock
  /\ online \in BOOLEAN
  /\ redis \in [Keys -> Entries]
  /\ active \in BOOLEAN
  /\ admin \in {"idle", "commit"}
  /\ pairs \in Seq(Pair) /\ Len(pairs) <= MaxPairs
  /\ device \in [Devices -> [access : 0..MaxPairs, csrf : 0..MaxPairs, cookie : 0..MaxPairs]]
  /\ pc \in [Handlers -> Points]
  /\ job \in [Handlers -> Job]
  /\ requests \in 0..MaxRequests
  /\ overwritten \in SUBSET Keys
  /\ loggedOut \in SUBSET PairIds
  /\ rotations \in [PairIds -> 0..MaxPairs]
  /\ unchecked \in SUBSET PairIds

-----------------------------------------------------------------------------
(* CacheService *)

Present(k) == online /\ clock < redis[k].exp
Value(k) == IF Present(k) THEN redis[k].val ELSE 0

\* set, setStrict and del change nothing while Redis is away.
set(k, v, ttl) ==
  redis' = IF online THEN [redis EXCEPT ![k] = Entry(v, ttl)] ELSE redis

-----------------------------------------------------------------------------
Init ==
  /\ clock = 0 /\ online = TRUE /\ active = TRUE /\ admin = "idle"
  /\ redis = [k \in Keys |-> Absent]
  /\ pairs = << >>
  /\ device = [d \in Devices |-> [access |-> 0, csrf |-> 0, cookie |-> 0]]
  /\ pc = [h \in Handlers |-> "idle"]
  /\ job = [h \in Handlers |-> NoJob]
  /\ requests = 0
  /\ overwritten = {} /\ loggedOut = {}
  /\ rotations = [n \in PairIds |-> 0]
  /\ unchecked = {}

history == <<requests, overwritten, loggedOut, rotations, unchecked>>
Unexpired(n) == clock < pairs[n].iat + AccessLife

\* A request arrives.  The history notes whether the deactivation, and the
\* logout of this token, were complete by then.
Arrive(h, kind, d, n, point, missed) ==
  /\ pc[h] = "idle" /\ requests < MaxRequests
  /\ requests' = requests + 1
  /\ pc' = [pc EXCEPT ![h] = point]
  /\ job' = [job EXCEPT ![h] = [kind |-> kind, device |-> d, pair |-> n, at |-> clock,
                                missed |-> missed, blind |-> ~online,
                                dead |-> ~active, out |-> n \in loggedOut]]
  /\ UNCHANGED <<clock, online, redis, active, admin, pairs, device, overwritten,
                 loggedOut, rotations>>

\* A handler that has answered works on nothing.
Goto(h, point) ==
  /\ pc' = [pc EXCEPT ![h] = point]
  /\ job' = IF point = "idle" THEN [job EXCEPT ![h] = NoJob] ELSE job

-----------------------------------------------------------------------------
(* Login and refresh *)

\* validateLogin reads the row, refuses a deactivated account and then spends
\* its time on the password hash (and the second factor).
ValidateLogin(h, d) ==
  /\ active
  /\ Len(pairs) < MaxPairs
  /\ Arrive(h, "login", d, 0, "login", {})
  /\ UNCHANGED unchecked

\* The browser saves the answer, unless the reply is lost on the way.
SaveSession(h, n) ==
  \/ device' = [device EXCEPT ![job[h].device] = [access |-> n, csrf |-> n, cookie |-> n]]
  \/ UNCHANGED device

\* generateTokens and csrfService.generateToken: the pair is signed now, and
\* the account's one CSRF token is replaced.
ExecuteLogin(h) ==
  LET n == Len(pairs) + 1 IN
  /\ pc[h] = "login" /\ Len(pairs) < MaxPairs
  /\ pairs' = Append(pairs, [iat |-> clock, fresh |-> TRUE,
                             late |-> admin = "commit" \/ ~active, stored |-> online])
  /\ set(csrfKey, n, Forever)
  /\ SaveSession(h, n)
  /\ Goto(h, "idle")
  /\ UNCHANGED <<clock, online, active, admin, history>>

\* Mutant: the blacklist is not looked at.
RotateWithoutCheck(h, d) ==
  /\ device[d].cookie # 0 /\ Len(pairs) < MaxPairs
  /\ Arrive(h, "refresh", d, device[d].cookie, "exchange", {})
  /\ UNCHANGED unchecked

\* rotateRefreshToken up to the blacklist lookup, which a used token does not
\* pass; the row of the account is not read, nor is its revocation cut-off.
RotateRefreshToken(h, d) ==
  LET n == device[d].cookie IN
  /\ n # 0 /\ Len(pairs) < MaxPairs
  /\ Value(refreshKey(n)) # 1
  /\ Arrive(h, "refresh", d, n, "exchange", {})
  /\ unchecked' = IF ~online \/ \E g \in Handlers : pc[g] = "exchange" /\ job[g].pair = n
                    THEN unchecked \cup {n} ELSE unchecked

\* The old token is blacklisted for its seven days and a pair is signed from
\* its claims: it carries no roles and no permissions.  The new CSRF token is
\* written with it.
Exchange(h) ==
  /\ pc[h] = "exchange" /\ Len(pairs) < MaxPairs
  /\ LET n == Len(pairs) + 1  old == job[h].pair IN
     /\ pairs' = Append(pairs, [iat |-> clock, fresh |-> FALSE, late |-> FALSE,
                                stored |-> online])
     /\ redis' = IF online
                 THEN [redis EXCEPT ![refreshKey(old)] = Entry(1, Forever),
                                    ![csrfKey] = Entry(n, Forever)]
                 ELSE redis
     /\ SaveSession(h, n)
     /\ rotations' = IF online THEN [rotations EXCEPT ![old] = @ + 1] ELSE rotations
  /\ Goto(h, "idle")
  /\ UNCHANGED <<requests, clock, online, active, admin, overwritten, loggedOut,
                 unchecked>>

-----------------------------------------------------------------------------
(* An authenticated request *)

\* The clients send the CSRF token of their local session; while there is one it
\* hides the newer token of the cookie.
resolveCsrfToken(d) == device[d].csrf

\* csrfService.validateToken: the token sent is the one stored; a missing key,
\* or the null a write-back left, validates nothing.
ValidateToken(csrf) == Present(csrfKey) /\ Value(csrfKey) = csrf

\* JwtStrategy.validate asks for the blacklist entry of the token.
IsTokenBlacklisted(n) == Value(accessKey(n)) = 1

\* getUserRevocationCutoff: a token signed before the cut-off is refused.
Revoked(n) == Value(revokedKey) > 0 /\ pairs[n].iat < Value(revokedKey)

\* The lookups of one request, each of a key of its own, are one step.  CsrfGuard
\* comes first, for writes only; JwtAuthGuard refuses an expired token.  Every
\* key that was missing is written back later.
Request(h, d, kind, write) ==
  LET n == device[d].access
      checked == ~write \/ ValidateToken(resolveCsrfToken(d))
      asked == (IF write THEN {csrfKey} ELSE {})
                 \cup (IF checked THEN {accessKey(n)} ELSE {})
                 \cup (IF checked /\ ~IsTokenBlacklisted(n) THEN {revokedKey} ELSE {})
  IN /\ n # 0 /\ Unexpired(n)
     /\ write => resolveCsrfToken(d) # 0
     /\ Arrive(h, kind, d, n,
               IF checked /\ ~IsTokenBlacklisted(n) /\ ~Revoked(n) THEN "admitted" ELSE "refused",
               IF online THEN {k \in asked : ~Present(k)} ELSE {})
     /\ UNCHANGED unchecked

\* CacheService.get writes the fallback value of each missed key, over whatever
\* the key holds by then.
WriteBack(h) ==
  /\ pc[h] \in {"admitted", "refused"}
  /\ redis' = IF online
              THEN [k \in Keys |-> IF k \in job[h].missed
                                   THEN Entry(0, IF k = revokedKey THEN RevocationTTL ELSE DefaultTTL)
                                   ELSE redis[k]]
              ELSE redis
  /\ overwritten' = overwritten \cup {k \in job[h].missed : Value(k) # 0}
  /\ Goto(h, IF pc[h] = "admitted" /\ job[h].kind = "logout" THEN "logout" ELSE "idle")
  /\ UNCHANGED <<requests, clock, online, active, admin, pairs, device, loggedOut, rotations,
                 unchecked>>

\* AuthController.logout: blacklist the access token for its lifetime, delete
\* the CSRF token, clear the cookies; the client drops its local session when
\* the answer arrives.
Logout(h) ==
  /\ pc[h] = "logout"
  /\ redis' = IF online
              THEN [redis EXCEPT ![accessKey(job[h].pair)] = Entry(1, AccessLife),
                                 ![csrfKey] = Absent]
              ELSE redis
  /\ loggedOut' = IF online THEN loggedOut \cup {job[h].pair} ELSE loggedOut
  /\ SaveSession(h, 0)
  /\ Goto(h, "idle")
  /\ UNCHANGED <<requests, clock, online, active, admin, pairs, overwritten, rotations,
                 unchecked>>

\* logoutStaff of the browsers sends no X-CSRF-Token, so CsrfGuard answers 403
\* before the handler: only the local session is dropped, the cookie stays.
LogoutStaff(d) ==
  /\ device[d].access # 0
  /\ device' = [device EXCEPT ![d].access = 0, ![d].csrf = 0]
  /\ UNCHANGED <<clock, online, redis, active, admin, pairs, pc, job, history>>

-----------------------------------------------------------------------------
(* Deactivation, and the world *)

\* Mutant: the marker is written best-effort, its failure goes unnoticed.
RevokeBestEffort ==
  /\ active /\ admin = "idle"
  /\ set(revokedKey, clock + 1, RevocationTTL)
  /\ admin' = "commit"
  /\ UNCHANGED <<clock, online, active, pairs, device, pc, job, history>>

\* revokeAllUserTokens runs inside the transaction of the deactivation; when
\* the marker cannot be written the transaction is rolled back.
RevokeAllUserTokens ==
  /\ active /\ admin = "idle" /\ online
  /\ set(revokedKey, clock + 1, RevocationTTL)
  /\ admin' = "commit"
  /\ UNCHANGED <<clock, online, active, pairs, device, pc, job, history>>

\* The transaction commits, or fails after the marker was written.
CommitDeactivation(ok) ==
  /\ admin = "commit"
  /\ active' = ~ok
  /\ admin' = "idle"
  /\ UNCHANGED <<clock, online, redis, pairs, device, pc, job, history>>

\* The client's events: error and reconnecting, then connect again.
RedisDown ==
  /\ online
  /\ online' = FALSE 
  /\ UNCHANGED <<requests, clock, redis, active, admin, pairs, device, pc, job, overwritten, loggedOut,
                 rotations, unchecked>>

RedisUp ==
  /\ ~online
  /\ online' = TRUE
  /\ UNCHANGED <<clock, redis, active, admin, pairs, device, pc, job, history>>

\* A second passes.  No handler is in progress longer than the margin between
\* the life of a revocation marker and that of an access token.
Tick ==
  /\ clock < MaxClock
  /\ \A h \in Handlers : pc[h] # "idle" => clock < job[h].at + (RevocationTTL - AccessLife)
  /\ clock' = clock + 1
  /\ redis' = [k \in Keys |-> IF redis[k].exp <= clock + 1 THEN Absent ELSE redis[k]]
  /\ UNCHANGED <<online, active, admin, pairs, device, pc, job, history>>

Next ==
  \/ \E h \in Handlers, d \in Devices :
       \/ ValidateLogin(h, d)
       \/ RotateRefreshToken(h, d)
       \/ \E write \in BOOLEAN : Request(h, d, "api", write)
       \/ Request(h, d, "logout", TRUE)
  \/ \E h \in Handlers :
       \/ ExecuteLogin(h)
       \/ Exchange(h)
       \/ WriteBack(h)
       \/ Logout(h)
  \/ \E d \in Devices : LogoutStaff(d)
  \/ RevokeAllUserTokens
  \/ \E ok \in BOOLEAN : CommitDeactivation(ok)
  \/ RedisDown \/ RedisUp
  \/ Tick

Spec == Init /\ [][Next]_vars

-----------------------------------------------------------------------------
(* Properties *)

Serving(h) == pc[h] \in {"admitted", "logout"}

\* The token of a rotated pair carries no permissions.
RotatedOpensNothing ==
  \A route \in StaffRoutes, record \in Records : canActivate({}, route, record) # "allowed"

\* revokeAllUserTokens, JwtStrategy and RbacPermissionGuard: a request that
\* arrives after the deactivation opens no guarded route, whatever tokens the
\* user still holds or obtains by refreshing and however often Redis was away
\* in between: unless Redis is away at the request itself, a late write-back has
\* replaced the marker, or the login itself outlived the cut-off.
DeactivatedCannotAct ==
  \A h \in Handlers :
    Serving(h) /\ job[h].dead /\ ~job[h].blind
    => \/ revokedKey \in overwritten
       \/ pairs[job[h].pair].late
       \/ ~pairs[job[h].pair].fresh /\ RotatedOpensNothing

\* logout and isTokenBlacklisted: a token that was blacklisted before the
\* request arrived is refused until it expires, unless Redis is away at the
\* request or the write-back of an older lookup replaced the entry.
LoggedOutStaysOut ==
  \A h \in Handlers :
    Serving(h) /\ job[h].out /\ ~job[h].blind /\ Unexpired(job[h].pair)
    => accessKey(job[h].pair) \in overwritten

\* rotateRefreshToken: a refresh token is exchanged once, replies lost and
\* retried included, unless two handlers checked it at the same time or Redis
\* was away at one of the checks.
RotatedOnce ==
  \A n \in PairIds : rotations[n] > 1 => n \in unchecked

\* csrfService and saveSession: the browser that signed in or refreshed last
\* can write whenever Redis is there, unless a logout removed the account's one
\* CSRF token, a late write-back nulled it, or Redis did not take it.
LatestBrowserCanWrite ==
  \A d \in Devices :
    online /\ device[d].csrf # 0 /\ device[d].csrf = Len(pairs) /\ pairs[device[d].csrf].stored
    => Value(csrfKey) = device[d].csrf \/ loggedOut # {} \/ csrfKey \in overwritten

\* What the Redis keys of a session are for: a blacklisted token is refused, a refresh
\* token is exchanged once, and the browser with the newest CSRF token can write,
\* with the exceptions that a lost or overwritten key makes.
SessionsInv ==
  /\ TypeOK
  /\ LoggedOutStaysOut
  /\ RotatedOnce
  /\ LatestBrowserCanWrite

OwnerOpensAll ==
  \A route \in StaffRoutes : canActivate(rolePermissions("RESTAURANT_OWNER"), route, "own") = "allowed"
OfficeIsClosed ==
  \A route \in OfficeRoutes, role \in Roles :
    canActivate(rolePermissions(role), route, "own") = "forbidden"
ForeignRecordsStayHidden ==
  \A route \in StaffRoutes, role \in Roles :
    route.byId /\ route.perm[2] # "Tenant"
    => canActivate(rolePermissions(role), route, "foreign") = "notFound"

\* seed.ts and RbacPermissionGuard: with the token of a login, an owner opens
\* every guarded staff route on records of the tenant, no role reaches a record
\* of another tenant (tenants themselves are checked by the service), and none
\* opens the executive office, which the platform owner's bypass is for.
OwnerOpensStaffRoutes ==
  \A h \in Handlers :
    Serving(h) /\ pairs[job[h].pair].fresh => 
      OwnerOpensAll /\ ForeignRecordsStayHidden /\ OfficeIsClosed
=============================================================================
