----------------------------- MODULE PushTokens -----------------------------
(***************************************************************************)
(* Device registrations: registerToken looks the token up and then writes, *)
(* deleteToken removes a row, and a push reads the rows of its user, sends *)
(* and then prunes the rows FCM no longer knows.  The token column is      *)
(* unique; a row keeps its id.                                             *)
(***************************************************************************)
EXTENDS Naturals

CONSTANTS
  Tokens,      \* FCM registration tokens
  Users,       \* users of the tenant
  Requests,    \* requests in progress at once: registrations and pushes
  MaxRows      \* bound: rows ever created

VARIABLES
  rows,        \* token -> its row: [id, user], id 0 when there is none
  lastRow,     \* the last id given
  live,        \* the tokens FCM still knows
  request,     \* what each request has read
  confirmed    \* history: registrations answered with success and not deleted since

pushVars == <<rows, lastRow, live, request, confirmed>>

NoUser == "nobody"
ASSUME PushAssumption == MaxRows \in Nat /\ NoUser \notin Users

NoRow == [id |-> 0, user |-> NoUser]
Rows == [id : 0..MaxRows, user : Users \cup {NoUser}]
\* What a request has read: rows of some tokens.
Reads == UNION {[S -> Rows] : S \in SUBSET Tokens}
Request == [kind : {"idle", "register", "push", "prune"}, user : Users \cup {NoUser}, read : Reads]
IdleRequest == [kind |-> "idle", user |-> NoUser, read |-> [t \in {} |-> NoRow]]

PushTypeOK ==
  /\ rows \in [Tokens -> Rows]
  /\ lastRow \in 0..MaxRows
  /\ live \in SUBSET Tokens
  /\ request \in [Requests -> Request]
  /\ confirmed \in [Tokens -> Users \cup {NoUser}]

PushInit ==
  /\ rows = [t \in Tokens |-> NoRow]
  /\ lastRow = 0
  /\ live = Tokens
  /\ request = [r \in Requests |-> IdleRequest]
  /\ confirmed = [t \in Tokens |-> NoUser]

\* registerToken up to the lookup.
FindToken(r, u, t) ==
  /\ request[r] = IdleRequest
  /\ rows[t].user # NoUser => rows[t].user = u    \* else ConflictException
  /\ request' = [request EXCEPT ![r] = [kind |-> "register", user |-> u,
                                        read |-> [x \in {t} |-> rows[t]]]]
  /\ UNCHANGED <<rows, lastRow, live, confirmed>>

\* registerToken from the lookup on: no row was found and one is created,
\* unless the unique token has one by now; or the row found is updated, unless
\* it is gone.
UpsertToken(r) ==
  /\ request[r].kind = "register"
  /\ \E t \in DOMAIN request[r].read :
       LET found == request[r].read[t] IN
       IF found.id = 0 /\ rows[t].id = 0 /\ lastRow < MaxRows
       THEN /\ lastRow' = lastRow + 1
            /\ rows' = [rows EXCEPT ![t] = [id |-> lastRow + 1, user |-> request[r].user]]
            /\ confirmed' = [confirmed EXCEPT ![t] = request[r].user]
       ELSE IF found.id # 0 /\ rows[t].id = found.id
       THEN /\ confirmed' = [confirmed EXCEPT ![t] = request[r].user]
            /\ UNCHANGED <<rows, lastRow>>
       ELSE UNCHANGED <<rows, lastRow, confirmed>>
  /\ request' = [request EXCEPT ![r] = IdleRequest]
  /\ UNCHANGED live

deleteToken(t) ==
  /\ rows[t].id # 0
  /\ rows' = [rows EXCEPT ![t] = NoRow]
  /\ confirmed' = [confirmed EXCEPT ![t] = NoUser]
  /\ UNCHANGED <<lastRow, live, request>>

\* sendPushNotification: listTokens of the user; nothing to do without any.
ListTokens(r, u) ==
  LET mine == {t \in Tokens : rows[t].user = u} IN
  /\ request[r] = IdleRequest /\ mine # {}
  /\ request' = [request EXCEPT ![r] = [kind |-> "push", user |-> u,
                                        read |-> [t \in mine |-> rows[t]]]]
  /\ UNCHANGED <<rows, lastRow, live, confirmed>>

\* Mutant: whatever failed is taken for not registered.
SendPushPruningFailures(r) ==
  /\ request[r].kind = "push"
  /\ \E failed \in SUBSET DOMAIN request[r].read :
       request' = [request EXCEPT ![r].kind = "prune",
                                  ![r].read = [t \in failed |-> request[r].read[t]]]
  /\ UNCHANGED <<rows, lastRow, live, confirmed>>

\* fcmService.sendPush: the responses name the tokens that are not registered.
SendPush(r) ==
  LET unregistered == DOMAIN request[r].read \ live IN
  /\ request[r].kind = "push"
  /\ request' = [request EXCEPT ![r].kind = "prune",
                                ![r].read = [t \in unregistered |-> request[r].read[t]]]
  /\ UNCHANGED <<rows, lastRow, live, confirmed>>

\* The rows that were read for those tokens are deleted by id.
PruneTokens(r) ==
  LET pruned == {t \in DOMAIN request[r].read : rows[t].id = request[r].read[t].id} IN
  /\ request[r].kind = "prune"
  /\ rows' = [t \in Tokens |-> IF t \in pruned THEN NoRow ELSE rows[t]]
  /\ request' = [request EXCEPT ![r] = IdleRequest]
  /\ UNCHANGED <<lastRow, live, confirmed>>

\* The app is removed from the device: FCM forgets its token for good.
Uninstall(t) ==
  /\ t \in live
  /\ live' = live \ {t}
  /\ UNCHANGED <<rows, lastRow, request, confirmed>>

PushNext ==
  \/ \E r \in Requests, u \in Users :
       \/ \E t \in Tokens : FindToken(r, u, t)
       \/ ListTokens(r, u)
  \/ \E r \in Requests : UpsertToken(r) \/ SendPush(r) \/ PruneTokens(r)
  \/ \E t \in Tokens : deleteToken(t) \/ Uninstall(t)

PushSpec == PushInit /\ [][PushNext]_pushVars

\* registerToken and the pruning of sendPushNotification: a registration that
\* was confirmed and not deleted is stored for the user it was confirmed to, as
\* long as FCM knows the device, whatever registrations, deletions and pushes
\* overlap.
ConfirmedIsStored ==
  \A t \in live : confirmed[t] # NoUser => rows[t].user = confirmed[t]

\* The device rows of registerToken and sendPushNotification: a confirmed registration is
\* stored for its user as long as FCM knows the device.
PushInv ==
  /\ PushTypeOK
  /\ ConfirmedIsStored
=============================================================================
