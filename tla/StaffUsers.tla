----------------------------- MODULE StaffUsers -----------------------------
(***************************************************************************)
(* Staff management of one tenant (apps/api/src/user/user.service.ts):     *)
(* createUser, updateUser and deleteUser run concurrently, as far as they  *)
(* decide who owns the restaurant.  A request reads the user before its    *)
(* transaction; the last-owner guard takes a per-tenant advisory lock      *)
(* inside it; the revocation of the user's tokens may fail and roll the    *)
(* transaction back.                                                       *)
(***************************************************************************)

CONSTANTS
  Users,      \* the accounts of the tenant
  Accounts,   \* the accounts that exist at first, owners among them
  Requests,   \* HTTP requests, each submitted at most once
  Operations, \* the operations in use
  None

AllOperations == {"create", "grant", "activate", "demote", "deactivate", "delete"}
Removals == {"demote", "deactivate", "delete"}

ASSUME AccountsAssumption == Accounts \subseteq Users /\ Accounts # {}
ASSUME OperationsAssumption == Operations \subseteq AllOperations
ASSUME NoneAssumption == None \notin Requests

VARIABLES
  known,      \* users with a row, soft-deleted ones included
  deleted,    \* users with deletedAt
  activeUsers, \* users with isActive
  owner,      \* users holding RESTAURANT_OWNER
  lock,       \* the transaction holding the tenant's advisory lock, or None
  stage,      \* request -> where it is
  op,         \* request -> its operation
  user,       \* request -> the user it is about, or None
  sawOwner,   \* request -> whether currentState.roles holds RESTAURANT_OWNER
  overtaken   \* history: requests under way when their user was given ownership

staffVars == <<known, deleted, activeUsers, owner, lock, stage, op, user, sawOwner, overtaken>>
rows == <<known, deleted, activeUsers, owner>>

StaffTypeOK ==
  /\ known \subseteq Users /\ deleted \subseteq Users
  /\ activeUsers \subseteq Users /\ owner \subseteq Users
  /\ lock \in Requests \cup {None}
  /\ stage \in [Requests -> {"new", "guard", "write", "done", "failed"}]
  /\ op \in [Requests -> Operations \cup {"none"}]
  /\ user \in [Requests -> Users \cup {None}]
  /\ sawOwner \in [Requests -> BOOLEAN]
  /\ overtaken \subseteq Requests

StaffInit ==
  /\ known = Accounts /\ deleted = {} /\ activeUsers = Accounts
  /\ owner \in (SUBSET Accounts) \ {{}}
  /\ lock = None
  /\ stage = [r \in Requests |-> "new"]
  /\ op = [r \in Requests |-> "none"]
  /\ user = [r \in Requests |-> None]
  /\ sawOwner = [r \in Requests |-> FALSE]
  /\ overtaken = {}

ActiveOwners == (activeUsers \cap owner) \ deleted
InProgress(r) == stage[r] \in {"guard", "write"}

StaffGoto(r, point) == stage' = [stage EXCEPT ![r] = point]
Release(r) == lock' = IF lock = r THEN None ELSE lock

-----------------------------------------------------------------------------
\* createUser: an account with its roles in one transaction.
CreateUser(r, u, isActive, asOwner) ==
  /\ stage[r] = "new" /\ "create" \in Operations
  /\ u \notin known
  /\ known' = known \cup {u}
  /\ activeUsers' = IF isActive THEN activeUsers \cup {u} ELSE activeUsers
  /\ owner' = IF asOwner THEN owner \cup {u} ELSE owner
  /\ StaffGoto(r, "done")
  /\ UNCHANGED <<deleted, lock, op, user, sawOwner, overtaken>>

\* updateUser and deleteUser up to the transaction: findOne reads the user
\* and its roles; a deleted user is not found.
FindUser(r, k, u) ==
  /\ stage[r] = "new" /\ k # "create"
  /\ StaffGoto(r, IF u \in known \ deleted THEN "guard" ELSE "failed")
  /\ op' = [op EXCEPT ![r] = k]
  /\ user' = [user EXCEPT ![r] = u]
  /\ sawOwner' = [sawOwner EXCEPT ![r] = u \in owner]
  /\ UNCHANGED <<rows, lock, overtaken>>

\* Mutant: owners are counted without taking the lock.
CountOwnersUnlocked(r) ==
  /\ stage[r] = "guard" /\ op[r] \in Removals /\ sawOwner[r]
  /\ StaffGoto(r, IF ActiveOwners \ {user[r]} = {} THEN "failed" ELSE "write")
  /\ UNCHANGED <<rows, lock, op, user, sawOwner, overtaken>>

\* assertNotLastOwner when the user was read as an owner: wait for the lock,
\* count the other active owners, give up when there is none.
AssertNotLastOwner(r) ==
  /\ stage[r] = "guard" /\ op[r] \in Removals /\ sawOwner[r]
  /\ lock = None
  /\ IF ActiveOwners \ {user[r]} = {}
     THEN StaffGoto(r, "failed") /\ UNCHANGED lock
     ELSE StaffGoto(r, "write") /\ lock' = r
  /\ UNCHANGED <<rows, op, user, sawOwner, overtaken>>

\* assertNotLastOwner returns early, without lock, for a user that was not
\* read as an owner; grants and activations do not call it.
SkipGuard(r) ==
  /\ stage[r] = "guard"
  /\ ~(op[r] \in Removals /\ sawOwner[r])
  /\ StaffGoto(r, "write")
  /\ UNCHANGED <<rows, lock, op, user, sawOwner, overtaken>>

\* The roles after the replacement: removals and additions are computed from
\* the roles read before the transaction.
ReplacedOwners(r) ==
  CASE op[r] = "demote" /\ sawOwner[r] -> owner \ {user[r]}
    [] op[r] = "grant" /\ ~sawOwner[r] -> owner \cup {user[r]}
    [] OTHER -> owner

\* The writes and the commit, which also releases the lock.
CommitChange(r) ==
  LET u == user[r]
  IN /\ stage[r] = "write"
     /\ ~(op[r] = "grant" /\ ~sawOwner[r] /\ u \in owner)
     /\ deleted' = IF op[r] = "delete" THEN deleted \cup {u} ELSE deleted
     /\ activeUsers' = CASE op[r] \in {"deactivate", "delete"} -> activeUsers \ {u}
                          [] op[r] = "activate" -> activeUsers \cup {u}
                          [] OTHER -> activeUsers
     /\ owner' = ReplacedOwners(r)
     /\ overtaken' = IF u \in owner' \ owner
                     THEN overtaken \cup {q \in Requests \ {r} : InProgress(q) /\ user[q] = u}
                     ELSE overtaken
     /\ Release(r)
     /\ StaffGoto(r, "done")
     /\ UNCHANGED <<known, op, user, sawOwner>>

\* Mutant: a rolled back transaction keeps the lock.
RollBackKeepingLock(r) ==
  /\ stage[r] = "write"
  /\ StaffGoto(r, "failed")
  /\ UNCHANGED <<rows, lock, op, user, sawOwner, overtaken>>

\* The session store is down, a statement fails (a role link that another
\* request has created), the time budget runs out or the API crashes.
RollBack(r) ==
  /\ stage[r] = "write"
  /\ Release(r)
  /\ StaffGoto(r, "failed")
  /\ UNCHANGED <<rows, op, user, sawOwner, overtaken>>

Step(r) == AssertNotLastOwner(r) \/ SkipGuard(r) \/ CommitChange(r) \/ RollBack(r)

StaffNext ==
  \E r \in Requests :
    \/ \E u \in Users :
         \/ \E isActive, asOwner \in BOOLEAN : CreateUser(r, u, isActive, asOwner)
         \/ \E k \in Operations : FindUser(r, k, u)
    \/ Step(r)

StaffSpec == StaffInit /\ [][StaffNext]_staffVars

\* A settled await resumes its request; PostgreSQL grants a free lock.
StaffFairSpec == StaffSpec /\ \A r \in Requests : WF_staffVars(Step(r))

-----------------------------------------------------------------------------
\* assertNotLastOwner "prevents removing the last active RESTAURANT_OWNER of a
\* tenant by deletion, deactivation, or role replacement", with one exception:
\* the guard judges by the roles that findOne read, so a user who was given
\* ownership while being deleted or deactivated is removed unguarded.
SomeOwnerRemains ==
  ActiveOwners = {} =>
    \E r \in overtaken : stage[r] = "done" /\ ~sawOwner[r] /\ op[r] \in {"deactivate", "delete"}

\* Staff management: the rows and locals are well formed, and whatever overlaps
\* (createUser, updateUser, assignRoles, deleteUser) the tenant keeps an active
\* owner, unless a removal was overtaken by a grant to the same user.
StaffInv == StaffTypeOK /\ SomeOwnerRemains

\* No request waits for the advisory lock forever, whoever failed holding it.
StaffRequestsFinish ==
  \A r \in Requests : InProgress(r) ~> (stage[r] \in {"done", "failed"})
=============================================================================
