--------------------------- MODULE KitchenTickets ---------------------------
(***************************************************************************)
(* One kitchen ticket (apps/api/src/kds/kds.service.ts): its order items   *)
(* move through the cooking statuses by updateCookingStatus requests,      *)
(* which also stamp the kitchen_queues row, while screens poll getTickets, *)
(* which escalates a late ticket to RUSH.  Requests and polls interleave   *)
(* at every await.                                                         *)
(***************************************************************************)
EXTENDS Naturals

CONSTANTS
  Items,      \* the order items of the ticket
  Updates,    \* updateCookingStatus requests, each submitted at most once
  Polls,      \* getTickets requests, each submitted at most once
  PrepTime,   \* maxPrepTime of the items, in clock ticks
  MaxTime,    \* bound on the clock
  Unset       \* no value yet

ASSUME TimeAssumption == PrepTime \in Nat /\ MaxTime \in Nat
ASSUME TicketAssumption == Unset \notin Nat

VARIABLES
  clock,      \* ticks since the order was created
  cooking,    \* item -> cookingStatus
  cooked,     \* the <<item, status>> pairs the database has seen
  started,    \* startedCookingAt, or Unset
  completed,  \* completedCookingAt, or Unset
  priority,   \* kitchen_queues.priority
  events,     \* what was broadcast: <<"item", request>> and <<"rush", poll>>
  stage,      \* request or poll -> where it is
  item,       \* request -> the item it changes
  next,       \* request -> the status it writes
  stamp,      \* request -> the times it is about to write to the queue row
  overlapped  \* an item update has started beside another (history)

ticketVars ==
  <<clock, cooking, cooked, started, completed, priority, events, stage, item, next, stamp,
    overlapped>>
ticket == <<started, completed, priority>>

CookingStatus == {"PENDING", "PREPARING", "COOKED", "SERVED"}
Times == 0..MaxTime
Busy == {"write", "queue", "stamp", "emit"}
NoStamp == [started |-> Unset, completed |-> Unset]

TicketTypeOK ==
  /\ clock \in Times
  /\ cooking \in [Items -> CookingStatus]
  /\ cooked \subseteq Items \X CookingStatus
  /\ started \in Times \cup {Unset} /\ completed \in Times \cup {Unset}
  /\ priority \in {"NORMAL", "RUSH"}
  /\ events \subseteq ({"item"} \X Updates) \cup ({"rush"} \X Polls)
  /\ stage \in [Updates \cup Polls -> Busy \cup {"new", "escalate", "rejected", "done"}]
  /\ item \in [Updates -> Items \cup {Unset}]
  /\ next \in [Updates -> CookingStatus \cup {Unset}]
  /\ stamp \in [Updates -> [started : Times \cup {Unset}, completed : Times \cup {Unset}]]
  /\ overlapped \in BOOLEAN

TicketInit ==
  /\ clock = 0
  /\ cooking = [i \in Items |-> "PENDING"] /\ cooked = {}
  /\ started = Unset /\ completed = Unset /\ priority = "NORMAL"
  /\ events = {}
  /\ stage = [x \in Updates \cup Polls |-> "new"]
  /\ item = [r \in Updates |-> Unset]
  /\ next = [r \in Updates |-> Unset]
  /\ stamp = [r \in Updates |-> NoStamp]
  /\ overlapped = FALSE

Goto(x, point) == stage' = [stage EXCEPT ![x] = point]

Tick ==
  /\ clock < MaxTime
  /\ clock' = clock + 1
  /\ UNCHANGED <<cooking, cooked, ticket, events, stage, item, next, stamp, overlapped>>

-----------------------------------------------------------------------------
(* updateCookingStatus *)

\* Mutant: a served item may be taken back.
cookingRoutesLoose(s) ==
  IF s = "SERVED" THEN {"PREPARING"} ELSE {"PREPARING", "COOKED", "SERVED"}

\* The routes of validateCookingTransition; staying put is always allowed.
cookingRoutes(s) ==
  CASE s = "PENDING"   -> {"PREPARING", "COOKED", "SERVED"}
    [] s = "PREPARING" -> {"COOKED", "SERVED"}
    [] s = "COOKED"    -> {"SERVED"}
    [] s = "SERVED"    -> {}

validateCookingTransition(current, s) == current = s \/ s \in cookingRoutes(current)

\* The item is read and the transition validated.
UpdateCookingStatus(r, i, s) ==
  /\ stage[r] = "new"
  /\ overlapped' = (overlapped \/ \E q \in Updates : stage[q] \in Busy)
  /\ Goto(r, IF validateCookingTransition(cooking[i], s) THEN "write" ELSE "rejected")
  /\ item' = [item EXCEPT ![r] = i]
  /\ next' = [next EXCEPT ![r] = s]
  /\ UNCHANGED <<clock, cooking, cooked, ticket, events, stamp>>

\* orderItemRepository.update by id, whatever the item's status is by now.
WriteCookingStatus(r) ==
  /\ stage[r] = "write"
  /\ cooking' = [cooking EXCEPT ![item[r]] = next[r]]
  /\ cooked' = cooked \cup {<<item[r], next[r]>>}
  /\ Goto(r, "queue")
  /\ UNCHANGED <<clock, ticket, events, item, next, stamp, overlapped>>

\* Mutant: the start is set by every item that is being prepared.
stampEachStart(r) ==
  [started   |-> IF next[r] = "PREPARING" THEN clock ELSE Unset,
   completed |-> IF next[r] \in {"COOKED", "SERVED"} THEN clock ELSE Unset]

\* updateKitchenQueueTimestamps, from the row it read: the start is set once,
\* the end whenever an item is cooked or served.
updateData(r) ==
  [started   |-> IF next[r] = "PREPARING" /\ started = Unset THEN clock ELSE Unset,
   completed |-> IF next[r] \in {"COOKED", "SERVED"} THEN clock ELSE Unset]

\* The queue row is read and the times to write are taken from the clock; a
\* failing read is logged and skipped.
ReadQueue(r) ==
  /\ stage[r] = "queue"
  /\ \/ /\ stamp' = [stamp EXCEPT ![r] = updateData(r)]
        /\ Goto(r, IF updateData(r) = NoStamp THEN "emit" ELSE "stamp")
     \/ Goto(r, "emit") /\ UNCHANGED stamp
  /\ UNCHANGED <<clock, cooking, cooked, ticket, events, item, next, overlapped>>

\* The times are written to the row, or the failure logged.
WriteTimes(r) ==
  /\ stage[r] = "stamp"
  /\ \/ /\ started' = IF stamp[r].started # Unset THEN stamp[r].started ELSE started
        /\ completed' = IF stamp[r].completed # Unset THEN stamp[r].completed ELSE completed
     \/ UNCHANGED <<started, completed>>
  /\ Goto(r, "emit")
  /\ UNCHANGED <<clock, cooking, cooked, priority, events, item, next, stamp, overlapped>>

BroadcastItem(r) ==
  /\ stage[r] = "emit"
  /\ events' = events \cup {<<"item", r>>}
  /\ Goto(r, "done")
  /\ UNCHANGED <<clock, cooking, cooked, ticket, item, next, stamp, overlapped>>

-----------------------------------------------------------------------------
(* getTickets *)

computedPriority(elapsed) == IF elapsed > PrepTime THEN "RUSH" ELSE "NORMAL"

\* The row is read; a late ticket that is not RUSH yet is escalated.
GetTickets(p) ==
  /\ stage[p] = "new"
  /\ Goto(p, IF computedPriority(clock) = "RUSH" /\ priority # "RUSH" THEN "escalate" ELSE "done")
  /\ UNCHANGED <<clock, cooking, cooked, ticket, events, item, next, stamp, overlapped>>

\* The priority is stored and then announced; when the write fails neither.
EscalatePriority(p) ==
  /\ stage[p] = "escalate"
  /\ \/ priority' = "RUSH" /\ events' = events \cup {<<"rush", p>>}
     \/ UNCHANGED <<priority, events>>
  /\ Goto(p, "done")
  /\ UNCHANGED <<clock, cooking, cooked, started, completed, item, next, stamp, overlapped>>

TicketNext ==
  \/ Tick
  \/ \E r \in Updates :
       \/ \E i \in Items, s \in CookingStatus : UpdateCookingStatus(r, i, s)
       \/ WriteCookingStatus(r) \/ ReadQueue(r) \/ WriteTimes(r) \/ BroadcastItem(r)
  \/ \E p \in Polls : GetTickets(p) \/ EscalatePriority(p)

TicketSpec == TicketInit /\ [][TicketNext]_ticketVars

-----------------------------------------------------------------------------
\* updateKitchenQueueTimestamps: the row says cooking started, or ended, only
\* after an item was being prepared, or was cooked or served, and never in
\* the future, although the times are computed before they are written.
TimesAreJustified ==
  /\ started # Unset => started <= clock /\ \E i \in Items : <<i, "PREPARING">> \in cooked
  /\ completed # Unset => /\ completed <= clock
                         /\ \E i \in Items : {<<i, "COOKED">>, <<i, "SERVED">>} \cap cooked # {}

\* getTickets: only a ticket past its preparation time is RUSH, and a screen
\* is told so only when the row says so, whoever polls meanwhile.
RushIsLate ==
  /\ priority = "RUSH" => clock > PrepTime
  /\ \A p \in Polls : <<"rush", p>> \in events => priority = "RUSH"

\* updateKitchenQueueTimestamps: until updates overlap, the start of cooking
\* is recorded once and the end only moves forward, whoever polls meanwhile.
TimesAreStable ==
  [][~overlapped' => /\ started # Unset => started' = started
                     /\ completed # Unset => completed' >= completed]_ticketVars

\* validateCookingTransition, "SERVED: [], // terminal": a served item is
\* taken back only if updates overlapped.
ServedIsFinal ==
  ~overlapped => \A i \in Items : <<i, "SERVED">> \in cooked => cooking[i] = "SERVED"

\* What updateCookingStatus and getTickets keep of a ticket: its times and its
\* priority have a cause, and until updates overlap what was served stays served.
TicketInv ==
  /\ TicketTypeOK
  /\ TimesAreJustified
  /\ RushIsLate
  /\ ServedIsFinal
=============================================================================
