------------------------------ MODULE KdsScreen ------------------------------
(***************************************************************************)
(* The kitchen displays: the Socket.IO gateway (kds.gateway.ts) and the    *)
(* board of KDSTerminal.tsx.  A socket is authenticated by handleConnection*)
(* while its joinBranch message is already on the way; a broadcast reaches *)
(* the sockets that are in the room when the pod they hang on gets it from *)
(* the Redis adapter.                                                      *)
(*                                                                         *)
(* Every broadcast wraps its payload in `data`.  The handler of            *)
(* ticket.created spreads the wrapper, so the ticket it adds has no items  *)
(* and the next render of the board throws; ticket.item_updated reads the  *)
(* wrapper too and matches nothing, and ticket.priority_changed carries    *)
(* the id of the kitchen queue row, which no ticket of the board has.      *)
(* An order has one item.                                                  *)
(***************************************************************************)
EXTENDS ClientRequests, Naturals, Sequences, FiniteSets

CONSTANTS
  Screens, Branches, Orders,
  TenantOf,       \* branch -> tenant
  TokenTenant,    \* screen -> the tenant in its access token
  ScreenBranch,   \* screen -> the branch of its address bar
  OrderBranch,    \* order -> branch
  MaxWire,        \* bound on the events on their way to the pod
  MaxUnsaid       \* bound on the updates and broadcasts that are held back at a time

VARIABLES
  socket,      \* per screen: "off", "verifying", "ready", or "refused" by the server
  joining,     \* per screen: joinBranch is nowhere, "sent" or "checking" its branch
  rooms,       \* per screen: the rooms its socket is in
  revoked,     \* the screens whose token is on the blacklist
  board,       \* per screen: its tickets
  crashed,     \* the screens whose last render threw
  cooking,     \* per order: None, or the item's status in the database
  furthest,    \* per order: None, or the latest status the database has had
  validated,   \* updates between their validation and their write
  unsaid,      \* broadcasts whose handler is between its write and its emit
  wire,        \* events on their way to the pod
  clicked,     \* per screen: the tickets clicked on it
  received     \* <<screen, room>>: what has been delivered to whom

kdsVars == <<socket, joining, rooms, revoked, board, crashed, cooking, furthest, validated,
             unsaid, wire, clicked, received>>

CookingOrder == <<"PENDING", "PREPARING", "COOKED", "SERVED">>
rank(status) == CHOOSE n \in 1..4 : CookingOrder[n] = status
Statuses == {CookingOrder[n] : n \in 1..4}

getRoomName(tenant, branch) == <<tenant, branch>>
Rooms == {getRoomName(TenantOf[b], c) : b \in Branches, c \in Branches}
event(name, o, status) ==
  [name |-> name, order |-> o, status |-> status,
   room |-> getRoomName(TenantOf[OrderBranch[o]], OrderBranch[o])]
Names == {"ticket.created", "order.created", "order.item_updated"}
Event == [name : Names, order : Orders, status : Statuses, room : Rooms]
\* A board lists, for every order, the statuses its tickets show.
Boards == [Orders -> Seq(Statuses)]

ASSUME KdsAssumption ==
  /\ ScreenBranch \in [Screens -> Branches] /\ OrderBranch \in [Orders -> Branches]
  /\ MaxWire \in Nat
  /\ None \notin Statuses /\ None \notin Boards

KdsTypeOK ==
  /\ socket \in [Screens -> {"off", "verifying", "ready", "refused"}]
  /\ joining \in [Screens -> {None, "sent", "checking"}]
  /\ rooms \in [Screens -> SUBSET Rooms]
  /\ revoked \subseteq Screens /\ crashed \subseteq Screens
  /\ board \in [Screens -> Boards]
  /\ cooking \in [Orders -> Statuses \cup {None}]
  /\ furthest \in [Orders -> Statuses \cup {None}]
  /\ validated \subseteq [order : Orders, next : Statuses]
  /\ unsaid \subseteq Event
  /\ wire \in Seq(Event) /\ Len(wire) <= MaxWire
  /\ clicked \in [Screens -> SUBSET Orders]
  /\ received \subseteq Screens \X Rooms

EmptyBoard == [o \in Orders |-> <<>>]

KdsInit ==
  /\ socket = [s \in Screens |-> "off"]
  /\ joining = [s \in Screens |-> None]
  /\ rooms = [s \in Screens |-> {}]
  /\ revoked = {} /\ crashed = {}
  /\ board = [s \in Screens |-> EmptyBoard]
  /\ cooking = [o \in Orders |-> None] /\ furthest = [o \in Orders |-> None]
  /\ validated = {} /\ unsaid = {} /\ wire = <<>>
  /\ clicked = [s \in Screens |-> {}]
  /\ received = {}
-----------------------------------------------------------------------------
(* Connections. *)

kitchen == <<cooking, furthest, validated, unsaid, wire>>

\* The client connects, or connects again after a broken transport, and sends
\* joinBranch as soon as it is connected.
Connect(s) ==
  /\ socket[s] = "off" /\ s \notin crashed
  /\ socket' = [socket EXCEPT ![s] = "verifying"]
  /\ joining' = [joining EXCEPT ![s] = "sent"]
  /\ UNCHANGED <<rooms, revoked, board, crashed, clicked, received, kitchen>>

\* disconnect(true): the client does not try again by itself.
disconnect(s) ==
  /\ socket' = [socket EXCEPT ![s] = "refused"]
  /\ joining' = [joining EXCEPT ![s] = None]
  /\ rooms' = [rooms EXCEPT ![s] = {}]

\* The signature is checked, then the blacklist is read; only then is the user
\* attached to the socket.
HandleConnection(s) ==
  /\ socket[s] = "verifying"
  /\ IF s \in revoked THEN disconnect(s)
     ELSE socket' = [socket EXCEPT ![s] = "ready"] /\ UNCHANGED <<joining, rooms>>
  /\ UNCHANGED <<revoked, board, crashed, clicked, received, kitchen>>

HandleJoinBranch(s) ==
  /\ joining[s] = "sent"
  /\ IF socket[s] = "verifying" THEN disconnect(s)
     ELSE joining' = [joining EXCEPT ![s] = "checking"] /\ UNCHANGED <<socket, rooms>>
  /\ UNCHANGED <<revoked, board, crashed, clicked, received, kitchen>>

\* Mutant: the branch is looked up in any tenant and names the room.
JoinAnyBranch(s) ==
  /\ joining[s] = "checking"
  /\ joining' = [joining EXCEPT ![s] = None]
  /\ rooms' = [rooms EXCEPT ![s] = @ \cup {getRoomName(TenantOf[ScreenBranch[s]], ScreenBranch[s])}]
  /\ UNCHANGED <<socket, revoked, board, crashed, clicked, received, kitchen>>

\* findById runs in the tenant of the token, as does the name of the room.
JoinBranch(s) ==
  /\ joining[s] = "checking"
  /\ joining' = [joining EXCEPT ![s] = None]
  /\ rooms' = IF TenantOf[ScreenBranch[s]] = TokenTenant[s]
              THEN [rooms EXCEPT ![s] = @ \cup {getRoomName(TokenTenant[s], ScreenBranch[s])}]
              ELSE rooms
  /\ UNCHANGED <<socket, revoked, board, crashed, clicked, received, kitchen>>

HandleLeaveBranch(s) ==
  /\ socket[s] = "ready"
  /\ rooms' = [rooms EXCEPT ![s] = @ \ {getRoomName(TokenTenant[s], ScreenBranch[s])}]
  /\ UNCHANGED <<socket, joining, revoked, board, crashed, clicked, received, kitchen>>

TransportLost(s) ==
  /\ socket[s] \in {"verifying", "ready"}
  /\ socket' = [socket EXCEPT ![s] = "off"]
  /\ joining' = [joining EXCEPT ![s] = None]
  /\ rooms' = [rooms EXCEPT ![s] = {}]
  /\ UNCHANGED <<revoked, board, crashed, clicked, received, kitchen>>

\* The page is opened again: a new socket and an empty board, nothing is fetched.
Reopen(s) ==
  /\ socket' = [socket EXCEPT ![s] = "off"]
  /\ joining' = [joining EXCEPT ![s] = None]
  /\ rooms' = [rooms EXCEPT ![s] = {}]
  /\ board' = [board EXCEPT ![s] = EmptyBoard]
  /\ crashed' = crashed \ {s}
  /\ clicked' = [clicked EXCEPT ![s] = {}]
  /\ UNCHANGED <<revoked, received, kitchen>>

\* A logout puts the token on the blacklist; no socket is looked at again.
Logout(s) ==
  /\ s \notin revoked
  /\ revoked' = revoked \cup {s}
  /\ UNCHANGED <<socket, joining, rooms, board, crashed, clicked, received, kitchen>>
-----------------------------------------------------------------------------
(* The API: an order is committed and announced later; so is a new status. *)

roomForMore == Cardinality(validated) + Cardinality(unsaid) < MaxUnsaid
screensSame == UNCHANGED <<socket, joining, rooms, revoked, board, crashed, clicked, received>>

CommitOrder(o) ==
  /\ cooking[o] = None /\ roomForMore
  /\ cooking' = [cooking EXCEPT ![o] = "PENDING"]
  /\ furthest' = [furthest EXCEPT ![o] = "PENDING"]
  /\ unsaid' = unsaid \cup {event("order.created", o, "PENDING")}
  /\ UNCHANGED <<validated, wire>> /\ screensSame

\* ticket.created is left out when the names of the items cannot be read.
AnnounceOrder(e, named) ==
  /\ e \in unsaid /\ e.name = "order.created"
  /\ LET events == IF named THEN <<[e EXCEPT !.name = "ticket.created"], e>> ELSE <<e>>
     IN Len(wire) + Len(events) <= MaxWire /\ wire' = wire \o events
  /\ unsaid' = unsaid \ {e}
  /\ UNCHANGED <<cooking, furthest, validated>> /\ screensSame

\* updateCookingStatus of the KDS service, called by a client that has a CSRF token: the
\* item is read and the transition validated (stages may be skipped) ...
ValidateCookingStatus(o, next) ==
  /\ cooking[o] # None /\ roomForMore
  /\ rank(next) >= rank(cooking[o])
  /\ validated' = validated \cup {[order |-> o, next |-> next]}
  /\ UNCHANGED <<cooking, furthest, unsaid, wire>> /\ screensSame

\* ... and the status is written later, whatever was written in between.
WriteCookingStatus(u) ==
  /\ u \in validated
  /\ validated' = validated \ {u}
  /\ cooking' = [cooking EXCEPT ![u.order] = u.next]
  /\ furthest' = [furthest EXCEPT ![u.order] = IF rank(u.next) > rank(@) THEN u.next ELSE @]
  /\ unsaid' = unsaid \cup {event("order.item_updated", u.order, u.next)}
  /\ UNCHANGED wire /\ screensSame

BroadcastItem(e) ==
  /\ e \in unsaid /\ e.name = "order.item_updated"
  /\ Len(wire) < MaxWire
  /\ wire' = Append(wire, e)
  /\ unsaid' = unsaid \ {e}
  /\ UNCHANGED <<cooking, furthest, validated>> /\ screensSame
-----------------------------------------------------------------------------
(* The board. *)

\* What a delivered event makes of the tickets; None is a board that cannot be
\* rendered.
onTicketCreated(tickets, e) == None

onOrderCreated(tickets, e) == [tickets EXCEPT ![e.order] = Append(@, e.status)]

onItemUpdated(tickets, e) ==
  [tickets EXCEPT ![e.order] = [n \in DOMAIN @ |-> e.status]]

handle(tickets, e) ==
  CASE e.name = "ticket.created" -> onTicketCreated(tickets, e)
    [] e.name = "order.created" -> onOrderCreated(tickets, e)
    [] e.name = "order.item_updated" -> onItemUpdated(tickets, e)

\* The pod hands the event to the sockets in its room.  A render that throws
\* unmounts the board, and its cleanup disconnects the socket.
Deliver ==
  /\ wire # <<>>
  /\ LET e == Head(wire)
         audience == {s \in Screens : e.room \in rooms[s]}
         failing == {s \in audience : handle(board[s], e) = None}
     IN /\ board' = [s \in Screens |-> IF s \in failing THEN EmptyBoard
                                       ELSE IF s \in audience THEN handle(board[s], e)
                                       ELSE board[s]]
        /\ crashed' = crashed \cup failing
        /\ socket' = [s \in Screens |-> IF s \in failing THEN "off" ELSE socket[s]]
        /\ joining' = [s \in Screens |-> IF s \in failing THEN None ELSE joining[s]]
        /\ rooms' = [s \in Screens |-> IF s \in failing THEN {} ELSE rooms[s]]
        /\ received' = received \cup {<<s, e.room>> : s \in audience}
  /\ wire' = Tail(wire)
  /\ UNCHANGED <<revoked, clicked, cooking, furthest, validated, unsaid>>

nextStatus(current) == CookingOrder[IF rank(current) < 4 THEN rank(current) + 1 ELSE 4]

\* A click moves the ticket at once; its PUT has no CSRF header, and a refusal is
\* neither reported nor taken back.
UpdateItemStatus(s, o) ==
  /\ s \notin crashed
  /\ \E n \in DOMAIN board[s][o] :
       LET new == nextStatus(board[s][o][n])
       IN /\ board' = [board EXCEPT ![s][o] = [m \in DOMAIN @ |-> new]]
          /\ cooking' = IF passesGuards(s \notin revoked, FALSE)
                        THEN [cooking EXCEPT ![o] = new] ELSE cooking
  /\ clicked' = [clicked EXCEPT ![s] = @ \cup {o}]
  /\ UNCHANGED <<socket, joining, rooms, revoked, crashed, furthest, validated, unsaid, wire, received>>
-----------------------------------------------------------------------------
ScreenSteps(s) ==
  \/ Connect(s) \/ HandleConnection(s) \/ HandleJoinBranch(s) \/ JoinBranch(s)
  \/ HandleLeaveBranch(s) \/ TransportLost(s) \/ Reopen(s)
  \/ \E o \in Orders : UpdateItemStatus(s, o)

KitchenSteps ==
  \/ \E o \in Orders : CommitOrder(o) \/ \E next \in Statuses : ValidateCookingStatus(o, next)
  \/ \E u \in validated : WriteCookingStatus(u)
  \/ \E e \in unsaid : BroadcastItem(e) \/ \E named \in BOOLEAN : AnnounceOrder(e, named)
  \/ Deliver

KdsNext(open) == (\E s \in open : ScreenSteps(s)) \/ KitchenSteps
Logouts(open) == \E s \in open : Logout(s)
KdsSpec == KdsInit /\ [][KdsNext(Screens) \/ Logouts(Screens)]_kdsVars
-----------------------------------------------------------------------------
(* Properties. *)

\* A display is sent events of its own tenant only, whatever branch its address names
\* and however its connections, joins and the broadcasts interleave (joinBranch, lines
\* 307 to 327 of the gateway).
EventsStayInTenant ==
  \A p \in received : \E b \in Branches :
    TenantOf[b] = TokenTenant[p[1]] /\ p[2] = getRoomName(TenantOf[b], b)

\* A board that is alive shows an order on one ticket at most, although every order is
\* announced by two events whose handlers both add a ticket.
OneTicketPerOrder == \A s \in Screens, o \in Orders : Len(board[s][o]) <= 1

\* A ticket never shows a status that the database has not reached, unless somebody
\* clicked it on this display: late and overtaking events only leave a board behind.  The
\* exception is in `furthest`: two updates validated against the same status (lines 180 to
\* 195 of the service) take the database back, and a board stays ahead of it.
BoardAheadOnlyByClicks ==
  \A s \in Screens, o \in Orders :
    \A n \in DOMAIN board[s][o] :
      o \notin clicked[s] => rank(board[s][o][n]) <= rank(furthest[o])

\* What a kitchen display shows (joinBranch, the handlers of KDSTerminal): its own tenant's
\* orders, once each, and no progress that neither the database nor a click made.
DisplayInv ==
  /\ KdsTypeOK
  /\ EventsStayInTenant
  /\ OneTicketPerOrder
  /\ BoardAheadOnlyByClicks
=============================================================================
