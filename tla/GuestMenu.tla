------------------------------ MODULE GuestMenu ------------------------------
(***************************************************************************)
(* The guest's page behind a table's QR code (apps/qr-menu): MenuBrowser   *)
(* with its customisation dialog, cart and checkout, and the price rules   *)
(* of lib/pricing.ts.  The menu is the one the page was rendered with; the *)
(* server prices the order by its own rules (module Pricing) from the rows *)
(* it has by then.                                                         *)
(***************************************************************************)
EXTENDS Pricing, FiniteSets, Sequences

CONSTANTS
  MenuItems,       \* the products of the menu
  SizesOf, VariantsOf, GroupsOf,         \* product -> its options
  OptionsOf, MaxSelections,              \* addon group -> addon items, upper bound
  PriceRise,       \* what the base price rises by when the menu changes
  MaxQuantity,     \* bound on the quantity of a line
  MaxAdditions,    \* bound on the additions to the cart
  MaxSubmissions   \* bound on the orders a page submits

priceAt(version, p) == BasePrice[p] + version * PriceRise

\* The server's price rules, over the menu as it is (version 0) or has become (1).
Server(version) ==
  INSTANCE Pricing WITH BasePrice <- [p \in MenuItems |-> priceAt(version, p)]

VARIABLES
  modal,          \* None, or the configuration being put together and its quantity
  lines,          \* the cart: a set of lines
  cartOpen, submitting, checkoutError, confirmation,
  carts,          \* how many carts there have been
  submissions,    \* what has been submitted, oldest first
  menuVersion, pageVersion,  \* of the server's menu, and of the one the page was rendered with
  additions

guestVars == <<modal, lines, cartOpen, submitting, checkoutError, confirmation, carts,
               submissions, menuVersion, pageVersion, additions>>

AllSizes == UNION {SizesOf[p] : p \in MenuItems}
AllVariants == UNION {VariantsOf[p] : p \in MenuItems}
AllAddons == UNION {OptionsOf[g] : g \in UNION {GroupsOf[p] : p \in MenuItems}}
Configurations ==
  [product: MenuItems, size: AllSizes \cup {None}, variant: AllVariants \cup {None},
   addons: SUBSET AllAddons]
configuration(p, size, variant, addons) ==
  [product |-> p, size |-> size, variant |-> variant, addons |-> addons]
Dialogs == [config : Configurations, quantity : 1..MaxQuantity]

\* The rows of the menu have prices, an addon item belongs to one group, and
\* any number may be a group's maximum (the route does not validate it).
ASSUME MenuAssumption ==
  /\ \A p \in MenuItems : BasePrice[p] \in Int
  /\ \A v \in AllVariants : VariantPrice[v] \in Int
  /\ \A s \in AllSizes : SizeAdjust[s] \in Int
  /\ \A a \in AllAddons : AddonPrice[a] \in Int
  /\ PriceRise \in Int
  /\ \A p \in MenuItems : \A g \in GroupsOf[p] :
       /\ MaxSelections[g] \in Int
       /\ \A h \in GroupsOf[p] : OptionsOf[g] \cap OptionsOf[h] # {} => g = h
  /\ MaxQuantity \in Nat \ {0}
  /\ None \notin Dialogs

GuestTypeOK ==
  /\ modal \in Dialogs \cup {None}
  /\ \A l \in lines : l.config \in Configurations /\ l.quantity > 0
  /\ cartOpen \in BOOLEAN /\ submitting \in BOOLEAN /\ checkoutError \in BOOLEAN
  /\ confirmation \in {None} \cup DOMAIN submissions
  /\ \A n \in DOMAIN submissions :
       submissions[n].answer \in {"none", "accepted", "refused", "heard", "lost"}

GuestInit ==
  /\ modal = None /\ lines = {}
  /\ cartOpen = FALSE /\ submitting = FALSE /\ checkoutError = FALSE /\ confirmation = None
  /\ carts = 1 /\ submissions = <<>> /\ additions = 0
  /\ menuVersion = 0 /\ pageVersion = 0
-----------------------------------------------------------------------------
(* lib/pricing.ts *)

computeUnitPrice(c) ==
  LET base == priceAt(pageVersion, c.product) + (IF c.size # None THEN SizeAdjust[c.size] ELSE 0)
  IN (IF c.variant # None THEN VariantPrice[c.variant] ELSE base)
       + Sum([a \in c.addons |-> AddonPrice[a]])

\* The addons are sorted into the key: their order does not matter.
cartItemKey(c) == c

computeCartSubtotal(cart) == Sum([l \in cart |-> l.unitPrice * l.quantity])
computeCartItemCount(cart) == Sum([l \in cart |-> l.quantity])
-----------------------------------------------------------------------------
(* The dialog.  It and the cart drawer cover the page. *)

onPage == confirmation = None /\ modal = None /\ ~cartOpen
inModal == confirmation = None /\ modal # None
inCart == confirmation = None /\ cartOpen

cartSame == UNCHANGED <<lines, cartOpen, submitting, checkoutError, confirmation, carts,
                        submissions, menuVersion, pageVersion, additions>>

OpenProduct(p) ==
  /\ onPage /\ additions < MaxAdditions
  /\ modal' = [config |-> configuration(p, None, None, {}), quantity |-> 1]
  /\ cartSame

\* Choosing a size drops the variant and the other way round.
SelectSize(s) ==
  /\ inModal /\ s \in SizesOf[modal.config.product]
  /\ modal' = [modal EXCEPT !.config.size = s, !.config.variant = None]
  /\ cartSame

SelectVariant(v) ==
  /\ inModal /\ v \in VariantsOf[modal.config.product]
  /\ modal' = [modal EXCEPT !.config.variant = v, !.config.size = None]
  /\ cartSame

\* A full single-choice group replaces its choice, another full group ignores the click.
handleAddonClick(chosen, addon, group) ==
  LET active == chosen \cap OptionsOf[group]
  IN IF addon \in chosen THEN chosen \ {addon}
     ELSE IF Cardinality(active) < MaxSelections[group] THEN chosen \cup {addon}
     ELSE IF MaxSelections[group] = 1 THEN (chosen \ OptionsOf[group]) \cup {addon}
     ELSE chosen

ClickAddon(g, a) ==
  /\ inModal /\ g \in GroupsOf[modal.config.product] /\ a \in OptionsOf[g]
  /\ modal' = [modal EXCEPT !.config.addons = handleAddonClick(@, a, g)]
  /\ cartSame

SetQuantity(n) ==
  /\ inModal /\ n \in {modal.quantity - 1, modal.quantity + 1} /\ n \in 1..MaxQuantity
  /\ modal' = [modal EXCEPT !.quantity = n]
  /\ cartSame

ResetCartModal ==
  /\ inModal
  /\ modal' = None
  /\ cartSame

\* An identical configuration is added to its line, at the price of that line.
AddToCartFromModal ==
  /\ inModal
  /\ LET c == modal.config
         same == {l \in lines : cartItemKey(l.config) = cartItemKey(c)}
     IN lines' = (lines \ same) \cup
          (IF same # {} THEN {[l EXCEPT !.quantity = @ + modal.quantity] : l \in same}
           ELSE {[config |-> c, quantity |-> modal.quantity, unitPrice |-> computeUnitPrice(c)]})
  /\ modal' = None
  /\ additions' = additions + 1
  /\ UNCHANGED <<cartOpen, submitting, checkoutError, confirmation, carts, submissions,
                 menuVersion, pageVersion>>
-----------------------------------------------------------------------------
(* The cart. *)

\* The bar that opens the drawer is there while the cart has lines.
OpenCart ==
  /\ onPage /\ computeCartItemCount(lines) > 0
  /\ cartOpen' = TRUE
  /\ UNCHANGED <<modal, lines, submitting, checkoutError, confirmation, carts, submissions,
                 menuVersion, pageVersion, additions>>

CloseCart ==
  /\ inCart
  /\ cartOpen' = FALSE
  /\ UNCHANGED <<modal, lines, submitting, checkoutError, confirmation, carts, submissions,
                 menuVersion, pageVersion, additions>>

\* A line at zero goes.
ChangeLineQuantity(l, delta) ==
  /\ inCart /\ l \in lines /\ l.quantity + delta <= MaxQuantity
  /\ lines' = {x \in (lines \ {l}) \cup {[l EXCEPT !.quantity = @ + delta]} : x.quantity > 0}
  /\ UNCHANGED <<modal, cartOpen, submitting, checkoutError, confirmation, carts, submissions,
                 menuVersion, pageVersion, additions>>

RemoveLine(l) ==
  /\ inCart /\ l \in lines
  /\ lines' = lines \ {l}
  /\ UNCHANGED <<modal, cartOpen, submitting, checkoutError, confirmation, carts, submissions,
                 menuVersion, pageVersion, additions>>

\* What is sent of a line: its selections and quantity, never its price.
buildCheckoutPayload(cart) == {[config |-> l.config, quantity |-> l.quantity] : l \in cart}

submission == [items |-> buildCheckoutPayload(lines), quoted |-> computeCartSubtotal(lines),
               cart |-> carts, page |-> pageVersion, menu |-> pageVersion,
               answer |-> "none", taken |-> FALSE, charged |-> 0]

\* What is kept of a submission that is over.
settled(s, answer) == [s EXCEPT !.answer = answer, !.items = {}, !.quoted = 0, !.charged = 0]

\* Mutant: nothing holds back a second click.
PlaceOrderAgain ==
  /\ inCart /\ lines # {} /\ Len(submissions) < MaxSubmissions
  /\ submitting' = TRUE /\ checkoutError' = FALSE
  /\ submissions' = Append(submissions, submission)
  /\ UNCHANGED <<modal, lines, cartOpen, confirmation, carts, menuVersion,
                 pageVersion, additions>>

PlaceOrder ==
  /\ inCart /\ lines # {} /\ ~submitting /\ Len(submissions) < MaxSubmissions
  /\ submitting' = TRUE /\ checkoutError' = FALSE
  /\ submissions' = Append(submissions, submission)
  /\ UNCHANGED <<modal, lines, cartOpen, confirmation, carts, menuVersion,
                 pageVersion, additions>>

\* The checkout of the server: it may refuse, or take the order at its own prices.
selection(i) ==
  [product |-> i.config.product, size |-> i.config.size, variant |-> i.config.variant,
   quantity |-> i.quantity, addons |-> [a \in i.config.addons |-> a]]
chargeFor(items) ==
  IF menuVersion = 0 THEN Sum([i \in items |-> Server(0)!totalLinePrice(selection(i))])
  ELSE Sum([i \in items |-> Server(1)!totalLinePrice(selection(i))])

ServerTakesOrder(n) ==
  /\ submissions[n].answer = "none"
  /\ submissions' = [submissions EXCEPT ![n].answer = "accepted", ![n].taken = TRUE,
                       ![n].charged = chargeFor(submissions[n].items), ![n].menu = menuVersion]
  /\ UNCHANGED <<modal, lines, cartOpen, submitting, checkoutError, confirmation, carts,
                 menuVersion, pageVersion, additions>>

ServerRefusesOrder(n) ==
  /\ submissions[n].answer = "none"
  /\ submissions' = [submissions EXCEPT ![n].answer = "refused"]
  /\ UNCHANGED <<modal, lines, cartOpen, submitting, checkoutError, confirmation, carts,
                 menuVersion, pageVersion, additions>>

\* The whole cart goes, also what was added since the order was sent.
HearAccepted(n) ==
  /\ submissions[n].answer = "accepted" /\ submitting /\ submissions[n].cart = carts
  /\ submissions' = [submissions EXCEPT ![n] = settled(@, "heard")]
  /\ confirmation' = n /\ lines' = {} /\ cartOpen' = FALSE /\ submitting' = FALSE
  /\ carts' = carts + 1
  /\ UNCHANGED <<modal, checkoutError, menuVersion, pageVersion, additions>>

\* A refusal, or a request or an answer that is lost: the cart stays.
HearFailure(n) ==
  /\ submissions[n].answer \in {"none", "accepted", "refused"} /\ submitting
  /\ submissions[n].cart = carts
  /\ \A m \in DOMAIN submissions : m > n => submissions[m].cart # carts
  /\ submissions' = [submissions EXCEPT ![n] =
       settled(@, IF @.answer = "refused" THEN "refused" ELSE "lost")]
  /\ checkoutError' = TRUE /\ submitting' = FALSE
  /\ UNCHANGED <<modal, lines, cartOpen, confirmation, carts, menuVersion,
                 pageVersion, additions>>

StartNewOrder ==
  /\ confirmation # None
  /\ confirmation' = None /\ checkoutError' = FALSE
  /\ UNCHANGED <<modal, lines, cartOpen, submitting, carts, submissions, menuVersion, pageVersion, additions>>

\* The page is fetched again: the menu is the current one and the cart is gone.
ReloadMenu ==
  /\ carts < MaxSubmissions
  /\ modal' = None /\ lines' = {}
  /\ cartOpen' = FALSE /\ submitting' = FALSE /\ checkoutError' = FALSE /\ confirmation' = None
  /\ carts' = carts + 1 /\ pageVersion' = menuVersion
  /\ UNCHANGED <<submissions, menuVersion, additions>>

MenuChanges ==
  /\ menuVersion = 0
  /\ menuVersion' = 1
  /\ UNCHANGED <<modal, lines, cartOpen, submitting, checkoutError, confirmation, carts,
                 submissions, pageVersion, additions>>
-----------------------------------------------------------------------------
GuestNext(offered, quantities) ==
  \/ \E p \in offered : OpenProduct(p)
  \/ \E s \in AllSizes : SelectSize(s)
  \/ \E v \in AllVariants : SelectVariant(v)
  \/ \E g \in DOMAIN OptionsOf, a \in AllAddons : ClickAddon(g, a)
  \/ \E n \in quantities : SetQuantity(n)
  \/ ResetCartModal \/ AddToCartFromModal \/ OpenCart \/ CloseCart \/ PlaceOrder
  \/ \E l \in lines : RemoveLine(l) \/ ChangeLineQuantity(l, -1) \/ ChangeLineQuantity(l, 1)
  \/ \E n \in DOMAIN submissions :
       HearAccepted(n) \/ HearFailure(n) \/ ServerTakesOrder(n) \/ ServerRefusesOrder(n)
  \/ StartNewOrder \/ ReloadMenu \/ MenuChanges

GuestSpec == GuestInit /\ [][GuestNext(MenuItems, 1..MaxQuantity)]_guestVars
-----------------------------------------------------------------------------
(* Properties. *)

\* No submitted line has more addons of a group than the group allows: the server does
\* not count them, handleAddonClick is the only bound.
AddonsWithinGroup ==
  \A n \in DOMAIN submissions : \A i \in submissions[n].items :
    \A g \in GroupsOf[i.config.product] :
      LET active == i.config.addons \cap OptionsOf[g]
      IN active # {} => Cardinality(active) <= MaxSelections[g]

\* As long as the menu has not changed under the page, the subtotal on the button is
\* what the server charges: the two price rules agree on everything the dialog lets a
\* guest put together, and merging lines keeps them in step.
QuotedIsCharged ==
  \A n \in DOMAIN submissions :
    submissions[n].taken /\ submissions[n].menu = submissions[n].page =>
      submissions[n].charged = submissions[n].quoted

\* A cart is ordered twice only after an answer was lost: a second click does nothing
\* while the first is under way, and a heard answer empties the cart.
OneOrderPerCart ==
  \A m, n \in DOMAIN submissions :
    /\ m < n /\ submissions[m].cart = submissions[n].cart
    /\ submissions[m].taken /\ submissions[n].taken
    => submissions[m].answer = "lost"

\* What a guest's submission is worth (MenuBrowser, lib/pricing): within the groups' limits,
\* charged as quoted, and ordered once unless an answer was lost.
GuestInv ==
  /\ GuestTypeOK
  /\ AddonsWithinGroup
  /\ QuotedIsCharged
  /\ OneOrderPerCart
=============================================================================
