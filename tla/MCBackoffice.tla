---------------------------- MODULE MCBackoffice ----------------------------
(* The screens come in groups whose rows do not refer to each other; focus   *)
(* says which group they work in, and actors who works: colleagues over the  *)
(* whole server, or also the operator with a server that has no other work    *)
(* than its requests.                                                        *)
EXTENDS Backoffice, TLC

\* The rows there are at the start, and the key of the table and the customer.
CONSTANTS b1, t1, c1, p1, u1, k1,
          MaxScreenRequests   \* bound on the requests of a behaviour with the operator

VARIABLES focus, actors

mcVars == <<backofficeVars, focus, actors>>

seed(parent, key) ==
  [NoRow EXCEPT !.exists = TRUE, !.active = TRUE, !.parent = parent, !.key = key]
MCSeedRows ==
  [i \in Ids |-> CASE i \in {b1, c1} -> seed(None, None)
                   [] i = t1 -> seed(b1, k1) [] i = p1 -> seed(c1, None)
                   [] i = u1 -> seed(None, k1) [] OTHER -> NoRow]

Groups == {"menu", "floor", "people"}
kindsOf(f) == CASE f = "menu" -> {"category", "product"} [] f = "floor" -> {"branch", "table"}
                [] f = "people" -> {"customer"}

\* What colleagues send: a deletion, a restoration, a creation, and the updates
\* that hide a row, move a product or change a customer's address.
body(op, kind, id, parent, key, active) ==
  [op |-> op, kind |-> kind, id |-> id, parent |-> parent, key |-> key, active |-> active,
   rev |-> IF op \in {"create", "update"} THEN 0 ELSE None]
bodiesOf(k) ==
  {body(o, k, i, None, None, None) : o \in {"delete", "restore"}, i \in idsOf(k)}
    \cup {body("create", k, i, p, key, None) : i \in idsOf(k), p \in parentsOf(k), key \in keysOf(k)}
    \cup (CASE k = "product" -> {body("update", k, i, p, None, FALSE) : i \in Products, p \in Categories}
           [] k = "customer" -> {body("update", k, i, None, key, None) : i \in Customers, key \in Keys}
           [] k = "table" -> {body("update", k, i, None, None, None) : i \in Tables}
           [] OTHER -> {body("update", k, i, None, None, FALSE) : i \in idsOf(k)})
colleagueBodies == [f \in Groups |-> UNION {bodiesOf(k) : k \in kindsOf(f)}]

MCInit ==
  /\ focus \in Groups /\ actors \in {"colleagues", "operator"}
  /\ CatalogInit /\ FormInit /\ BackofficeInit /\ tab \in kindsOf(focus)

\* Beside the operator they only delete.
Colleagues ==
  \E r \in Requests, q \in colleagueBodies[focus] :
    (actors = "operator" => q.op = "delete") /\ Others(r, q)

\* Guests matter to branches and tables, the plan and the clock to the menu.
Surroundings ==
  \/ Auditing
  \/ focus = "floor" /\ Guests
  \/ focus = "menu" /\ (BillingChanges \/ Tick)

Work ==
  \/ actors = "operator" /\ Operator(kindsOf(focus))
  \/ Colleagues
  \/ (Progress \/ (actors = "colleagues" /\ Surroundings)) /\ UNCHANGED screenVars

\* The forms of all screens are alike: a second one is opened where there is one kind.
\* The rules of the forms are explored on their own.
MCNext ==
  /\ UNCHANGED <<focus, actors>>
  /\ \/ filled = EmptyForm /\ Work /\ UNCHANGED filled
     \/ actors = "operator" /\ tab = "customer" /\ started = 0 /\ noDialog
          /\ Fill /\ UNCHANGED <<catalogVars, screenVars>>
  /\ actors = "operator" => started' <= MaxScreenRequests
  /\ focus # "people" => form'.serial <= 1

MCSpec == MCInit /\ [][MCNext]_mcVars

Symmetry == Permutations(Requests)
=============================================================================
