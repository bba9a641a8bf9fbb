----------------------------- MODULE OrderTypes -----------------------------
(***************************************************************************)
(* The order statuses, the transition table of the order service and the   *)
(* event names it broadcasts (apps/api/src/order/order.service.ts).        *)
(***************************************************************************)

OrderStatus ==
  {"DRAFT", "PENDING", "ACCEPTED", "PREPARING", "READY", "COMPLETED", "CANCELLED"}

\* Mutant: an order may be handed over without ever having been READY.
AllowedTransitionsSkippingReady(s) ==
  CASE s = "PENDING"   -> {"ACCEPTED", "CANCELLED"}
    [] s = "ACCEPTED"  -> {"PREPARING", "CANCELLED"}
    [] s = "PREPARING" -> {"READY", "COMPLETED", "CANCELLED"}
    [] s = "READY"     -> {"COMPLETED", "CANCELLED"}
    [] OTHER           -> {}

\* The table validateStateTransition looks the current status up in.
allowedTransitions(s) ==
  CASE s = "DRAFT"     -> {"PENDING", "CANCELLED"}
    [] s = "PENDING"   -> {"ACCEPTED", "CANCELLED"}
    [] s = "ACCEPTED"  -> {"PREPARING", "CANCELLED"}
    [] s = "PREPARING" -> {"READY", "CANCELLED"}
    [] s = "READY"     -> {"COMPLETED", "CANCELLED"}
    [] OTHER           -> {}

\* The canonical event name of a status; a draft is announced like a new order.
mapStatusToEvent(s) ==
  CASE s \in {"DRAFT", "PENDING"} -> "order.created"
    [] s = "ACCEPTED"             -> "order.accepted"
    [] s = "PREPARING"            -> "order.preparing"
    [] s = "READY"                -> "order.ready"
    [] s = "COMPLETED"            -> "order.completed"
    [] s = "CANCELLED"            -> "order.cancelled"

OrderEvents ==
  {"order.created", "order.accepted", "order.preparing", "order.ready",
   "order.completed", "order.cancelled"}

\* The stages an order has passed through when it is in status s.
EarlierStages(s) ==
  CASE s = "ACCEPTED"  -> {"PENDING"}
    [] s = "PREPARING" -> {"PENDING", "ACCEPTED"}
    [] s = "READY"     -> {"PENDING", "ACCEPTED", "PREPARING"}
    [] s = "COMPLETED" -> {"PENDING", "ACCEPTED", "PREPARING", "READY"}
    [] OTHER           -> {}
=============================================================================
