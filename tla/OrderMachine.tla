---------------------------- MODULE OrderMachine ----------------------------
(***************************************************************************)
(* What the order service promises of one order, independently of how its  *)
(* handlers are written: the status advances one stage at a time, it may   *)
(* be cancelled until it is completed, the two final statuses are never    *)
(* left, and an invoice is issued once, for a completed order.             *)
(***************************************************************************)
EXTENDS Naturals, Sequences

VARIABLES status, invoiced

Stages == <<"PENDING", "ACCEPTED", "PREPARING", "READY", "COMPLETED">>

Init == status = "PENDING" /\ invoiced = FALSE

Advance ==
  /\ \E i \in 1..4 : status = Stages[i] /\ status' = Stages[i + 1]
  /\ UNCHANGED invoiced

Cancel ==
  /\ status \in {"PENDING", "ACCEPTED", "PREPARING", "READY"}
  /\ status' = "CANCELLED"
  /\ UNCHANGED invoiced

Invoice ==
  /\ status = "COMPLETED" /\ ~invoiced
  /\ invoiced' = TRUE
  /\ UNCHANGED status

Next == Advance \/ Cancel \/ Invoice

Spec == Init /\ [][Next]_<<status, invoiced>>
=============================================================================
