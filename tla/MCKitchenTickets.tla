-------------------------- MODULE MCKitchenTickets --------------------------
(* Instances of KitchenTickets for TLC. *)
EXTENDS KitchenTickets, TLC

Symmetry == Permutations(Updates) \cup Permutations(Polls) \cup Permutations(Items)
=============================================================================
