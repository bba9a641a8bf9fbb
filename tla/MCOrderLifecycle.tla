-------------------------- MODULE MCOrderLifecycle --------------------------
(* Instances of OrderLifecycle for TLC: requests are interchangeable. *)
EXTENDS OrderLifecycle, TLC

RequestSymmetry == Permutations(Requests)
=============================================================================
