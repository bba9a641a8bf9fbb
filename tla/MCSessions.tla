----------------------------- MODULE MCSessions -----------------------------
(* Instances of Sessions for TLC: browsers are interchangeable, and so are *)
(* handlers.                                                               *)
EXTENDS Sessions, TLC

SessionSymmetry == Permutations(Handlers) \cup Permutations(Devices)
=============================================================================
