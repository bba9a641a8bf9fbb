--------------------------- MODULE MCMediaLibrary ---------------------------
(* Instances of MediaLibrary: requests made from a tenant's host or from the *)
(* platform's.                                                               *)
EXTENDS MediaLibrary, TLC

AnyScope == [q \in Uploads \cup Removals |-> {"tenant", "platform"}]
Symmetry == Permutations(Uploads) \cup Permutations(Contents) \cup Permutations(Slots)
=============================================================================
