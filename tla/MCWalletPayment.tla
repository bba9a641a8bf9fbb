--------------------------- MODULE MCWalletPayment ---------------------------
(* Instances of WalletPayment for TLC: one payment on each kind of rail. *)
EXTENDS WalletPayment, TLC

MCPayments == {"card", "knet", "cash"}
MCRail == [card |-> "stripe", knet |-> "tap_payments", cash |-> "pos"]
VerifierSymmetry == Permutations(Verifiers)
=============================================================================
