--------------------------- MODULE MCBillingWebhook ---------------------------
(* Instances of BillingWebhook: the events of one tenant.                     *)
EXTENDS BillingWebhook, TLC

CONSTANTS s1, s2, c1, c2

ev(kind, status, s, c) ==
  [kind |-> kind, status |-> status, sub |-> s, cust |-> c, meta |-> kind = "checkout"]

\* Every kind of event of the first checkout, and a second checkout.
TwoCheckouts ==
  {ev("checkout", "active", s1, c1), ev("paid", "active", s1, c1),
   ev("failed", "active", None, c1), ev("updated", "trialing", s1, c1),
   ev("trial_will_end", "trialing", s1, c1), ev("other", "active", s1, c1),
   ev("checkout", "active", s2, c2)}

DeliverySymmetry == Permutations(Deliveries)
=============================================================================
