----------------------------- MODULE MCCheckout -----------------------------
(* Instances of Checkout for TLC: a table, two branches, two products. *)
EXTENDS Checkout

Line(product, variant, size, addons, quantity) ==
  [product |-> product, variant |-> variant, size |-> size, addons |-> addons,
   quantity |-> quantity]
Dto(token, branch, table, items, code) ==
  [token |-> token, branch |-> branch, table |-> table, items |-> items, code |-> code]

MCTables == {"t1"}
MCBranchOf == [t1 |-> "b1"]
MCBasePrice == [pizza |-> 905, tea |-> 150]
MCVariantPrice == [truffle |-> 1500]
MCSizeAdjust == [large |-> 300]
MCAddonPrice == [cheese |-> 120]
MCStock == [truffle |-> 1]
\* A fixed discount larger than the tea, used at most once.
FixedOff == [type |-> "FIXED_AMOUNT", value |-> 200, usageLimit |-> 1]

Tea == <<Line("tea", None, None, << >>, 1)>>
Feast == <<Line("pizza", None, "large", <<"cheese", "cheese">>, 2),
           Line("pizza", "truffle", "large", << >>, 1)>>

\* Guest and staff bodies, well-formed and conflicting.
MixedDtos ==
  { Dto("t1", "b1", None, Tea, Code),          \* guest with the discount
    Dto("t1", "b2", None, Tea, None),          \* guest naming another branch
    Dto(None, "b2", "t1", Tea, None),          \* staff, table of another branch
    Dto(None, "b2", None, Feast, Code),        \* takeaway with every modifier
    Dto(None, "b1", "t1", Tea, "NOSUCHCODE") }
=============================================================================
