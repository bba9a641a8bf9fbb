------------------------------- MODULE Pricing -------------------------------
(***************************************************************************)
(* The money arithmetic of a checkout, in cents: the line price computed   *)
(* in the item loop of createOrder, the tax, and the discount engine of    *)
(* apps/api/src/discount/discount.service.ts.  toFixed(2) is rounding to   *)
(* the nearest cent.                                                       *)
(***************************************************************************)
EXTENDS Values

CONSTANTS
  Discount,      \* the tenant's one discount: type, value, usageLimit (or None)
  TaxPercent,    \* restaurant.taxPercentage
  BasePrice,     \* product -> cents
  VariantPrice,  \* variant -> cents
  SizeAdjust,    \* size -> cents
  AddonPrice     \* addon item -> cents

Least(a, b) == IF a < b THEN a ELSE b

\* n percent of an amount of cents, rounded to the nearest cent.
PercentOf(amount, n) == (amount * n + 50) \div 100

\* Mutant: a selected size is added to a variant's absolute price too.
unitPriceSizedVariant(item) ==
  (IF item.variant # None THEN VariantPrice[item.variant] ELSE BasePrice[item.product])
    + (IF item.size # None THEN SizeAdjust[item.size] ELSE 0)

\* A variant's absolute price replaces the base price and any size adjustment.
unitPrice(item) ==
  IF item.variant # None THEN VariantPrice[item.variant]
  ELSE BasePrice[item.product] + (IF item.size # None THEN SizeAdjust[item.size] ELSE 0)

lineAddonsTotal(item) ==
  FoldFunction(LAMBDA a, total : AddonPrice[a] + total, 0, item.addons)

totalLinePrice(item) == (unitPrice(item) + lineAddonsTotal(item)) * item.quantity

taxAmount(subtotal) == PercentOf(subtotal, TaxPercent)

computeDiscountAmount(subtotal) ==
  IF Discount.value <= 0 \/ subtotal <= 0 THEN 0
  ELSE Least(IF Discount.type = "PERCENTAGE" THEN PercentOf(subtotal, Discount.value)
             ELSE Discount.value,
             subtotal)

\* Whether validateDiscount accepts the row it was given; the validity dates
\* are part of "active".
validateDiscount(active, usageCount, subtotal) ==
  /\ active
  /\ Discount.usageLimit # None => usageCount < Discount.usageLimit
  /\ computeDiscountAmount(subtotal) > 0
=============================================================================
