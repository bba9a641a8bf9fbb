----------------------------- MODULE FormRules -----------------------------
(* The back office validates a form before it sends it; the server         *)
(* validates the body by the decorators of its DTO. A text is its length,  *)
(* a number is counted in halves so that a fraction is odd, and Blank is an *)
(* empty input. What has a form of its own, an e-mail address or the JSON   *)
(* of the operating hours, is proper (an address IsEmail takes, of at most  *)
(* 255 characters; an object), passable (something@something.something that *)
(* IsEmail refuses, or that is longer; another JSON value), null (JSON) or  *)
(* bad.                                                                     *)
EXTENDS Integers

CONSTANT Blank

VARIABLE filled    \* what the operator has typed into a form

within(n, lo, hi) == n \in lo .. hi
number(h, lo, hi) == h # Blank /\ 2 * lo <= h /\ h <= 2 * hi
whole(h) == h % 2 = 0
Unbounded == 1000
optional(h, ok) == h = Blank \/ ok

\* The forms' regular expression and @IsEmail with its length; JSON.parse, @IsObject, and
\* @IsObject under @IsOptional, which skips null.
looksLikeMail(f) == f.special \in {"proper", "passable"}
isEmail(f) == f.special = "proper"
isJson(f) == f.special # "bad"
isObject(f) == f.special = "proper"
isObjectOrNull(f) == f.special \in {"proper", "null"}

\* Lengths and numbers on both sides of every bound, and a fraction.
Lengths == {0, 1, 2, 7, 8, 20, 21, 30, 31, 50, 51, 100, 101, 128, 129, 255, 256}
Amounts == {Blank, -2, 0, 1, 2, 3, 200, 201, 202}
-----------------------------------------------------------------------------
(* The forms: what passes the client. *)

validateProductForm(f, mode) ==
  /\ mode = "create" => f.parent
  /\ within(f.text, 2, 255)
  /\ number(f.amount, 0, Unbounded)

validateCategoryForm(f, mode) ==
  /\ mode = "create" => f.parent
  /\ within(f.text, 2, 100)
  /\ number(f.amount, 0, Unbounded) /\ whole(f.amount)

\* `other` is the telephone number, `amount` the latitude.
validateBranchForm(f, mode) ==
  /\ mode = "create" => f.parent
  /\ within(f.text, 2, 100) /\ f.other > 0 /\ isJson(f)
  /\ optional(f.amount, number(f.amount, -90, 90))

validateTableForm(f, mode) ==
  /\ mode = "create" => f.parent /\ within(f.text, 1, 20)
  /\ number(f.amount, 1, 100)

\* `other` is the telephone number, `amount` the loyalty points.
validateCustomerForm(f, mode) ==
  /\ within(f.text, 1, 50) /\ looksLikeMail(f) /\ f.other <= 30
  /\ mode = "edit" => number(f.amount, 0, Unbounded)

\* `other` is the password, which an edit may leave empty; `parent` the roles.
validateStaffForm(f, mode) ==
  /\ within(f.text, 1, 100) /\ looksLikeMail(f)
  /\ IF mode = "create" THEN within(f.other, 8, 128) /\ f.parent
     ELSE f.other = 0 \/ f.other >= 8
-----------------------------------------------------------------------------
(* The DTOs: what the ValidationPipe lets through. *)

createProductDto(f) == f.parent /\ within(f.text, 2, 255) /\ number(f.amount, 0, Unbounded)
updateProductDto(f) == within(f.text, 2, 255) /\ number(f.amount, 0, Unbounded)

createCategoryDto(f) ==
  f.parent /\ within(f.text, 2, 100) /\ number(f.amount, 0, Unbounded) /\ whole(f.amount)
updateCategoryDto(f) == within(f.text, 2, 100) /\ number(f.amount, 0, Unbounded) /\ whole(f.amount)

createBranchDto(f) == f.parent /\ within(f.text, 2, 100) /\ f.other > 0 /\ isObject(f)
updateBranchDto(f) ==
  /\ within(f.text, 2, 100) /\ within(f.other, 1, 50) /\ isObjectOrNull(f)
  /\ optional(f.amount, number(f.amount, -90, 90))

createTableDto(f) == f.parent /\ f.text > 0 /\ number(f.amount, 1, 100) /\ whole(f.amount)
updateTableDto(f) == number(f.amount, 1, 100) /\ whole(f.amount)

createCustomerDto(f) == f.text > 0 /\ isEmail(f)
updateCustomerDto(f) ==
  /\ within(f.text, 1, 100) /\ isEmail(f)
  /\ f.other = 0 \/ within(f.other, 1, 50)
  /\ number(f.amount, 0, Unbounded) /\ whole(f.amount)

createUserDto(f) == within(f.text, 1, 100) /\ isEmail(f) /\ within(f.other, 8, 128)
updateUserDto(f) == within(f.text, 1, 100) /\ isEmail(f) /\ (f.other = 0 \/ within(f.other, 8, 128))
-----------------------------------------------------------------------------
Samples == [parent : BOOLEAN, text : Lengths, other : Lengths, amount : Amounts,
            special : {"proper", "passable", "null", "bad"}]
EmptyForm == [parent |-> FALSE, text |-> 0, other |-> 0, amount |-> Blank, special |-> "bad"]

FormInit == filled = EmptyForm
\* The operator fills the form in.
Fill == filled = EmptyForm /\ filled' \in Samples

wholeAmount(f) == f.amount = Blank \/ whole(f.amount)

\* What the server refuses of what a form has accepted: another JSON value than an object for the hours of a
\* branch (null only when it is created), something that is an address to the form only, a
\* fraction of a seat or of a loyalty point, a branch's telephone number or a password that
\* is edited and too long.
branchSlips(f, mode) == IF mode = "create" THEN ~isObject(f) ELSE ~isObjectOrNull(f) \/ f.other > 50
staffSlips(f, mode) == ~isEmail(f) \/ (mode = "edit" /\ f.other > 128)
tableSlips(f) == ~wholeAmount(f)
customerSlips(f, mode) == ~isEmail(f) \/ (mode = "edit" /\ ~wholeAmount(f))

\* "These rules mirror the server DTOs": the product and category forms let nothing through
\* that the server refuses; the other four let through exactly what slips, of all they
\* accept: the server refuses that, and nothing else.
FormsMirrorDtos ==
  /\ validateProductForm(filled, "create") => createProductDto(filled)
  /\ validateProductForm(filled, "edit") => updateProductDto(filled)
  /\ validateCategoryForm(filled, "create") => createCategoryDto(filled)
  /\ validateCategoryForm(filled, "edit") => updateCategoryDto(filled)
  /\ validateBranchForm(filled, "create") => (createBranchDto(filled) <=> ~branchSlips(filled, "create"))
  /\ validateBranchForm(filled, "edit") => (updateBranchDto(filled) <=> ~branchSlips(filled, "edit"))
  /\ validateStaffForm(filled, "create") => (createUserDto(filled) <=> ~staffSlips(filled, "create"))
  /\ validateStaffForm(filled, "edit") => (updateUserDto(filled) <=> ~staffSlips(filled, "edit"))
  /\ validateTableForm(filled, "create") => (createTableDto(filled) <=> ~tableSlips(filled))
  /\ validateTableForm(filled, "edit") => (updateTableDto(filled) <=> ~tableSlips(filled))
  /\ validateCustomerForm(filled, "create") => (createCustomerDto(filled) <=> ~customerSlips(filled, "create"))
  /\ validateCustomerForm(filled, "edit") => (updateCustomerDto(filled) <=> ~customerSlips(filled, "edit"))
=============================================================================
