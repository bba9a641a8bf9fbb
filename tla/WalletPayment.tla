---------------------------- MODULE WalletPayment ----------------------------
(***************************************************************************)
(* Wallet payments (apps/api/src/payment/wallet.service.ts): creating a    *)
(* charge at the provider and recording it, verifying a record against the *)
(* provider, and settling it from a provider notification.  The provider   *)
(* and the network are external: an answer may be lost after the charge    *)
(* was made, a query may fail, and a notification may be late, repeated or *)
(* lost.  settleFromWebhook is a method no controller calls yet.           *)
(***************************************************************************)

CONSTANTS
  Payments,   \* createWalletPayment requests, each on a rail of its own
  Verifiers,  \* verifyPayment requests
  Rail,       \* payment -> "stripe", "tap_payments" or "pos"
  None

ASSUME RailAssumption ==
  Rail \in [Payments -> {"stripe", "tap_payments", "pos"}]
ASSUME NoneAssumption ==
  None \notin Payments \cup {"PENDING", "PAID", "FAILED", "OPEN"}

VARIABLES
  charge,     \* payment -> the provider's charge: None, OPEN, PAID or FAILED
  notices,    \* <<payment, settled>> notifications the provider has sent
  row,        \* payment -> payments.status of its record, or None
  pc,         \* payment -> where createWalletPayment is
  verify,     \* verifier -> its point, payment and the status it works with
  delivering  \* the notices settleFromWebhook has looked its record up for

vars == <<charge, notices, row, pc, verify, delivering>>

Charge == {"OPEN", "PAID", "FAILED"}
Status == {"PENDING", "PAID", "FAILED"}
Terminal == {"PAID", "FAILED"}
Notice == Payments \X BOOLEAN
VerifyState ==
  [at : {"new", "fetch", "write", "done", "error"}, of : Payments \cup {None},
   status : Status \cup {None}]

TypeOK ==
  /\ charge \in [Payments -> Charge \cup {None}]
  /\ notices \subseteq Notice /\ delivering \subseteq Notice
  /\ row \in [Payments -> Status \cup {None}]
  /\ pc \in [Payments -> {"new", "persist", "done", "error"}]
  /\ verify \in [Verifiers -> VerifyState]

Init ==
  /\ charge = [p \in Payments |-> None]
  /\ notices = {} /\ delivering = {}
  /\ row = [p \in Payments |-> None]
  /\ pc = [p \in Payments |-> "new"]
  /\ verify = [v \in Verifiers |-> [at |-> "new", of |-> None, status |-> None]]

-----------------------------------------------------------------------------
(* createWalletPayment *)

\* What asking the rail may leave behind: the till needs no charge; an answer
\* that is lost or late fails the request although the charge was made.
railOutcomes(p) ==
  IF Rail[p] = "pos" THEN {<<None, "persist">>}
  ELSE {<<"OPEN", "persist">>, <<"OPEN", "error">>, <<None, "error">>}

\* createWalletPayment up to the answer of the rail; the order is payable.
CreateCharge(p) ==
  /\ pc[p] = "new"
  /\ \E o \in railOutcomes(p) :
       charge' = [charge EXCEPT ![p] = o[1]] /\ pc' = [pc EXCEPT ![p] = o[2]]
  /\ UNCHANGED <<notices, row, verify, delivering>>

\* paymentRepository.create with status PENDING.
RecordPayment(p) ==
  /\ pc[p] = "persist"
  /\ row' = [row EXCEPT ![p] = "PENDING"]
  /\ pc' = [pc EXCEPT ![p] = "done"]
  /\ UNCHANGED <<charge, notices, verify, delivering>>

\* The insert fails or the process dies before it.
RecordFails(p) ==
  /\ pc[p] = "persist"
  /\ pc' = [pc EXCEPT ![p] = "error"]
  /\ UNCHANGED <<charge, notices, row, verify, delivering>>

-----------------------------------------------------------------------------
(* The provider *)

\* The customer pays, or the charge is given up; either is final.
ProviderSettles(p) ==
  /\ charge[p] = "OPEN"
  /\ charge' = [charge EXCEPT ![p] = "PAID"]
  /\ notices' = notices \cup {<<p, TRUE>>}
  /\ UNCHANGED <<row, pc, verify, delivering>>

ProviderCancels(p) ==
  /\ charge[p] = "OPEN"
  /\ charge' = [charge EXCEPT ![p] = "FAILED"]
  /\ notices' = notices \cup {<<p, FALSE>>}
  /\ UNCHANGED <<row, pc, verify, delivering>>

\* An attempt is declined and reported; the customer may try again.
ProviderDeclines(p) ==
  /\ charge[p] = "OPEN" /\ Rail[p] = "stripe"
  /\ notices' = notices \cup {<<p, FALSE>>}
  /\ UNCHANGED <<charge, row, pc, verify, delivering>>

-----------------------------------------------------------------------------
(* verifyPayment *)

\* The record is looked up; an unknown reference is refused and a terminal
\* status is returned as it stands.
VerifyPayment(v, p) ==
  /\ verify[v].at = "new"
  /\ verify' = [verify EXCEPT ![v] =
       [at |-> IF row[p] = None THEN "error" ELSE IF row[p] \in Terminal THEN "done" ELSE "fetch",
        of |-> p, status |-> row[p]]]
  /\ UNCHANGED <<charge, notices, row, pc, delivering>>

\* Mutant: a provider that cannot be reached counts as settled.
fetchInventing(p) == IF charge[p] \in Terminal THEN {charge[p]} ELSE {"PAID"}

\* What fetchProviderStatus may answer: the provider's own status; the till
\* has none and is never settled here.
fetchProviderStatus(p) ==
  IF charge[p] \in Terminal THEN {charge[p]} ELSE {"PENDING"}

\* The answer arrives: the next status is the provider's, if it is final.
FetchStatus(v) ==
  LET p == verify[v].of
  IN /\ verify[v].at = "fetch"
     /\ \E s \in fetchProviderStatus(p) :
          verify' = [verify EXCEPT ![v].at = IF s = "PENDING" THEN "done" ELSE "write",
                                   ![v].status = s]
     /\ UNCHANGED <<charge, notices, row, pc, delivering>>

\* The provider cannot be reached: 503, nothing is assumed.
FetchFails(v) ==
  /\ verify[v].at = "fetch" /\ Rail[verify[v].of] # "pos"
  /\ verify' = [verify EXCEPT ![v].at = "error"]
  /\ UNCHANGED <<charge, notices, row, pc, delivering>>

\* Mutant: the record is reopened by the write.
WriteReopening(v) ==
  /\ verify[v].at = "write"
  /\ row' = [row EXCEPT ![verify[v].of] = IF @ = "PENDING" THEN verify[v].status ELSE "PENDING"]
  /\ verify' = [verify EXCEPT ![v].at = "done"]
  /\ UNCHANGED <<charge, notices, pc, delivering>>

\* paymentRepository.update by id, whatever the record says by now.
WriteStatus(v) ==
  /\ verify[v].at = "write"
  /\ row' = [row EXCEPT ![verify[v].of] = verify[v].status]
  /\ verify' = [verify EXCEPT ![v].at = "done"]
  /\ UNCHANGED <<charge, notices, pc, delivering>>

-----------------------------------------------------------------------------
(* settleFromWebhook *)

\* The lookup: a notice for an unknown record is dropped.  A notice stays in
\* notices, so it may be delivered again, in any order, or never.
ReceiveNotice(n) ==
  /\ n \in notices /\ row[n[1]] # None
  /\ delivering' = delivering \cup {n}
  /\ UNCHANGED <<charge, notices, row, pc, verify>>

\* The write, with no look at the status the record has.
SettleFromWebhook(n) ==
  /\ n \in delivering
  /\ row' = [row EXCEPT ![n[1]] = IF n[2] THEN "PAID" ELSE "FAILED"]
  /\ delivering' = delivering \ {n}
  /\ UNCHANGED <<charge, notices, pc, verify>>

Next ==
  \/ \E p \in Payments :
       \/ CreateCharge(p) \/ RecordPayment(p) \/ RecordFails(p)
       \/ ProviderSettles(p) \/ ProviderCancels(p) \/ ProviderDeclines(p)
  \/ \E v \in Verifiers :
       \/ \E p \in Payments : VerifyPayment(v, p)
       \/ FetchStatus(v) \/ FetchFails(v) \/ WriteStatus(v)
  \/ \E n \in Notice : ReceiveNotice(n) \/ SettleFromWebhook(n)

Spec == Init /\ [][Next]_vars

-----------------------------------------------------------------------------
\* verifyPayment and settleFromWebhook: a payment is recorded or reported as
\* PAID only when the provider has settled it, and as FAILED only when it said
\* so, through lost answers, failed queries, repeated and reordered notices;
\* hence a payment at the till is neither ("never an assumption").
OutcomeIsProviders ==
  LET Justified(p, s) == /\ s = "PAID" => charge[p] = "PAID"
                         /\ s = "FAILED" => <<p, FALSE>> \in notices
  IN /\ \A p \in Payments : Justified(p, row[p])
     /\ \A v \in Verifiers : Justified(verify[v].of, verify[v].status)

\* The records of createWalletPayment, verifyPayment and settleFromWebhook: what
\* they say, and what a verification answers, the provider has decided.
WalletInv ==
  /\ TypeOK
  /\ OutcomeIsProviders

\* verifyPayment, "Terminal states are not re-queried: they cannot change
\* back": once the record says what the provider decided, no verification,
\* however stale the record it started from, changes it; only a notice does
\* (settleFromWebhook writes whatever it is told).
SettledChangesOnlyByNotice ==
  [][\A p \in Payments :
       row[p] \in Terminal /\ row[p] = charge[p] /\ row'[p] # row[p] =>
         \E n \in delivering \ delivering' : n[1] = p]_vars
=============================================================================
