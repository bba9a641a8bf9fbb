------------------------ MODULE OrderLifecycleProofs ------------------------
(***************************************************************************)
(* Theorems about OrderLifecycle, for any set of requests.  The inductive  *)
(* invariant records what a handler may rely on at each await although the *)
(* row may have changed since it read it.                                  *)
(***************************************************************************)
EXTENDS OrderLifecycle, TLAPS

\* The statuses the order has been in.
Reached == {"PENDING"} \cup {audit[i].new : i \in 1..Len(audit)}

\* Every status the order has been in was entered after its earlier stages.
StatusReached == status \in Reached /\ EarlierStages(status) \subseteq Reached

\* What the handler of r may rely on, whatever the row says by now.
HandlerInv(r) ==
  /\ pc[r] = "write" => target[r] \in OrderStatus /\ EarlierStages(target[r]) \subseteq Reached
  /\ pc[r] \in {"pdf", "invoice"} => target[r] = "COMPLETED" /\ "COMPLETED" \in Reached
  /\ pc[r] = "invoice" => pdfUrl[r] \in PdfUrls
  /\ pdfUrl[r] = "stored" => r \in pdfs
  /\ pc[r] = "emit" => /\ target[r] \in OrderStatus
                       /\ target[r] = "COMPLETED" => invoice # None /\ invoice.by = r

\* The inductive invariant.
IInv ==
  /\ TypeOK
  /\ StatusReached
  /\ \A r \in Requests : HandlerInv(r)
  /\ StagesInOrder
  /\ AuditIsChain
  /\ CompletionAnnouncedOnce
  /\ InvoiceIsJustified

-----------------------------------------------------------------------------
\* A permitted transition needs no stage the order has not been through.
LEMMA TransitionStages ==
  ASSUME NEW s \in OrderStatus, NEW t \in allowedTransitions(s)
  PROVE  t \in OrderStatus /\ EarlierStages(t) \subseteq EarlierStages(s) \cup {s}
BY DEF OrderStatus, allowedTransitions, EarlierStages

\* Only COMPLETED is announced as "order.completed".
LEMMA CompletedEvent ==
  ASSUME NEW s \in OrderStatus
  PROVE  /\ mapStatusToEvent(s) \in OrderEvents
         /\ mapStatusToEvent(s) = "order.completed" => s = "COMPLETED"
BY DEF OrderStatus, mapStatusToEvent, OrderEvents

\* The trigger extends the chain of the audit log and the reached statuses.
LEMMA TriggerStep ==
  ASSUME TypeOK, StatusReached, StagesInOrder, AuditIsChain,
         NEW t \in OrderStatus, EarlierStages(t) \subseteq Reached,
         status' = t, log_order_status_change(status, t)
  PROVE  /\ audit' \in Seq(AuditRow)
         /\ Reached' = Reached \cup {t}
         /\ StagesInOrder'
         /\ AuditIsChain'
<1>1. CASE status = t
  <2>1. audit' = audit
    BY <1>1 DEF log_order_status_change
  <2> QED BY <2>1, <1>1 DEF TypeOK, StatusReached, Reached, StagesInOrder, AuditIsChain
<1>2. CASE status # t
  <2> DEFINE row == [old |-> status, new |-> t]
  <2>1. audit' = Append(audit, row) /\ row \in AuditRow
    BY <1>2 DEF log_order_status_change, TypeOK, AuditRow
  <2>2. /\ audit' \in Seq(AuditRow) /\ Len(audit') = Len(audit) + 1
        /\ Len(audit) \in Nat
        /\ \A i \in 1..Len(audit) : audit'[i] = audit[i]
        /\ audit'[Len(audit) + 1] = row
    BY <2>1 DEF TypeOK
  <2>3. Reached' = Reached \cup {t}
    BY <2>2 DEF Reached
  <2>4. StagesInOrder'
    <3> SUFFICES ASSUME NEW i \in 1..Len(audit'), NEW p \in EarlierStages(audit'[i].new),
                        p # "PENDING"
                 PROVE  \E j \in 1..(i - 1) : audit'[j].new = p
      BY DEF StagesInOrder
    <3>1. CASE i \in 1..Len(audit)
      <4>1. PICK j \in 1..(i - 1) : audit[j].new = p
        BY <3>1, <2>2 DEF StagesInOrder
      <4> QED BY <4>1, <3>1, <2>2
    <3>2. CASE i = Len(audit) + 1
      <4>1. p \in Reached
        BY <3>2, <2>2
      <4> QED BY <4>1, <3>2, <2>2 DEF Reached
    <3> QED BY <3>1, <3>2, <2>2
  <2>5. AuditIsChain'
    <3>1. audit' # << >> /\ status' = audit'[Len(audit')].new
      BY <2>1, <2>2
    <3>2. ASSUME NEW i \in 1..Len(audit')
          PROVE  /\ audit'[i].old # audit'[i].new
                 /\ audit'[i].old = IF i = 1 THEN "PENDING" ELSE audit'[i - 1].new
      <4>1. CASE i \in 1..Len(audit)
        <5>1. /\ audit[i].old # audit[i].new
              /\ audit[i].old = IF i = 1 THEN "PENDING" ELSE audit[i - 1].new
          BY <4>1 DEF AuditIsChain
        <5>2. audit'[i] = audit[i] /\ (i # 1 => audit'[i - 1] = audit[i - 1])
          BY <4>1, <2>2
        <5> QED BY <5>1, <5>2
      <4>2. CASE i = Len(audit) + 1
        <5>1. CASE audit = << >>
          BY <5>1, <4>2, <2>2, <1>2 DEF AuditIsChain
        <5>2. CASE audit # << >>
          <6>1. Len(audit) \in 1..Len(audit) /\ i # 1 /\ i - 1 = Len(audit)
            BY <5>2, <4>2, <2>2 DEF TypeOK
          <6> QED BY <6>1, <5>2, <4>2, <2>2, <1>2 DEF AuditIsChain
        <5> QED BY <5>1, <5>2
      <4> QED BY <4>1, <4>2, <2>2
    <3> QED BY <3>1, <3>2 DEF AuditIsChain
  <2> QED BY <2>2, <2>3, <2>4, <2>5
<1> QED BY <1>1, <1>2

-----------------------------------------------------------------------------
\* A handler's facts survive a step that leaves the handler where it is and
\* removes nothing it relies on.
LEMMA HandlerKeeps ==
  ASSUME NEW r \in Requests, HandlerInv(r),
         pc'[r] = pc[r], target'[r] = target[r], pdfUrl'[r] = pdfUrl[r],
         Reached \subseteq Reached', pdfs \subseteq pdfs',
         invoice # None => invoice' = invoice
  PROVE  HandlerInv(r)'
BY DEF HandlerInv

\* The row createOrder leaves, before any handler runs, satisfies IInv.
THEOREM InitIInv == Init => IInv
<1> SUFFICES ASSUME Init PROVE IInv
  OBVIOUS
<1>0. overlapped \in BOOLEAN
  BY DEF Init
<1>1. TypeOK
  BY <1>0 DEF Init, TypeOK, OrderStatus, Points, AuditRow
<1>2. audit = << >> /\ Len(audit) = 0
  BY DEF Init
<1>3. StatusReached
  BY DEF Init, StatusReached, Reached, EarlierStages
<1>4. \A r \in Requests : HandlerInv(r)
  BY NoneAssumption DEF Init, HandlerInv, PdfUrls
<1>5. StagesInOrder /\ AuditIsChain
  BY <1>2 DEF Init, StagesInOrder, AuditIsChain
<1>6. CompletionAnnouncedOnce /\ InvoiceIsJustified
  BY DEF Init, CompletionAnnouncedOnce, InvoiceIsJustified
<1> QED BY <1>1, <1>3, <1>4, <1>5, <1>6 DEF IInv


\* Each step of a handler, of the client or of the failing system keeps IInv.
THEOREM NextIInv == IInv /\ [Next]_vars => IInv'
<1> SUFFICES ASSUME IInv, [Next]_vars PROVE IInv'
  OBVIOUS
<1> USE DEF IInv
<1>1. ASSUME NEW r \in Requests, NEW s \in OrderStatus,
             pc[r] = "new",
             pc' = [pc EXCEPT ![r] = "write"] \/ pc' = [pc EXCEPT ![r] = "rejected"],
             pc'[r] = "write" => EarlierStages(s) \subseteq Reached,
             target' = [target EXCEPT ![r] = s],
             overlapped' \in BOOLEAN,
             UNCHANGED <<status, audit, invoice, pdfs, emitted, pdfUrl>>
      PROVE  IInv'
  <2>1. TypeOK'
    BY <1>1 DEF TypeOK, Points, InFlightPoints
  <2>2. Reached' = Reached
    BY <1>1 DEF Reached
  <2>3. StatusReached' /\ StagesInOrder' /\ AuditIsChain' /\ CompletionAnnouncedOnce'
          /\ InvoiceIsJustified'
    BY <1>1, <2>2 DEF StatusReached, StagesInOrder, AuditIsChain, CompletionAnnouncedOnce,
                      InvoiceIsJustified
  <2>4. ASSUME NEW q \in Requests PROVE HandlerInv(q)'
    <3>1. CASE q = r
      BY <3>1, <1>1, <2>2 DEF HandlerInv, TypeOK
    <3>2. CASE q # r
      BY <3>2, <1>1, <2>2, HandlerKeeps DEF TypeOK
    <3> QED BY <3>1, <3>2
  <2> QED BY <2>1, <2>3, <2>4
<1>2. ASSUME NEW r \in Requests, NEW s \in OrderStatus, UpdateOrderStatus(r, s) PROVE IInv'
  <2>1. pc[r] = "new" /\ overlapped' \in BOOLEAN
    BY <1>2 DEF UpdateOrderStatus, Start, TypeOK
  <2>2. pc'[r] = "write" => EarlierStages(s) \subseteq Reached
    <3> SUFFICES ASSUME pc'[r] = "write" PROVE EarlierStages(s) \subseteq Reached
      OBVIOUS
    <3>1. s \in allowedTransitions(status)
      BY <1>2 DEF UpdateOrderStatus, validateStateTransition, TypeOK
    <3> QED BY <3>1, TransitionStages DEF TypeOK, StatusReached
  <2> QED BY <2>1, <2>2, <1>1, <1>2 DEF UpdateOrderStatus
<1>3. ASSUME NEW r \in Requests, CancelOrder(r) PROVE IInv'
  <2>1. EarlierStages("CANCELLED") \subseteq Reached /\ "CANCELLED" \in OrderStatus
    BY DEF EarlierStages, OrderStatus
  <2>2. pc[r] = "new" /\ overlapped' \in BOOLEAN
    BY <1>3 DEF CancelOrder, Start, TypeOK
  <2> QED BY <2>1, <2>2, <1>1, <1>3 DEF CancelOrder
<1>4. ASSUME NEW r \in Requests, WriteStatus(r) PROVE IInv'
  <2>1. /\ target[r] \in OrderStatus /\ EarlierStages(target[r]) \subseteq Reached
        /\ status' = target[r] /\ log_order_status_change(status, target[r])
    BY <1>4 DEF WriteStatus, HandlerInv
  <2>2. /\ audit' \in Seq(AuditRow) /\ Reached' = Reached \cup {target[r]}
        /\ StagesInOrder' /\ AuditIsChain'
    BY <2>1, TriggerStep
  <2>3. TypeOK'
    BY <1>4, <2>1, <2>2 DEF WriteStatus, TypeOK, Points, InFlightPoints
  <2>4. StatusReached'
    BY <2>1, <2>2 DEF StatusReached
  <2>5. CompletionAnnouncedOnce'
    BY <1>4 DEF WriteStatus, CompletionAnnouncedOnce
  <2>6. InvoiceIsJustified'
    <3>1. "COMPLETED" \in Reached => "COMPLETED" \in Reached'
      BY <2>2
    <3> QED BY <3>1, <1>4 DEF WriteStatus, InvoiceIsJustified, Reached
  <2>7. ASSUME NEW q \in Requests PROVE HandlerInv(q)'
    <3>1. CASE q = r
      BY <3>1, <1>4, <2>1, <2>2 DEF WriteStatus, HandlerInv, TypeOK
    <3>2. CASE q # r
      BY <3>2, <1>4, <2>2, HandlerKeeps DEF WriteStatus, TypeOK
    <3> QED BY <3>1, <3>2
  <2> QED BY <2>2, <2>3, <2>4, <2>5, <2>6, <2>7
<1>5. ASSUME NEW r \in Requests, RenderAndStoreInvoicePdf(r) PROVE IInv'
  <2>1. TypeOK' /\ Reached' = Reached
    BY <1>5 DEF RenderAndStoreInvoicePdf, TypeOK, Reached, Points, InFlightPoints, PdfUrls
  <2>2. StatusReached' /\ StagesInOrder' /\ AuditIsChain' /\ CompletionAnnouncedOnce'
          /\ InvoiceIsJustified'
    BY <1>5, <2>1 DEF RenderAndStoreInvoicePdf, StatusReached, StagesInOrder, AuditIsChain,
                      CompletionAnnouncedOnce, InvoiceIsJustified
  <2>3. ASSUME NEW q \in Requests PROVE HandlerInv(q)'
    <3>1. CASE q = r
      BY <3>1, <1>5, <2>1 DEF RenderAndStoreInvoicePdf, HandlerInv, TypeOK, PdfUrls
    <3>2. CASE q # r
      BY <3>2, <1>5, <2>1, HandlerKeeps DEF RenderAndStoreInvoicePdf, TypeOK
    <3> QED BY <3>1, <3>2
  <2> QED BY <2>1, <2>2, <2>3
<1>6. ASSUME NEW r \in Requests, CreateInvoice(r) PROVE IInv'
  <2>1. Reached' = Reached /\ (invoice # None => invoice' = invoice)
    BY <1>6 DEF CreateInvoice, Reached
  <2>2. TypeOK'
    BY <1>6 DEF CreateInvoice, TypeOK, Points, InFlightPoints, Invoice, HandlerInv
  <2>3. StatusReached' /\ StagesInOrder' /\ AuditIsChain' /\ CompletionAnnouncedOnce'
    BY <1>6, <2>1 DEF CreateInvoice, StatusReached, StagesInOrder, AuditIsChain,
                      CompletionAnnouncedOnce
  <2>4. InvoiceIsJustified'
    <3>1. CASE invoice = None
      <4>1. /\ invoice' = [by |-> r, url |-> pdfUrl[r]]
            /\ pdfUrl[r] = "stored" => r \in pdfs
            /\ "COMPLETED" \in Reached
        BY <1>6, <3>1 DEF CreateInvoice, HandlerInv
      <4> QED BY <4>1, <1>6 DEF CreateInvoice, InvoiceIsJustified, Reached
    <3>2. CASE invoice # None
      BY <1>6, <3>2 DEF CreateInvoice, InvoiceIsJustified
    <3> QED BY <3>1, <3>2
  <2>5. ASSUME NEW q \in Requests PROVE HandlerInv(q)'
    <3>1. CASE q = r /\ invoice = None
      <4>1. [by |-> r, url |-> pdfUrl[r]] \in Invoice
        BY <1>6 DEF CreateInvoice, HandlerInv, Invoice
      <4>2. invoice' # None /\ invoice'.by = r
        BY <4>1, <3>1, <1>6, NoneAssumption DEF CreateInvoice
      <4> QED BY <4>2, <3>1, <1>6, <2>1 DEF CreateInvoice, HandlerInv, TypeOK, OrderStatus
    <3>2. CASE q = r /\ invoice # None
      BY <3>2, <1>6, <2>1 DEF CreateInvoice, HandlerInv, TypeOK
    <3>3. CASE q # r
      BY <3>3, <1>6, <2>1, HandlerKeeps DEF CreateInvoice, TypeOK
    <3> QED BY <3>1, <3>2, <3>3
  <2> QED BY <2>2, <2>3, <2>4, <2>5
<1>7. ASSUME NEW r \in Requests, EmitKdsEvent(r) PROVE IInv'
  <2>1. /\ target[r] \in OrderStatus
        /\ target[r] = "COMPLETED" => invoice # None /\ invoice.by = r
    BY <1>7 DEF EmitKdsEvent, HandlerInv
  <2>2. TypeOK' /\ Reached' = Reached
    BY <1>7, <2>1, CompletedEvent DEF EmitKdsEvent, TypeOK, Reached, Points, InFlightPoints
  <2>3. StatusReached' /\ StagesInOrder' /\ AuditIsChain' /\ InvoiceIsJustified'
    BY <1>7, <2>2 DEF EmitKdsEvent, StatusReached, StagesInOrder, AuditIsChain,
                      InvoiceIsJustified
  <2>4. CompletionAnnouncedOnce'
    BY <1>7, <2>1, CompletedEvent DEF EmitKdsEvent, CompletionAnnouncedOnce
  <2>5. ASSUME NEW q \in Requests PROVE HandlerInv(q)'
    <3>1. CASE q = r
      BY <3>1, <1>7, <2>2 DEF EmitKdsEvent, HandlerInv, TypeOK
    <3>2. CASE q # r
      BY <3>2, <1>7, <2>2, HandlerKeeps DEF EmitKdsEvent, TypeOK
    <3> QED BY <3>1, <3>2
  <2> QED BY <2>2, <2>3, <2>4, <2>5
<1>8. ASSUME pc' \in [Requests -> Points],
             \A r \in Requests : pc'[r] = pc[r] \/ pc'[r] = "failed",
             UNCHANGED <<status, audit, invoice, pdfs, emitted, target, pdfUrl, overlapped>>
      PROVE  IInv'
  <2>1. TypeOK' /\ Reached' = Reached
    BY <1>8 DEF TypeOK, Reached
  <2>2. StatusReached' /\ StagesInOrder' /\ AuditIsChain' /\ CompletionAnnouncedOnce'
          /\ InvoiceIsJustified'
    BY <1>8, <2>1 DEF StatusReached, StagesInOrder, AuditIsChain, CompletionAnnouncedOnce,
                      InvoiceIsJustified
  <2>3. ASSUME NEW q \in Requests PROVE HandlerInv(q)'
    BY <1>8, <2>1 DEF HandlerInv
  <2> QED BY <2>1, <2>2, <2>3
<1>9. ASSUME NEW r \in Requests, DatabaseError(r) PROVE IInv'
  BY <1>9, <1>8 DEF DatabaseError, TypeOK, Points
<1>10. CASE Crash
  BY <1>10, <1>8 DEF Crash, TypeOK, Points, InFlight
<1>11. CASE UNCHANGED vars
  BY <1>11, <1>8 DEF vars, TypeOK
<1> QED BY <1>2, <1>3, <1>4, <1>5, <1>6, <1>7, <1>9, <1>10, <1>11 DEF Next, Step

\* The inductive invariant holds in every reachable state.
THEOREM Inductive == Spec => []IInv
BY InitIInv, NextIInv, PTL DEF Spec


\* Type correctness of the order lifecycle.
THEOREM TypeCorrect == Spec => []TypeOK
BY Inductive, PTL DEF IInv

\* However many handlers overlap on stale reads, no kitchen stage is skipped.
THEOREM StagesNeverSkipped == Spec => []StagesInOrder
BY Inductive, PTL DEF IInv

\* The trigger's audit log is a complete chain up to the current status.
THEOREM AuditComplete == Spec => []AuditIsChain
BY Inductive, PTL DEF IInv

\* An issued invoice is never replaced: the unique orderId admits one insert.
THEOREM InvoiceNeverReplaced == Spec => InvoicePermanent
<1>1. [Next]_vars => [invoice # None => invoice' = invoice]_vars
  BY DEF Next, Step, UpdateOrderStatus, CancelOrder, WriteStatus, RenderAndStoreInvoicePdf,
         CreateInvoice, EmitKdsEvent, DatabaseError, Crash, vars
<1> QED BY <1>1, PTL DEF Spec, InvoicePermanent

-----------------------------------------------------------------------------
(* The invoice a completed order is owed *)

\* A completed order has its invoice, or a handler that owes it one, or one that
\* failed and may have owed it.
InvoiceOwed ==
  status = "COMPLETED" =>
    invoice # None \/ \E r \in Requests : pc[r] \in {"pdf", "invoice", "failed"}

\* The handler that completes the order owes the invoice until it has created it.
LEMMA NextInvoiceOwed ==
  ASSUME IInv, InvoiceOwed, [Next]_vars
  PROVE  InvoiceOwed'
<1> USE DEF InvoiceOwed
<1>1. ASSUME NEW r \in Requests, pc[r] \in {"new", "emit"}, NEW p \in Points,
             pc' = [pc EXCEPT ![r] = p], UNCHANGED <<status, invoice>>
      PROVE  InvoiceOwed'
  BY <1>1 DEF IInv, TypeOK
<1>2. ASSUME NEW r \in Requests, NEW s \in OrderStatus, UpdateOrderStatus(r, s) PROVE InvoiceOwed'
  BY <1>1, <1>2 DEF UpdateOrderStatus, Start, Points, InFlightPoints
<1>3. ASSUME NEW r \in Requests, CancelOrder(r) PROVE InvoiceOwed'
  BY <1>1, <1>3 DEF CancelOrder, Start, Points, InFlightPoints
<1>4. ASSUME NEW r \in Requests, WriteStatus(r) PROVE InvoiceOwed'
  BY <1>4 DEF WriteStatus, IInv, TypeOK
<1>5. ASSUME NEW r \in Requests, RenderAndStoreInvoicePdf(r) PROVE InvoiceOwed'
  BY <1>5 DEF RenderAndStoreInvoicePdf, IInv, TypeOK
<1>6. ASSUME NEW r \in Requests, CreateInvoice(r) PROVE InvoiceOwed'
  <2>1. CASE invoice = None
    <3>1. [by |-> r, url |-> pdfUrl[r]] \in Invoice
      BY <1>6 DEF CreateInvoice, IInv, HandlerInv, Invoice
    <3> QED BY <3>1, <2>1, <1>6, NoneAssumption DEF CreateInvoice
  <2>2. CASE invoice # None
    BY <1>6, <2>2 DEF CreateInvoice
  <2> QED BY <2>1, <2>2
<1>7. ASSUME NEW r \in Requests, EmitKdsEvent(r) PROVE InvoiceOwed'
  BY <1>1, <1>7 DEF EmitKdsEvent, Points
<1>8. ASSUME NEW r \in Requests, DatabaseError(r) PROVE InvoiceOwed'
  BY <1>8 DEF DatabaseError, IInv, TypeOK
<1>9. CASE Crash
  BY <1>9 DEF Crash
<1>10. CASE UNCHANGED vars
  BY <1>10 DEF vars
<1> QED BY <1>2, <1>3, <1>4, <1>5, <1>6, <1>7, <1>8, <1>9, <1>10 DEF Next, Step

\* Completion, invoice and announcement go together: no invoice and no announcement
\* without the completion, and no completion whose invoice is missing once every
\* handler has returned, unless one of them failed.
THEOREM InvoiceFollows == Spec => []InvoiceFollowsCompletion
<1>1. Init => InvoiceOwed
  BY DEF Init, InvoiceOwed
<1>2. IInv /\ InvoiceOwed => InvoiceFollowsCompletion
  BY DEF IInv, InvoiceOwed, InvoiceFollowsCompletion, CompletedOrderIsInvoiced, InFlight,
         InFlightPoints
<1> QED BY <1>1, <1>2, NextInvoiceOwed, Inductive, PTL DEF Spec

-----------------------------------------------------------------------------
(* Requests that do not overlap *)

\* What a lone handler may rely on: the row is as it read it.
LoneHandlerInv(r) ==
  /\ \A q \in InFlight : r \in InFlight => q = r
  /\ pc[r] = "write" =>
       \/ target[r] \in allowedTransitions(status)
       \/ target[r] = "CANCELLED" /\ status # "COMPLETED"
  /\ pc[r] \in {"pdf", "invoice"} => status = "COMPLETED"

SerialInv == status # "DRAFT" /\ \A r \in Requests : LoneHandlerInv(r)

\* overlapped is a history variable: once true it stays true.
LEMMA OverlapStays ==
  ASSUME ~overlapped', [Next]_vars
  PROVE  ~overlapped
BY DEF Next, Step, Start, UpdateOrderStatus, CancelOrder, WriteStatus,
       RenderAndStoreInvoicePdf, CreateInvoice, EmitKdsEvent, DatabaseError, Crash, vars

\* A step of a lone handler, seen from the row it read.
LEMMA NextSerialInv ==
  ASSUME ~overlapped', IInv, SerialInv, [Next]_vars
  PROVE  SerialInv'
<1>0. ~overlapped
  BY OverlapStays
<1> USE DEF SerialInv
<1>1. ASSUME NEW r \in Requests, NEW s \in OrderStatus, Start(r),
             pc' = [pc EXCEPT ![r] = "write"] \/ pc' = [pc EXCEPT ![r] = "rejected"],
             pc'[r] = "write" => \/ s \in allowedTransitions(status)
                                 \/ s = "CANCELLED" /\ status # "COMPLETED",
             target' = [target EXCEPT ![r] = s], UNCHANGED status
      PROVE  SerialInv'
  <2>1. InFlight = {} /\ InFlight' \subseteq {r}
    BY <1>1 DEF Start, InFlight, IInv, TypeOK
  <2> QED BY <2>1, <1>1 DEF LoneHandlerInv, InFlight, InFlightPoints, IInv, TypeOK
<1>2. ASSUME NEW r \in Requests, NEW s \in OrderStatus, UpdateOrderStatus(r, s) PROVE SerialInv'
  <2>1. pc'[r] = "write" => s \in allowedTransitions(status)
    BY <1>2 DEF UpdateOrderStatus, validateStateTransition, IInv, TypeOK
  <2> QED BY <2>1, <1>1, <1>2 DEF UpdateOrderStatus
<1>3. ASSUME NEW r \in Requests, CancelOrder(r) PROVE SerialInv'
  <2>1. pc'[r] = "write" => status # "COMPLETED"
    BY <1>3 DEF CancelOrder, IInv, TypeOK
  <2> QED BY <2>1, <1>1, <1>3 DEF CancelOrder, OrderStatus
<1>4. ASSUME NEW r \in Requests, pc[r] \in InFlightPoints, NEW p \in Points \ {"write"},
             pc' = [pc EXCEPT ![r] = p], status' # "DRAFT",
             p \in {"pdf", "invoice"} => status' = "COMPLETED"
      PROVE  SerialInv'
  <2>1. r \in InFlight /\ InFlight \subseteq {r} /\ InFlight' \subseteq {r}
    BY <1>4 DEF LoneHandlerInv, InFlight, IInv, TypeOK
  <2>2. ASSUME NEW q \in Requests PROVE LoneHandlerInv(q)'
    BY <1>4, <2>1 DEF LoneHandlerInv, InFlight, InFlightPoints, IInv, TypeOK
  <2> QED BY <1>4, <2>2
<1>5. ASSUME NEW r \in Requests, WriteStatus(r) PROVE SerialInv'
  <2>1. target[r] # "DRAFT"
    BY <1>5 DEF WriteStatus, LoneHandlerInv, allowedTransitions
  <2>2. CASE target[r] = "COMPLETED"
    BY <1>4, <1>5, <2>1, <2>2 DEF WriteStatus, Points, InFlightPoints
  <2>3. CASE target[r] # "COMPLETED"
    BY <1>4, <1>5, <2>1, <2>3 DEF WriteStatus, Points, InFlightPoints
  <2> QED BY <2>2, <2>3
<1>6. ASSUME NEW r \in Requests, RenderAndStoreInvoicePdf(r) PROVE SerialInv'
  BY <1>4, <1>6 DEF RenderAndStoreInvoicePdf, LoneHandlerInv, Points, InFlightPoints
<1>7. ASSUME NEW r \in Requests, CreateInvoice(r) PROVE SerialInv'
  BY <1>4, <1>7 DEF CreateInvoice, LoneHandlerInv, Points, InFlightPoints
<1>8. ASSUME NEW r \in Requests, EmitKdsEvent(r) PROVE SerialInv'
  BY <1>4, <1>8 DEF EmitKdsEvent, Points, InFlightPoints
<1>9. ASSUME NEW r \in Requests, DatabaseError(r) PROVE SerialInv'
  BY <1>4, <1>9 DEF DatabaseError, Points, InFlightPoints
<1>10. CASE Crash
  BY <1>10 DEF Crash, LoneHandlerInv, InFlight, InFlightPoints
<1>11. CASE UNCHANGED vars
  BY <1>11 DEF vars, LoneHandlerInv, InFlight
<1> QED BY <1>2, <1>3, <1>5, <1>6, <1>7, <1>8, <1>9, <1>10, <1>11 DEF Next, Step

\* A lone handler's step is a step of the abstract order, or none.
LEMMA AbstractStep ==
  ASSUME ~overlapped', IInv, SerialInv, [Next]_vars
  PROVE  [Abstract!Next]_<<status, invoice # None>>
<1>1. ASSUME NEW r \in Requests, WriteStatus(r) PROVE Abstract!Advance \/ Abstract!Cancel
                                                       \/ UNCHANGED <<status, invoice>>
  <2>1. /\ status' = target[r] /\ invoice' = invoice
        /\ \/ target[r] \in allowedTransitions(status)
           \/ target[r] = "CANCELLED" /\ status # "COMPLETED"
        /\ status \in OrderStatus /\ status # "DRAFT"
    BY <1>1 DEF WriteStatus, SerialInv, LoneHandlerInv, IInv, TypeOK
  <2> QED BY <2>1 DEF Abstract!Advance, Abstract!Cancel, Abstract!Stages, allowedTransitions,
                      OrderStatus
<1>2. ASSUME NEW r \in Requests, CreateInvoice(r) PROVE Abstract!Invoice
                                                         \/ UNCHANGED <<status, invoice>>
  <2>1. CASE invoice = None
    <3>1. [by |-> r, url |-> pdfUrl[r]] \in Invoice /\ status = "COMPLETED"
      BY <1>2 DEF CreateInvoice, IInv, HandlerInv, Invoice, SerialInv, LoneHandlerInv
    <3> QED BY <3>1, <2>1, <1>2, NoneAssumption DEF CreateInvoice, Abstract!Invoice
  <2>2. CASE invoice # None
    BY <1>2, <2>2 DEF CreateInvoice
  <2> QED BY <2>1, <2>2
<1>3. ASSUME NEW r \in Requests,
             \/ \E s \in OrderStatus : UpdateOrderStatus(r, s)
             \/ CancelOrder(r) \/ RenderAndStoreInvoicePdf(r) \/ EmitKdsEvent(r)
             \/ DatabaseError(r)
      PROVE  UNCHANGED <<status, invoice>>
  BY <1>3 DEF UpdateOrderStatus, CancelOrder, RenderAndStoreInvoicePdf, EmitKdsEvent,
              DatabaseError
<1>4. Crash \/ UNCHANGED vars => UNCHANGED <<status, invoice>>
  BY DEF Crash, vars
<1> QED BY <1>1, <1>2, <1>3, <1>4 DEF Next, Step, Abstract!Next

\* As long as requests have not overlapped, updateOrderStatus and cancelOrder
\* implement the abstract order, through every crash and failing call.
THEOREM SerialImplements == Spec => ImplementsOrderMachine
<1> DEFINE LoneInv == overlapped \/ SerialInv
<1>1. Init => LoneInv /\ Abstract!Init
  BY DEF Init, SerialInv, LoneHandlerInv, InFlight, InFlightPoints, Abstract!Init
<1>2. IInv /\ LoneInv /\ [Next]_vars => LoneInv'
  BY NextSerialInv, OverlapStays DEF IInv, TypeOK
<1>3. IInv /\ LoneInv /\ [Next]_vars
        => [~overlapped' => [Abstract!Next]_<<status, invoice # None>>]_vars
  BY AbstractStep, OverlapStays
<1> QED BY <1>1, <1>2, <1>3, Inductive, PTL DEF Spec, ImplementsOrderMachine

=============================================================================
