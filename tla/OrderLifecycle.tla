--------------------------- MODULE OrderLifecycle ---------------------------
(***************************************************************************)
(* One order and the HTTP requests that move it: updateOrderStatus and     *)
(* cancelOrder of apps/api/src/order/order.service.ts, step by step between *)
(* awaits, with the audit trigger of the database, the invoice generated   *)
(* on completion and the event each request broadcasts.  Requests          *)
(* interleave at every await, a database call may fail, and the API        *)
(* process may crash; the row, the audit log and the invoice survive.      *)
(***************************************************************************)
EXTENDS OrderTypes, Naturals, Sequences

CONSTANTS
  Requests,    \* the HTTP requests, each submitted at most once
  None         \* "no value": nothing read, no invoice, no target

AuditRow == [old : OrderStatus, new : OrderStatus]
PdfUrls == {"stored", "placeholder"}
Invoice == [by : Requests, url : PdfUrls]

ASSUME NoneAssumption == None \notin OrderStatus \cup PdfUrls \cup Invoice

VARIABLES
  status,      \* orders.status in the database
  audit,       \* audit_logs rows of this order, oldest first
  invoice,     \* None, or the row: the request that created it and its pdfUrl
  pdfs,        \* the requests whose rendered PDF was stored
  emitted,     \* <<request, event>> pairs broadcast to the KDS and webhooks
  pc,          \* where each request's handler is
  target,      \* the status each handler is about to write
  pdfUrl,      \* what renderAndStoreInvoicePdf returned to each handler
  overlapped   \* history: some request started while another was in flight

vars == <<status, audit, invoice, pdfs, emitted, pc, target, pdfUrl, overlapped>>

InFlightPoints == {"write", "pdf", "invoice", "emit"}
Points == InFlightPoints \cup {"new", "rejected", "failed", "done"}

InFlight == {r \in Requests : pc[r] \in InFlightPoints}

TypeOK ==
  /\ status \in OrderStatus
  /\ audit \in Seq(AuditRow)
  /\ invoice \in Invoice \cup {None}
  /\ pdfs \in SUBSET Requests
  /\ emitted \in SUBSET (Requests \X OrderEvents)
  /\ pc \in [Requests -> Points]
  /\ target \in [Requests -> OrderStatus \cup {None}]
  /\ pdfUrl \in [Requests -> PdfUrls \cup {None}]
  /\ overlapped \in BOOLEAN

-----------------------------------------------------------------------------
\* createOrder leaves the order PENDING; the trigger logs updates only.
Init ==
  /\ status = "PENDING"
  /\ audit = << >>
  /\ invoice = None
  /\ pdfs = {}
  /\ emitted = {}
  /\ pc = [r \in Requests |-> "new"]
  /\ target = [r \in Requests |-> None]
  /\ pdfUrl = [r \in Requests |-> None]
  /\ overlapped = FALSE

\* A request arrives; it may find others between two of their awaits.
Start(r) ==
  /\ pc[r] = "new"
  /\ overlapped' = (overlapped \/ InFlight # {})

\* Whether validateStateTransition lets the request through.
validateStateTransition(current, next) == next \in allowedTransitions(current)

\* updateOrderStatus up to its first write: findById, then the table lookup,
\* which either throws or lets the handler go on with what it read.
UpdateOrderStatus(r, s) ==
  /\ Start(r)
  /\ pc' = [pc EXCEPT ![r] =
              IF validateStateTransition(status, s) THEN "write" ELSE "rejected"]
  /\ target' = [target EXCEPT ![r] = s]
  /\ UNCHANGED <<status, audit, invoice, pdfs, emitted, pdfUrl>>

\* Mutant: the check that refuses to cancel a completed order is missing.
CancelOrderUnchecked(r) ==
  /\ Start(r)
  /\ pc' = [pc EXCEPT ![r] = "write"]
  /\ target' = [target EXCEPT ![r] = "CANCELLED"]
  /\ UNCHANGED <<status, audit, invoice, pdfs, emitted, pdfUrl>>

\* cancelOrder up to its write: only a COMPLETED order is refused, an already
\* cancelled one is written and announced again.
CancelOrder(r) ==
  /\ Start(r)
  /\ pc' = [pc EXCEPT ![r] = IF status = "COMPLETED" THEN "rejected" ELSE "write"]
  /\ target' = [target EXCEPT ![r] = "CANCELLED"]
  /\ UNCHANGED <<status, audit, invoice, pdfs, emitted, pdfUrl>>

\* Mutant: the trigger logs the written status under the wrong old value.
logStaleOldStatus(old, new) ==
  audit' = IF old # new THEN Append(audit, [old |-> "PENDING", new |-> new]) ELSE audit

\* The AFTER UPDATE trigger on orders: one row per change of status.
log_order_status_change(old, new) ==
  audit' = IF old # new THEN Append(audit, [old |-> old, new |-> new]) ELSE audit

\* orderRepository.update: the row takes the requested status whatever its
\* status is by now, and the trigger runs in the same statement.
WriteStatus(r) ==
  /\ pc[r] = "write"
  /\ status' = target[r]
  /\ log_order_status_change(status, target[r])
  /\ pc' = [pc EXCEPT ![r] = IF target[r] = "COMPLETED" THEN "pdf" ELSE "emit"]
  /\ UNCHANGED <<invoice, pdfs, emitted, target, pdfUrl, overlapped>>

\* Mutant: a failing PDF pipeline leaves the invoice without URL.
RenderWithoutFallback(r) ==
  /\ pc[r] = "pdf"
  /\ \/ pdfs' = pdfs \cup {r} /\ pdfUrl' = [pdfUrl EXCEPT ![r] = "stored"]
     \/ UNCHANGED <<pdfs, pdfUrl>>
  /\ pc' = [pc EXCEPT ![r] = "invoice"]
  /\ UNCHANGED <<status, audit, invoice, emitted, target, overlapped>>

\* generateInvoice up to the insert: display data degrades to defaults and a
\* failing PDF pipeline to a placeholder URL, so this part never throws.
RenderAndStoreInvoicePdf(r) ==
  /\ pc[r] = "pdf"
  /\ \/ /\ pdfs' = pdfs \cup {r}
        /\ pdfUrl' = [pdfUrl EXCEPT ![r] = "stored"]
     \/ /\ pdfUrl' = [pdfUrl EXCEPT ![r] = "placeholder"]
        /\ UNCHANGED pdfs
  /\ pc' = [pc EXCEPT ![r] = "invoice"]
  /\ UNCHANGED <<status, audit, invoice, emitted, target, overlapped>>

\* Mutant: the insert replaces the invoice the order already has.
UpsertInvoice(r) ==
  /\ pc[r] = "invoice"
  /\ invoice' = [by |-> r, url |-> pdfUrl[r]]
  /\ pc' = [pc EXCEPT ![r] = "emit"]
  /\ UNCHANGED <<status, audit, pdfs, emitted, target, pdfUrl, overlapped>>

\* Mutant: a failing insert is swallowed and the request answered.
CreateInvoiceSwallowing(r) ==
  /\ pc[r] = "invoice"
  /\ \/ invoice = None /\ invoice' = [by |-> r, url |-> pdfUrl[r]]
     \/ UNCHANGED invoice
  /\ pc' = [pc EXCEPT ![r] = "done"]
  /\ UNCHANGED <<status, audit, pdfs, emitted, target, pdfUrl, overlapped>>

\* invoiceRepository.create: orderId is unique, so a second insert throws out
\* of updateOrderStatus after the status has been written.
CreateInvoice(r) ==
  /\ pc[r] = "invoice"
  /\ IF invoice = None
     THEN /\ invoice' = [by |-> r, url |-> pdfUrl[r]]
          /\ pc' = [pc EXCEPT ![r] = "emit"]
     ELSE /\ pc' = [pc EXCEPT ![r] = "failed"]
          /\ UNCHANGED invoice
  /\ UNCHANGED <<status, audit, pdfs, emitted, target, pdfUrl, overlapped>>

\* emitKdsEvent: the broadcast and the webhook are fire-and-forget, so the
\* handler always returns after it.
EmitKdsEvent(r) ==
  /\ pc[r] = "emit"
  /\ emitted' = emitted \cup {<<r, mapStatusToEvent(target[r])>>}
  /\ pc' = [pc EXCEPT ![r] = "done"]
  /\ UNCHANGED <<status, audit, invoice, pdfs, target, pdfUrl, overlapped>>

\* A database call of the handler rejects (connection lost, or the random
\* invoice number is taken): the exception leaves the handler at once.
DatabaseError(r) ==
  /\ pc[r] \in {"write", "invoice"}
  /\ pc' = [pc EXCEPT ![r] = "failed"]
  /\ UNCHANGED <<status, audit, invoice, pdfs, emitted, target, pdfUrl, overlapped>>

\* The API process dies: every handler in flight is gone, the rows stay.
Crash ==
  /\ InFlight # {}
  /\ pc' = [r \in Requests |-> IF r \in InFlight THEN "failed" ELSE pc[r]]
  /\ UNCHANGED <<status, audit, invoice, pdfs, emitted, target, pdfUrl, overlapped>>

Step(r) ==
  \/ WriteStatus(r)
  \/ RenderAndStoreInvoicePdf(r)
  \/ CreateInvoice(r)
  \/ EmitKdsEvent(r)

Next ==
  \/ \E r \in Requests :
       \/ \E s \in OrderStatus : UpdateOrderStatus(r, s)
       \/ CancelOrder(r)
       \/ Step(r)
       \/ DatabaseError(r)
  \/ Crash

Spec == Init /\ [][Next]_vars

-----------------------------------------------------------------------------
(* Properties *)

\* updateOrderStatus and the trigger: however the handlers interleave, no
\* stage of the kitchen is skipped: a status enters the audit log only after
\* every stage before it has.
StagesInOrder ==
  \A i \in 1..Len(audit) : \A p \in EarlierStages(audit[i].new) :
    p = "PENDING" \/ \E j \in 1..(i - 1) : audit[j].new = p

\* log_order_status_change: the audit log is a complete chain from PENDING to
\* the status in the row, each entry starting where the one before it ended.
AuditIsChain ==
  /\ \A i \in 1..Len(audit) :
       /\ audit[i].old # audit[i].new
       /\ audit[i].old = IF i = 1 THEN "PENDING" ELSE audit[i - 1].new
  /\ status = IF audit = << >> THEN "PENDING" ELSE audit[Len(audit)].new

\* updateOrderStatus: "order.completed" is announced only by the handler that
\* created the order's invoice, hence once at most, even when several handlers
\* completed the order from the same stale read.
CompletionAnnouncedOnce ==
  \A e \in emitted : e[2] = "order.completed" =>
    /\ invoice # None
    /\ invoice.by = e[1]

\* generateInvoice: an invoice exists only for an order that was COMPLETED at
\* some moment, and a pdfUrl that names a stored file names one that is stored.
InvoiceIsJustified ==
  invoice # None =>
    /\ \E i \in 1..Len(audit) : audit[i].new = "COMPLETED"
    /\ invoice.url = "stored" => invoice.by \in pdfs

\* generateInvoice: an invoice, once issued, is never replaced or removed.
InvoicePermanent == [][invoice # None => invoice' = invoice]_vars

\* As long as no two requests on the order have overlapped, updateOrderStatus
\* and cancelOrder implement the abstract order, through every crash and failing
\* call: one stage at a time, final statuses final, one invoice.  (Overlapping
\* handlers validate a stale read and do leave a final status.)
Abstract == INSTANCE OrderMachine WITH invoiced <- (invoice # None)
ImplementsOrderMachine ==
  /\ Abstract!Init
  /\ [][~overlapped' => [Abstract!Next]_<<status, invoice # None>>]_vars

\* updateOrderStatus "automatically generates billing invoices upon successful
\* completion": when no handler is running, a completed order has its invoice,
\* unless a handler failed or died on the way; nothing makes up for it then.
CompletedOrderIsInvoiced ==
  /\ InFlight = {} /\ status = "COMPLETED"
  /\ \A r \in Requests : pc[r] # "failed"
  => invoice # None

\* The completion of an order, its invoice and the announcement go together: no
\* invoice without a completion, no announcement without the announcer's invoice,
\* and no completion left without one unless a handler failed (generateInvoice).
InvoiceFollowsCompletion ==
  /\ InvoiceIsJustified
  /\ CompletionAnnouncedOnce
  /\ CompletedOrderIsInvoiced
=============================================================================
