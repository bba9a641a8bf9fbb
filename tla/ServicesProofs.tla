--------------------------- MODULE ServicesProofs ---------------------------
(***************************************************************************)
(* Theorems about WalletPayment, Dispatch, PushTokens and KitchenTickets,  *)
(* which share no state, for any payments, verifications, jobs, limits,    *)
(* devices, users, requests, polls and bound on the clock.  What a         *)
(* verification carries from one await to the next is tied to what the     *)
(* provider has decided meanwhile, which is final; a job's place names the *)
(* one structure that holds it, the array or a drain; a device row is told *)
(* from its successors by its id, which is never given twice; and a ticket's *)
(* invariant says what a request may rely on at each of its awaits, which as *)
(* long as updates have not overlapped includes what it has read.          *)
(***************************************************************************)
EXTENDS WalletPayment, Dispatch, PushTokens, KitchenTickets, FiniteSetTheorems, TLAPS

(* Wallet payments *)

\* What the provider has told, it has decided; a failure it has also told.
NoticesAreTrue ==
  \A p \in Payments :
    /\ <<p, TRUE>> \in notices => charge[p] = "PAID"
    /\ charge[p] = "FAILED" => <<p, FALSE>> \in notices

\* createWalletPayment: nothing exists before the rail was asked, and no
\* record before the insert.
CreateInv(p) ==
  /\ pc[p] = "new" => charge[p] = None
  /\ pc[p] # "done" => row[p] = None

\* verifyPayment: a status it holds is one of an inserted record, and the one
\* about to be written is the charge's own, final one.
VerifyInv(v) ==
  /\ verify[v].at \in {"fetch", "write"} => verify[v].status # None
  /\ verify[v].status # None => verify[v].of \in Payments /\ pc[verify[v].of] = "done"
  /\ verify[v].at = "write" =>
       verify[v].status \in Terminal /\ verify[v].status = charge[verify[v].of]

\* settleFromWebhook: what is being delivered was sent, for an inserted record.
DeliveryInv(n) == n \in notices /\ pc[n[1]] = "done"

\* The inductive invariant.
WalletIInv ==
  /\ TypeOK
  /\ \A n \in delivering : DeliveryInv(n)
  /\ NoticesAreTrue
  /\ \A p \in Payments : CreateInv(p)
  /\ \A v \in Verifiers : VerifyInv(v)
  /\ OutcomeIsProviders

-----------------------------------------------------------------------------
\* Before the first request nothing was charged, told or recorded.
LEMMA WalletInitIInv == Init => WalletIInv
<1> SUFFICES ASSUME Init PROVE WalletIInv
  OBVIOUS
<1>1. TypeOK
  BY DEF Init, TypeOK, VerifyState
<1> QED
  BY <1>1, NoneAssumption
  DEF Init, WalletIInv, NoticesAreTrue, CreateInv, VerifyInv, DeliveryInv, OutcomeIsProviders, Terminal

\* createWalletPayment, its charge and its record keep WalletIInv.
LEMMA CreateSteps ==
  ASSUME WalletIInv, NEW p \in Payments,
         CreateCharge(p) \/ RecordPayment(p) \/ RecordFails(p)
  PROVE  WalletIInv'
<1> USE NoneAssumption DEF WalletIInv, TypeOK
<1>1. CASE CreateCharge(p)
  <2>1. PICK o \in railOutcomes(p) :
          charge' = [charge EXCEPT ![p] = o[1]] /\ pc' = [pc EXCEPT ![p] = o[2]]
    BY <1>1 DEF CreateCharge
  <2>2. o[1] \in {"OPEN", None} /\ o[2] \in {"persist", "error"}
    <3>1. o = <<None, "persist">> \/ o = <<"OPEN", "persist">> \/ o = <<"OPEN", "error">>
            \/ o = <<None, "error">>
      BY DEF railOutcomes
    <3> QED BY <3>1
  <2>3. /\ pc[p] = "new" /\ charge[p] = None /\ row[p] = None
        /\ UNCHANGED <<notices, row, verify, delivering>>
    BY <1>1 DEF CreateCharge, CreateInv
  <2>4. TypeOK'
    BY <2>1, <2>2, <2>3 DEF Charge
  <2>5. NoticesAreTrue'
    BY <2>1, <2>2, <2>3 DEF NoticesAreTrue
  <2>6. \A q \in Payments : CreateInv(q)'
    BY <2>1, <2>2, <2>3 DEF CreateInv
  <2>7. \A v \in Verifiers : VerifyInv(v)'
    BY <2>1, <2>2, <2>3 DEF VerifyInv, Terminal, VerifyState
  <2>8. \A n \in delivering' : DeliveryInv(n)'
    BY <2>1, <2>3 DEF DeliveryInv, Notice
  <2>9. OutcomeIsProviders'
    BY <2>1, <2>2, <2>3 DEF OutcomeIsProviders, VerifyInv
  <2> QED BY <2>4, <2>5, <2>6, <2>7, <2>8, <2>9
<1>2. CASE RecordPayment(p)
  <2>1. TypeOK'
    BY <1>2 DEF RecordPayment, Status
  <2>2. (\A q \in Payments : CreateInv(q)') /\ (\A v \in Verifiers : VerifyInv(v)')
    BY <1>2 DEF RecordPayment, CreateInv, VerifyInv
  <2>3. OutcomeIsProviders' /\ NoticesAreTrue' /\ \A n \in delivering' : DeliveryInv(n)'
    BY <1>2 DEF RecordPayment, OutcomeIsProviders, NoticesAreTrue, DeliveryInv, Notice
  <2> QED BY <2>1, <2>2, <2>3
<1>3. CASE RecordFails(p)
  <2>1. TypeOK' /\ (\A q \in Payments : CreateInv(q)') /\ (\A v \in Verifiers : VerifyInv(v)')
    BY <1>3 DEF RecordFails, CreateInv, VerifyInv
  <2>2. OutcomeIsProviders' /\ NoticesAreTrue' /\ \A n \in delivering' : DeliveryInv(n)'
    BY <1>3 DEF RecordFails, OutcomeIsProviders, NoticesAreTrue, DeliveryInv, Notice
  <2> QED BY <2>1, <2>2
<1> QED BY <1>1, <1>2, <1>3

\* The provider's decisions keep WalletIInv: a charge leaves OPEN once.
LEMMA ProviderSteps ==
  ASSUME WalletIInv, NEW p \in Payments,
         ProviderSettles(p) \/ ProviderCancels(p) \/ ProviderDeclines(p)
  PROVE  WalletIInv'
<1> USE NoneAssumption DEF WalletIInv, TypeOK
<1>1. /\ charge[p] = "OPEN" /\ charge'[p] \in Charge
      /\ charge' \in [Payments -> Charge \cup {None}]
      /\ \A q \in Payments \ {p} : charge'[q] = charge[q]
      /\ notices \subseteq notices' /\ notices' \subseteq notices \cup {<<p, TRUE>>, <<p, FALSE>>}
      /\ <<p, TRUE>> \in notices' => charge'[p] = "PAID" \/ <<p, TRUE>> \in notices
      /\ charge'[p] = "FAILED" => <<p, FALSE>> \in notices'
      /\ UNCHANGED <<row, pc, verify, delivering>>
  BY DEF ProviderSettles, ProviderCancels, ProviderDeclines, Charge
<1>2. TypeOK'
  <2>1. <<p, TRUE>> \in Notice /\ <<p, FALSE>> \in Notice
    BY DEF Notice
  <2> QED BY <1>1, <2>1
<1>3. NoticesAreTrue'
  BY <1>1 DEF NoticesAreTrue
<1>4. \A q \in Payments : CreateInv(q)'
  BY <1>1 DEF CreateInv
<1>5. \A v \in Verifiers : VerifyInv(v)'
  BY <1>1 DEF VerifyInv, Terminal, VerifyState
<1>6. \A n \in delivering' : DeliveryInv(n)'
  BY <1>1 DEF DeliveryInv
<1>7. OutcomeIsProviders'
  BY <1>1 DEF OutcomeIsProviders, VerifyInv
<1> QED BY <1>2, <1>3, <1>4, <1>5, <1>6, <1>7

\* verifyPayment keeps WalletIInv at each of its awaits.
LEMMA VerifySteps ==
  ASSUME WalletIInv, NEW v \in Verifiers,
         \/ \E p \in Payments : VerifyPayment(v, p)
         \/ FetchStatus(v) \/ FetchFails(v) \/ WriteStatus(v)
  PROVE  WalletIInv'
<1> USE NoneAssumption DEF WalletIInv, TypeOK
<1> DEFINE of == verify[v].of
<1>0. verify[v] \in VerifyState
  OBVIOUS
<1>1. ASSUME NEW p \in Payments, VerifyPayment(v, p)
      PROVE  WalletIInv'
  <2>1. TypeOK'
    BY <1>1 DEF VerifyPayment, VerifyState
  <2>2. (\A q \in Payments : CreateInv(q)') /\ (\A w \in Verifiers : VerifyInv(w)')
    BY <1>1 DEF VerifyPayment, CreateInv, VerifyInv
  <2>3. OutcomeIsProviders' /\ NoticesAreTrue' /\ \A n \in delivering' : DeliveryInv(n)'
    BY <1>1 DEF VerifyPayment, OutcomeIsProviders, NoticesAreTrue, DeliveryInv
  <2> QED BY <2>1, <2>2, <2>3
<1>2. CASE FetchStatus(v)
  <2>1. PICK s \in fetchProviderStatus(of) :
          verify' = [verify EXCEPT ![v].at = IF s = "PENDING" THEN "done" ELSE "write",
                                   ![v].status = s]
    BY <1>2 DEF FetchStatus
  <2>2. /\ of \in Payments /\ pc[of] = "done"
        /\ UNCHANGED <<charge, notices, row, pc, delivering>>
    BY <1>2 DEF FetchStatus, VerifyInv
  <2>3. s \in Status /\ (s # "PENDING" => s \in Terminal /\ s = charge[of])
    BY DEF fetchProviderStatus, Status, Terminal
  <2>4. TypeOK'
    BY <1>0, <2>1, <2>2, <2>3 DEF VerifyState
  <2>5. (\A q \in Payments : CreateInv(q)') /\ (\A w \in Verifiers : VerifyInv(w)')
    BY <1>0, <2>1, <2>2, <2>3 DEF VerifyState, CreateInv, VerifyInv, Status
  <2>6. NoticesAreTrue' /\ \A n \in delivering' : DeliveryInv(n)'
    BY <2>2 DEF NoticesAreTrue, DeliveryInv
  <2>7. OutcomeIsProviders'
    BY <1>0, <2>1, <2>2, <2>3 DEF OutcomeIsProviders, VerifyState, NoticesAreTrue
  <2> QED BY <2>4, <2>5, <2>6, <2>7
<1>3. CASE FetchFails(v)
  <2>1. TypeOK'
    BY <1>0, <1>3 DEF FetchFails, VerifyState
  <2>2. (\A q \in Payments : CreateInv(q)') /\ (\A w \in Verifiers : VerifyInv(w)')
    BY <1>0, <1>3 DEF FetchFails, VerifyState, CreateInv, VerifyInv
  <2>3. OutcomeIsProviders' /\ NoticesAreTrue' /\ \A n \in delivering' : DeliveryInv(n)'
    BY <1>0, <1>3 DEF FetchFails, VerifyState, OutcomeIsProviders, NoticesAreTrue, DeliveryInv
  <2> QED BY <2>1, <2>2, <2>3
<1>4. CASE WriteStatus(v)
  <2>1. /\ of \in Payments /\ pc[of] = "done"
        /\ verify[v].status \in Terminal /\ verify[v].status = charge[of]
        /\ row' = [row EXCEPT ![of] = verify[v].status]
        /\ verify' = [verify EXCEPT ![v].at = "done"]
        /\ UNCHANGED <<charge, notices, pc, delivering>>
    BY <1>4 DEF WriteStatus, VerifyInv
  <2>2. TypeOK'
    BY <1>0, <2>1 DEF VerifyState, Terminal, Status
  <2>3. (\A q \in Payments : CreateInv(q)') /\ (\A w \in Verifiers : VerifyInv(w)')
    BY <1>0, <2>1 DEF VerifyState, CreateInv, VerifyInv
  <2>4. OutcomeIsProviders' /\ NoticesAreTrue' /\ \A n \in delivering' : DeliveryInv(n)'
    BY <1>0, <2>1 DEF VerifyState, OutcomeIsProviders, NoticesAreTrue, DeliveryInv
  <2> QED BY <2>2, <2>3, <2>4
<1> QED BY <1>1, <1>2, <1>3, <1>4

\* settleFromWebhook keeps WalletIInv, whatever notices it is given and when.
LEMMA SettleSteps ==
  ASSUME WalletIInv, NEW n \in Notice, ReceiveNotice(n) \/ SettleFromWebhook(n)
  PROVE  WalletIInv'
<1> USE NoneAssumption DEF WalletIInv, TypeOK
<1>0. PICK p \in Payments, b \in BOOLEAN : n = <<p, b>> /\ n[1] = p /\ n[2] = b
  BY DEF Notice
<1>1. CASE ReceiveNotice(n)
  <2>1. TypeOK' /\ \A m \in delivering' : DeliveryInv(m)'
    BY <1>0, <1>1 DEF ReceiveNotice, DeliveryInv, CreateInv
  <2>2. (\A q \in Payments : CreateInv(q)') /\ (\A w \in Verifiers : VerifyInv(w)')
    BY <1>1 DEF ReceiveNotice, CreateInv, VerifyInv
  <2>3. OutcomeIsProviders' /\ NoticesAreTrue'
    BY <1>1 DEF ReceiveNotice, OutcomeIsProviders, NoticesAreTrue
  <2> QED BY <2>1, <2>2, <2>3
<1>2. CASE SettleFromWebhook(n)
  <2>1. /\ n \in notices /\ pc[p] = "done"
        /\ row' = [row EXCEPT ![p] = IF b THEN "PAID" ELSE "FAILED"]
        /\ delivering' = delivering \ {n}
        /\ UNCHANGED <<charge, notices, pc, verify>>
    BY <1>0, <1>2 DEF SettleFromWebhook, DeliveryInv
  <2>2. TypeOK' /\ \A m \in delivering' : DeliveryInv(m)'
    BY <2>1 DEF DeliveryInv, Status
  <2>3. (\A q \in Payments : CreateInv(q)') /\ (\A w \in Verifiers : VerifyInv(w)')
    BY <2>1 DEF CreateInv, VerifyInv
  <2>4. OutcomeIsProviders' /\ NoticesAreTrue'
    BY <1>0, <2>1 DEF OutcomeIsProviders, NoticesAreTrue
  <2> QED BY <2>2, <2>3, <2>4
<1> QED BY <1>1, <1>2

\* Every step keeps WalletIInv.
LEMMA WalletNextIInv == WalletIInv /\ [Next]_vars => WalletIInv'
<1> SUFFICES ASSUME WalletIInv, [Next]_vars PROVE WalletIInv'
  OBVIOUS
<1>1. CASE UNCHANGED vars
  BY <1>1
  DEF vars, WalletIInv, TypeOK, NoticesAreTrue, CreateInv, VerifyInv, DeliveryInv, OutcomeIsProviders
<1>2. CASE Next
  BY <1>2, CreateSteps, ProviderSteps, VerifySteps, SettleSteps DEF Next
<1> QED BY <1>1, <1>2

-----------------------------------------------------------------------------
\* The records of createWalletPayment, verifyPayment and settleFromWebhook say
\* only what the provider has decided: whatever answers are lost, queries fail
\* and notices repeat or change order, for any number of payments.
THEOREM WalletCorrect == Spec => []WalletInv
<1>1. WalletIInv => WalletInv
  BY DEF WalletIInv, WalletInv
<1> QED BY <1>1, WalletInitIInv, WalletNextIInv, PTL DEF Spec

\* verifyPayment: once a record agrees with the provider's final decision, no
\* verification that started from an older record changes it.
THEOREM SettledIsStable == Spec => SettledChangesOnlyByNotice
<1> DEFINE Stable ==
      \A p \in Payments :
        row[p] \in Terminal /\ row[p] = charge[p] /\ row'[p] # row[p] =>
          \E n \in delivering \ delivering' : n[1] = p
<1>1. WalletIInv /\ [Next]_vars => [Stable]_vars
  <2> SUFFICES ASSUME WalletIInv, Next, NEW p \in Payments,
                      row[p] \in Terminal, row[p] = charge[p], row'[p] # row[p]
               PROVE  \E n \in delivering \ delivering' : n[1] = p
    OBVIOUS
  <2> USE NoneAssumption DEF WalletIInv, TypeOK
  <2>1. ASSUME NEW q \in Payments, RecordPayment(q) PROVE FALSE
    BY <2>1 DEF RecordPayment, CreateInv, Terminal
  <2>2. ASSUME NEW v \in Verifiers, WriteStatus(v) PROVE FALSE
    BY <2>2 DEF WriteStatus, VerifyInv
  <2>3. ASSUME NEW n \in Notice, SettleFromWebhook(n)
        PROVE  \E m \in delivering \ delivering' : m[1] = p
    BY <2>3 DEF SettleFromWebhook
  <2>4. UNCHANGED row \/ (\E q \in Payments : RecordPayment(q))
          \/ (\E v \in Verifiers : WriteStatus(v)) \/ (\E n \in Notice : SettleFromWebhook(n))
    BY DEF Next, CreateCharge, RecordFails, ProviderSettles, ProviderCancels, ProviderDeclines,
           VerifyPayment, FetchStatus, FetchFails, ReceiveNotice
  <2> QED BY <2>1, <2>2, <2>3, <2>4
<1> QED BY <1>1, WalletInitIInv, WalletNextIInv, PTL DEF Spec, SettledChangesOnlyByNotice

-----------------------------------------------------------------------------
(* Notification jobs *)

Limit(channel) == IF channel = "webhook" THEN MaxSends ELSE 1

\* The array holds a job once.
Distinct(q) == \A i, k \in DOMAIN q : q[i] = q[k] => i = k
InQueue(q, j) == \E i \in DOMAIN q : q[i] = j

\* The array holds exactly the jobs whose place it is, and each job in hand is
\* in the hands of one drain.
PlacesInv ==
  /\ Distinct(queue)
  /\ \A j \in Jobs : job[j].at = "queue" <=> InQueue(queue, j)
  /\ \A c, d \in Jobs : drain[c] \in Jobs /\ drain[c] = drain[d] => c = d
  /\ \A j \in Jobs : job[j].at = "held" <=> \E d \in Jobs : drain[d] = j

\* The channels that may succeed in memory with nobody reached.
Unheard(channel) == channel \in {"email", "sms", "webhook"} \/ (channel = "push" /\ ~fcm)

\* No step reconfigures the deployment.
SameConfiguration == fcm' = fcm

\* What the attempts, copies and consumer of a job say at each place.
JobInv(j) ==
  /\ job[j].at = "new" => drain[j] = Off
  /\ job[j].at \in {"new", "queue", "timer"} => job[j].attempts < MaxAttempts
  /\ job[j].at \in {"new", "queue", "held", "timer"} => job[j].by = "memory"
  /\ job[j].at = "active" => job[j].by \in Processes
  /\ job[j].at \in {"dead", "failed"} => job[j].attempts = MaxAttempts
  /\ crashed = "none" =>
       /\ job[j].at # "done" => job[j].copies = 0
       /\ job[j].copies <= Limit(job[j].channel)
  /\ job[j].at = "done" /\ job[j].by = "memory" /\ job[j].copies = 0
       => Unheard(job[j].channel)

\* The inductive invariant of the jobs.
DispatchIInv == DispatchTypeOK /\ PlacesInv /\ \A j \in Jobs : JobInv(j)

\* One send: a failure sent nothing, only the worker lets an exception through,
\* and a broadcast, or a push through FCM, that the API calls a success reached someone.
LEMMA SendResults ==
  ASSUME fcm \in BOOLEAN,
         NEW channel \in Channels, NEW p \in Processes, NEW r \in processChannel(channel, p)
  PROVE  /\ r.copies \in Nat /\ r.copies <= Limit(channel)
         /\ r.success \in BOOLEAN /\ r.throws \in BOOLEAN
         /\ ~r.success => r.copies = 0
         /\ r.throws => ~r.success /\ p = "worker"
         /\ r.success /\ p = "api" /\ r.copies = 0 => Unheard(channel)
<1> DEFINE Fine(x) == /\ x.copies \in Nat /\ x.copies <= Limit(channel)
                      /\ x.success \in BOOLEAN /\ x.throws \in BOOLEAN
                      /\ ~x.success => x.copies = 0
                      /\ x.throws => ~x.success
                      /\ x.success /\ p = "api" /\ x.copies = 0 => Unheard(channel)
<1> DEFINE raw == CASE channel = "email" -> sendEmail
                    [] channel = "sms" -> sendSms
                    [] channel = "push" -> sendPushNotification \cup {Thrown}
                    [] channel = "webhook" -> dispatchEvent \cup {Thrown}
                    [] channel = "websocket" -> broadcastOrderEvent(p)
<1>1. Fine(Thrown) /\ Fine(Refused)
  BY DispatchAssumption DEF Thrown, Refused, Limit
<1>2. Fine(Sent(1))
  BY DispatchAssumption DEF Sent, Limit
<1>3. ASSUME NEW x \in raw PROVE Fine(x)
  <2>1. CASE channel \in {"email", "sms"}
    <3>1. Fine(Sent(0))
      BY <2>1 DEF Sent, Limit, Unheard
    <3> QED BY <1>1, <1>2, <1>3, <2>1, <3>1 DEF sendEmail, sendSms
  <2>2. CASE channel = "push"
    <3>1. ~fcm => Fine(Sent(0))
      BY <2>2 DEF Sent, Limit, Unheard
    <3> QED BY <1>1, <1>2, <1>3, <2>2, <3>1 DEF sendPushNotification
  <2>3. CASE channel = "webhook"
    <3>1. CASE x \in {Refused, Thrown}
      BY <1>1, <3>1
    <3>2. CASE x \notin {Refused, Thrown}
      <4>1. PICK y \in sendWithRetry : x = [success |-> TRUE, throws |-> FALSE, copies |-> y.copies]
        BY <1>3, <2>3, <3>2 DEF dispatchEvent
      <4>2. y.copies \in 0 .. MaxSends
        <5>1. CASE y \in [success : {TRUE}, copies : 1..MaxSends]
          <6>1. y.copies \in 1..MaxSends
            BY <5>1
          <6> QED BY <6>1, DispatchAssumption
        <5>2. CASE y \in [success : {FALSE}, copies : 0..MaxSends]
          BY <5>2
        <5> QED BY <5>1, <5>2 DEF sendWithRetry
      <4> QED BY <2>3, <4>1, <4>2, DispatchAssumption DEF Limit, Unheard
    <3> QED BY <3>1, <3>2
  <2>4. CASE channel = "websocket"
    <3>1. p # "api" => Fine(Sent(0))
      BY <2>4 DEF Sent, Limit
    <3> QED BY <1>1, <1>2, <1>3, <2>4, <3>1 DEF broadcastOrderEvent
  <2> QED BY <2>1, <2>2, <2>3, <2>4 DEF Channels
<1> HIDE DEF raw, Fine
<1>4. r \in IF p = "api" THEN {IF x.throws THEN Refused ELSE x : x \in raw} ELSE raw
  BY DEF processChannel, raw
<1>5. Fine(r) /\ (p = "api" => ~r.throws)
  <2>1. CASE p = "api"
    <3>1. PICK x \in raw : r = IF x.throws THEN Refused ELSE x
      BY <1>4, <2>1
    <3>2. ~Refused.throws
      BY DEF Refused
    <3>3. x.throws \in BOOLEAN
      BY <1>3 DEF Fine
    <3> QED BY <1>1, <1>3, <3>1, <3>2, <3>3
  <2>2. CASE p # "api"
    BY <1>3, <1>4, <2>2
  <2> QED BY <2>1, <2>2
<1>6. p = "api" \/ p = "worker"
  BY DEF Processes
<1> QED BY <1>5, <1>6 DEF Fine

\* A job that is not in the array may be appended to it.
LEMMA AppendDistinct ==
  ASSUME NEW q \in Seq(Jobs), NEW j \in Jobs, Distinct(q), ~InQueue(q, j)
  PROVE  /\ Append(q, j) \in Seq(Jobs) /\ Distinct(Append(q, j))
         /\ \A x \in Jobs : InQueue(Append(q, j), x) <=> InQueue(q, x) \/ x = j
<1> DEFINE a == Append(q, j)
<1>1. /\ a \in Seq(Jobs) /\ Len(q) \in Nat
      /\ DOMAIN a = 1..(Len(q) + 1) /\ DOMAIN q = 1..Len(q)
      /\ \A i \in 1..Len(q) : a[i] = q[i]
      /\ a[Len(q) + 1] = j
  OBVIOUS
<1> HIDE DEF a
<1>2. Distinct(a)
  BY <1>1 DEF Distinct, InQueue
<1>3. \A x \in Jobs : InQueue(a, x) <=> InQueue(q, x) \/ x = j
  BY <1>1 DEF InQueue
<1> QED BY <1>1, <1>2, <1>3 DEF a

\* Taking the head of the array leaves the other jobs in it.
LEMMA ShiftDistinct ==
  ASSUME NEW q \in Seq(Jobs), q # << >>, Distinct(q)
  PROVE  /\ Head(q) \in Jobs /\ InQueue(q, Head(q))
         /\ Tail(q) \in Seq(Jobs) /\ Distinct(Tail(q))
         /\ \A x \in Jobs : InQueue(Tail(q), x) <=> InQueue(q, x) /\ x # Head(q)
<1> DEFINE t == Tail(q)
<1>1. /\ Head(q) = q[1] /\ Head(q) \in Jobs /\ t \in Seq(Jobs)
      /\ Len(q) \in Nat \ {0}
      /\ DOMAIN t = 1..(Len(q) - 1) /\ DOMAIN q = 1..Len(q)
      /\ \A i \in 1..(Len(q) - 1) : t[i] = q[i + 1]
  OBVIOUS
<1> HIDE DEF t
<1>2. InQueue(q, Head(q))
  BY <1>1 DEF InQueue
<1>3. Distinct(t)
  <2> SUFFICES ASSUME NEW i \in DOMAIN t, NEW k \in DOMAIN t, t[i] = t[k] PROVE i = k
    BY DEF Distinct
  <2>1. i + 1 \in DOMAIN q /\ k + 1 \in DOMAIN q /\ q[i + 1] = q[k + 1]
    BY <1>1
  <2>2. i + 1 = k + 1
    BY <2>1 DEF Distinct
  <2> QED BY <1>1, <2>2
<1>4. ASSUME NEW x \in Jobs PROVE InQueue(t, x) <=> InQueue(q, x) /\ x # Head(q)
  <2>1. ASSUME InQueue(t, x) PROVE InQueue(q, x) /\ x # Head(q)
    <3>1. PICK i \in DOMAIN t : t[i] = x
      BY <2>1 DEF InQueue
    <3>2. i + 1 \in DOMAIN q /\ q[i + 1] = x /\ 1 \in DOMAIN q /\ i + 1 # 1
      BY <1>1, <3>1
    <3> QED BY <1>1, <3>2 DEF InQueue, Distinct
  <2>2. ASSUME InQueue(q, x), x # Head(q) PROVE InQueue(t, x)
    <3>1. PICK i \in DOMAIN q : q[i] = x
      BY <2>2 DEF InQueue
    <3>2. i # 1 /\ i - 1 \in DOMAIN t /\ t[i - 1] = x
      BY <1>1, <2>2, <3>1
    <3> QED BY <3>2 DEF InQueue
  <2> QED BY <2>1, <2>2
<1> QED BY <1>1, <1>2, <1>3, <1>4 DEF t

\* What is said with InQueue and the drains is what JobIsInOnePlace counts.
LEMMA PlacesCounted ==
  ASSUME DispatchTypeOK, PlacesInv
  PROVE  JobIsInOnePlace
<1> SUFFICES ASSUME NEW j \in Jobs
             PROVE  /\ Count(j) = IF job[j].at = "queue" THEN 1 ELSE 0
                    /\ Cardinality(Holders(j)) = IF job[j].at = "held" THEN 1 ELSE 0
  BY DEF JobIsInOnePlace
<1>1. Count(j) = IF job[j].at = "queue" THEN 1 ELSE 0
  <2> DEFINE spots == {i \in DOMAIN queue : queue[i] = j}
  <2>1. CASE job[j].at = "queue"
    <3>1. PICK i \in DOMAIN queue : queue[i] = j
      BY <2>1 DEF PlacesInv, InQueue
    <3>2. spots = {i}
      BY <3>1 DEF PlacesInv, Distinct
    <3> QED BY <2>1, <3>2, FS_Singleton DEF Count
  <2>2. CASE job[j].at # "queue"
    <3>1. spots = {}
      BY <2>2 DEF PlacesInv, InQueue
    <3> QED BY <2>2, <3>1, FS_EmptySet DEF Count
  <2> QED BY <2>1, <2>2
<1>2. Cardinality(Holders(j)) = IF job[j].at = "held" THEN 1 ELSE 0
  <2>1. CASE job[j].at = "held"
    <3>1. PICK d \in Jobs : drain[d] = j
      BY <2>1 DEF PlacesInv
    <3>2. Holders(j) = {d}
      BY <3>1 DEF PlacesInv, Holders
    <3> QED BY <2>1, <3>2, FS_Singleton
  <2>2. CASE job[j].at # "held"
    <3>1. Holders(j) = {}
      BY <2>2 DEF PlacesInv, Holders
    <3> QED BY <2>2, <3>1, FS_EmptySet
  <2> QED BY <2>1, <2>2
<1> QED BY <1>1, <1>2

-----------------------------------------------------------------------------
\* Before the first dispatch.
LEMMA DispatchInitIInv == DispatchInit => DispatchIInv
<1> SUFFICES ASSUME DispatchInit PROVE DispatchIInv
  OBVIOUS
<1> USE DispatchAssumption, DrainAssumption DEF DispatchInit
<1>1. DispatchTypeOK
  BY DEF DispatchTypeOK, Job, Places, Channels
<1>2. PlacesInv
  BY DEF PlacesInv, Distinct, InQueue, Off
<1>3. \A j \in Jobs : JobInv(j)
  BY DEF JobInv, Limit
<1> QED BY <1>1, <1>2, <1>3 DEF DispatchIInv

\* A step of job j that moves it and nothing else in memory.
LEMMA JobMoves ==
  ASSUME DispatchIInv, SameConfiguration, NEW j \in Jobs, NEW new \in Job, job' = [job EXCEPT ![j] = new],
         JobInv(j)', UNCHANGED <<queue, drain, crashed>>,
         job[j].at \notin {"queue", "held"}, new.at \notin {"queue", "held"}
  PROVE  DispatchIInv'
<1>1. DispatchTypeOK'
  BY DEF DispatchIInv, DispatchTypeOK, SameConfiguration
<1>2. job'[j] = new /\ \A x \in Jobs \ {j} : job'[x] = job[x]
  BY DEF DispatchIInv, DispatchTypeOK
<1>3. PlacesInv'
  BY <1>2 DEF DispatchIInv, PlacesInv, InQueue
<1>4. \A x \in Jobs : JobInv(x)'
  BY <1>2 DEF DispatchIInv, JobInv, Unheard, SameConfiguration
<1> QED BY <1>1, <1>3, <1>4 DEF DispatchIInv

\* A job enters a queue with nothing but its place and channel changed.
LEMMA PlacedFacts ==
  ASSUME NEW j \in Jobs, NEW channel \in Channels, NEW at \in {"wait", "queue"}, job[j] \in Job
  PROVE  /\ Placed(j, at, channel) \in Job /\ Placed(j, at, channel).at = at
         /\ Placed(j, at, channel).attempts = job[j].attempts
         /\ Placed(j, at, channel).by = job[j].by /\ Placed(j, at, channel).copies = job[j].copies
         /\ Placed(j, at, channel).channel = channel
BY DEF Placed, Job, Places

\* dispatch: to BullMQ, to the array with a drain of its own, or to both.
LEMMA DispatchStep ==
  ASSUME DispatchIInv, SameConfiguration,
         NEW j \in Jobs, NEW channel \in Channels, dispatch(j, channel)
  PROVE  DispatchIInv'
<1> USE DispatchAssumption, DrainAssumption
<1>0. /\ DispatchTypeOK /\ PlacesInv /\ JobInv(j) /\ job[j].at = "new"
      /\ drain[j] = Off /\ crashed' = crashed /\ \A x \in Jobs : job[x] \in Job
  BY DEF DispatchIInv, DispatchTypeOK, dispatch, JobInv
<1> DEFINE new(x, at) == Placed(x, at, channel)
<1>1. ASSUME NEW x \in Jobs, NEW at \in {"wait", "queue"}
      PROVE  /\ new(x, at) \in Job /\ new(x, at).at = at /\ new(x, at).attempts = job[x].attempts
             /\ new(x, at).by = job[x].by /\ new(x, at).copies = job[x].copies
             /\ new(x, at).channel = channel
  BY <1>0, PlacedFacts
<1> HIDE DEF new
<1>2. CASE job' = [job EXCEPT ![j] = new(j, "wait")] /\ UNCHANGED <<queue, drain>>
  <2>1. job'[j] = new(j, "wait")
    BY <1>0, <1>2 DEF DispatchTypeOK
  <2>2. JobInv(j)'
    BY <1>0, <1>1, <1>2, <2>1 DEF JobInv, Limit, Unheard, SameConfiguration
  <2> QED BY <1>0, <1>1, <1>2, <2>2, JobMoves
<1>3. ASSUME NEW twins \in SUBSET (Jobs \ {j}), job' \in [Jobs -> Job],
             job'[j] = new(j, "queue"), \A x \in Jobs \ (twins \cup {j}) : job'[x] = job[x],
             \A x \in twins : job[x].at = "new" /\ job'[x] = new(x, "wait"),
             FallBack(j)
      PROVE  DispatchIInv'
  <2>1. queue' = Append(queue, j) /\ drain' = [drain EXCEPT ![j] = Loop]
    BY <1>3 DEF FallBack
  <2>2. drain'[j] = Loop /\ (\A d \in Jobs \ {j} : drain'[d] = drain[d])
    BY <1>0, <2>1 DEF DispatchTypeOK
  <2>3. /\ queue' \in Seq(Jobs) /\ Distinct(queue')
        /\ \A x \in Jobs : InQueue(queue', x) <=> InQueue(queue, x) \/ x = j
    <3>1. ~InQueue(queue, j) /\ queue \in Seq(Jobs)
      BY <1>0 DEF PlacesInv, DispatchTypeOK
    <3> QED BY <1>0, <2>1, <3>1, AppendDistinct DEF PlacesInv
  <2>4. \A x \in twins : /\ job'[x].at = "wait" /\ job'[x].attempts = job[x].attempts
                         /\ job'[x].by = job[x].by /\ job'[x].copies = job[x].copies
                         /\ job'[x].channel = channel
    BY <1>1, <1>3
  <2>5. DispatchTypeOK'
    BY <1>0, <1>3, <2>1, <2>3 DEF DispatchTypeOK, SameConfiguration
  <2>6. PlacesInv'
    <3>1. \A d \in Jobs : drain'[d] \in Jobs => d # j /\ drain'[d] = drain[d]
      BY <2>2
    <3>2. \A x \in Jobs : (\E d \in Jobs : drain'[d] = x) <=> (\E d \in Jobs : drain[d] = x)
      BY <1>0, <2>2, <3>1
    <3>3. \A x \in Jobs : job'[x].at = "held" <=> job[x].at = "held"
      BY <1>0, <1>1, <1>3, <2>4
    <3>4. \A x \in Jobs : job'[x].at = "queue" <=> job[x].at = "queue" \/ x = j
      BY <1>1, <1>3, <2>4
    <3> QED BY <1>0, <2>3, <3>1, <3>2, <3>3, <3>4 DEF PlacesInv
  <2>7. JobInv(j)'
    BY <1>0, <1>1, <1>3 DEF JobInv, Limit, Unheard, SameConfiguration
  <2>8. \A x \in Jobs \ (twins \cup {j}) : JobInv(x)'
    BY <1>0, <1>3, <2>2 DEF DispatchIInv, JobInv, Unheard, SameConfiguration
  <2>9. \A x \in twins : JobInv(x)'
    <3> SUFFICES ASSUME NEW x \in twins PROVE JobInv(x)'
      OBVIOUS
    <3>1. JobInv(x) /\ job[x].at = "new" /\ x \in Jobs
      BY <1>3 DEF DispatchIInv
    <3> QED BY <1>0, <2>4, <3>1 DEF JobInv, Limit, Unheard, SameConfiguration
  <2> QED BY <2>5, <2>6, <2>7, <2>8, <2>9 DEF DispatchIInv
<1>4. CASE job' = [job EXCEPT ![j] = new(j, "queue")] /\ FallBack(j)
  <2>1. job' \in [Jobs -> Job] /\ job'[j] = new(j, "queue") /\ \A x \in Jobs \ {j} : job'[x] = job[x]
    BY <1>0, <1>1, <1>4 DEF DispatchTypeOK
  <2> DEFINE nobody == {}
  <2>2. /\ nobody \in SUBSET (Jobs \ {j})
        /\ \A x \in Jobs \ (nobody \cup {j}) : job'[x] = job[x]
        /\ \A x \in nobody : job[x].at = "new" /\ job'[x] = new(x, "wait")
    BY <2>1
  <2> HIDE DEF nobody
  <2> QED BY <1>3, <1>4, <2>1, <2>2
<1>5. ASSUME NEW twin \in Jobs \ {j}, job[twin].at = "new", FallBack(j),
             job' = [job EXCEPT ![j] = new(j, "queue"), ![twin] = new(twin, "wait")]
      PROVE  DispatchIInv'
  <2>1. /\ job' \in [Jobs -> Job] /\ job'[j] = new(j, "queue") /\ job'[twin] = new(twin, "wait")
        /\ \A x \in Jobs \ {j, twin} : job'[x] = job[x]
    BY <1>0, <1>1, <1>5 DEF DispatchTypeOK
  <2> DEFINE twins == {twin}
  <2>2. /\ twins \in SUBSET (Jobs \ {j})
        /\ \A x \in Jobs \ (twins \cup {j}) : job'[x] = job[x]
        /\ \A x \in twins : job[x].at = "new" /\ job'[x] = new(x, "wait")
    BY <1>5, <2>1
  <2> HIDE DEF twins
  <2> QED BY <1>3, <1>5, <2>1, <2>2
<1> QED BY <1>2, <1>4, <1>5 DEF dispatch, new

\* A drain takes the head of the array.
LEMMA ShiftStep ==
  ASSUME DispatchIInv, SameConfiguration, NEW d \in Jobs, ShiftJob(d)
  PROVE  DispatchIInv'
<1> USE DispatchAssumption, DrainAssumption
<1>0. /\ DispatchTypeOK /\ PlacesInv /\ drain[d] = Loop /\ queue # << >> /\ queue \in Seq(Jobs)
      /\ drain' = [drain EXCEPT ![d] = Head(queue)] /\ queue' = Tail(queue) /\ crashed' = crashed
  BY DEF DispatchIInv, DispatchTypeOK, ShiftJob
<1>1. PICK j \in Jobs :
        /\ j = Head(queue) /\ InQueue(queue, j) /\ queue' \in Seq(Jobs) /\ Distinct(queue')
        /\ \A x \in Jobs : InQueue(queue', x) <=> InQueue(queue, x) /\ x # j
  BY <1>0, ShiftDistinct DEF PlacesInv
<1> DEFINE new == [job[j] EXCEPT !.at = "held", !.attempts = @ + 1]
<1>a. job' = [job EXCEPT ![j] = new]
  BY <1>0, <1>1 DEF ShiftJob, DispatchTypeOK
<1>2. job[j] \in Job /\ job[j].at = "queue" /\ JobInv(j)
  BY <1>0, <1>1 DEF DispatchIInv, DispatchTypeOK, PlacesInv
<1>3. job[j].attempts \in 0..MaxAttempts /\ job[j].attempts < MaxAttempts
  BY <1>2 DEF JobInv, Job
<1>4. /\ new \in Job /\ new.at = "held" /\ new.by = job[j].by /\ new.copies = job[j].copies
      /\ new.channel = job[j].channel
  <2>1. job[j].attempts + 1 \in 0..MaxAttempts
    BY <1>3
  <2> DEFINE a == job[j].attempts + 1
  <2>2. new = [job[j] EXCEPT !.at = "held", !.attempts = a]
    BY <1>2 DEF Job
  <2> HIDE DEF a, new
  <2>3. a \in 0..MaxAttempts
    BY <2>1 DEF a
  <2> QED BY <1>2, <2>2, <2>3 DEF Job, Places
<1> HIDE DEF new
<1>5. /\ job'[j] = new /\ \A x \in Jobs \ {j} : job'[x] = job[x]
      /\ drain'[d] = j /\ \A x \in Jobs \ {d} : drain'[x] = drain[x]
  BY <1>0, <1>1, <1>a DEF DispatchTypeOK
<1>6. DispatchTypeOK'
  BY <1>0, <1>1, <1>4, <1>a DEF DispatchTypeOK, SameConfiguration
<1>7. PlacesInv'
  <2>1. \A x \in Jobs : drain[x] # j
    BY <1>0, <1>1, <1>2 DEF PlacesInv
  <2>2. \A c, e \in Jobs : drain'[c] \in Jobs /\ drain'[c] = drain'[e] => c = e
    BY <1>0, <1>5, <2>1 DEF PlacesInv
  <2>3. \A x \in Jobs : job'[x].at = "held" <=> \E e \in Jobs : drain'[e] = x
    <3>1. \A x \in Jobs \ {j} : (\E e \in Jobs : drain'[e] = x) <=> (\E e \in Jobs : drain[e] = x)
      BY <1>0, <1>5
    <3> QED BY <1>0, <1>1, <1>4, <1>5, <3>1 DEF PlacesInv
  <2>4. \A x \in Jobs : job'[x].at = "queue" <=> InQueue(queue', x)
    BY <1>0, <1>1, <1>4, <1>5 DEF PlacesInv
  <2> QED BY <1>1, <2>2, <2>3, <2>4 DEF PlacesInv
<1>8. JobInv(j)'
  BY <1>0, <1>2, <1>4, <1>5 DEF JobInv, Limit, Unheard, SameConfiguration
<1>9. ASSUME NEW x \in Jobs \ {j} PROVE JobInv(x)'
  <2>1. JobInv(x) /\ job'[x] = job[x]
    BY <1>5 DEF DispatchIInv
  <2>2. job[x].at = "new" => x # d
    BY <1>0, <2>1 DEF JobInv, Off, Loop
  <2> QED BY <1>0, <1>5, <2>1, <2>2 DEF JobInv, Unheard, SameConfiguration
<1> QED BY <1>6, <1>7, <1>8, <1>9 DEF DispatchIInv

\* A drain that finds the array empty ends.
LEMMA DrainEndsStep ==
  ASSUME DispatchIInv, SameConfiguration, NEW d \in Jobs, DrainEnds(d)
  PROVE  DispatchIInv'
<1> USE DrainAssumption
<1>0. /\ DispatchTypeOK /\ PlacesInv /\ drain[d] = Loop /\ drain' = [drain EXCEPT ![d] = Off]
      /\ UNCHANGED <<job, queue, crashed>>
  BY DEF DispatchIInv, DrainEnds
<1>1. drain'[d] = Off /\ \A x \in Jobs \ {d} : drain'[x] = drain[x]
  BY <1>0 DEF DispatchTypeOK
<1>2. DispatchTypeOK'
  BY <1>0 DEF DispatchTypeOK, SameConfiguration
<1>3. PlacesInv'
  <2>1. \A x \in Jobs : (\E e \in Jobs : drain'[e] = x) <=> (\E e \in Jobs : drain[e] = x)
    BY <1>0, <1>1
  <2> QED BY <1>0, <1>1, <2>1 DEF PlacesInv
<1>4. \A x \in Jobs : JobInv(x)'
  BY <1>0, <1>1 DEF DispatchIInv, JobInv, Unheard, SameConfiguration
<1> QED BY <1>2, <1>3, <1>4 DEF DispatchIInv

\* A drain is done with its job.
LEMMA FinishStep ==
  ASSUME DispatchIInv, SameConfiguration, NEW d \in Jobs, FinishJob(d)
  PROVE  DispatchIInv'
<1> USE DispatchAssumption, DrainAssumption
<1>j. PICK j \in Jobs : j = drain[d]
  BY DEF FinishJob
<1>0. /\ DispatchTypeOK /\ PlacesInv /\ drain' = [drain EXCEPT ![d] = Loop]
      /\ UNCHANGED <<queue, crashed>> /\ JobInv(j) /\ job[j] \in Job
  BY DEF DispatchIInv, DispatchTypeOK, FinishJob, NextRound
<1>1. job[j].at = "held" /\ job[j].channel \in Channels /\ job[j].copies \in Nat
      /\ job[j].attempts \in 0..MaxAttempts
  BY <1>0, <1>j DEF PlacesInv, Job
<1>2. PICK r \in processChannel(job[j].channel, "api") :
        job' = [job EXCEPT ![j].copies = @ + r.copies,
                           ![j].at = IF r.success THEN "done" ELSE AfterFailure(job[j].attempts)]
  BY <1>j DEF FinishJob
<1>3. /\ r.copies \in Nat /\ r.copies <= Limit(job[j].channel)
      /\ r.success \in BOOLEAN /\ (~r.success => r.copies = 0)
      /\ r.success /\ r.copies = 0 => Unheard(job[j].channel)
  BY <1>0, <1>1, SendResults DEF Processes, DispatchTypeOK
<1> DEFINE n == job[j].copies + r.copies
           at == IF r.success THEN "done" ELSE AfterFailure(job[j].attempts)
           new == [job[j] EXCEPT !.copies = n, !.at = at]
<1>4. job' = [job EXCEPT ![j] = new]
  BY <1>0, <1>2 DEF DispatchTypeOK
<1>5. /\ n \in Nat /\ at \in {"done", "timer", "dead"} /\ (at = "done" <=> r.success)
      /\ (at = "timer" => job[j].attempts < MaxAttempts)
      /\ (at = "dead" => job[j].attempts = MaxAttempts)
  <2>1. n \in Nat
    BY <1>1, <1>3
  <2> DEFINE failed == AfterFailure(job[j].attempts)
  <2>2. /\ failed \in {"timer", "dead"}
        /\ (failed = "timer" => job[j].attempts < MaxAttempts)
        /\ (failed = "dead" => job[j].attempts = MaxAttempts)
    BY <1>1 DEF AfterFailure
  <2>3. at = IF r.success THEN "done" ELSE failed
    OBVIOUS
  <2> HIDE DEF n, at, failed
  <2>4. CASE r.success
    BY <2>1, <2>3, <2>4
  <2>5. CASE ~r.success
    BY <2>1, <2>2, <2>3, <2>5
  <2> QED BY <2>4, <2>5
<1>a. n = job[j].copies + r.copies
  OBVIOUS
<1> HIDE DEF n, at
<1>6. /\ new \in Job /\ new.at = at /\ new.copies = n /\ new.by = job[j].by
      /\ new.attempts = job[j].attempts /\ new.channel = job[j].channel
  BY <1>0, <1>5 DEF Job, Places
<1> HIDE DEF new
<1>7. /\ job'[j] = new /\ \A x \in Jobs \ {j} : job'[x] = job[x]
      /\ drain'[d] = Loop /\ \A x \in Jobs \ {d} : drain'[x] = drain[x]
  BY <1>0, <1>4 DEF DispatchTypeOK
<1>8. DispatchTypeOK'
  BY <1>0, <1>4, <1>6 DEF DispatchTypeOK, SameConfiguration
<1>9. PlacesInv'
  <2>1. \A x \in Jobs \ {d} : drain[x] # j
    BY <1>0, <1>j DEF PlacesInv
  <2>2. \A x \in Jobs : (\E e \in Jobs : drain'[e] = x) <=> x # j /\ \E e \in Jobs : drain[e] = x
    BY <1>0, <1>7, <1>j, <2>1
  <2>3. \A x \in Jobs : job'[x].at = "held" <=> x # j /\ job[x].at = "held"
    BY <1>0, <1>5, <1>6, <1>7
  <2>4. \A x \in Jobs : job'[x].at = "queue" <=> job[x].at = "queue"
    BY <1>0, <1>1, <1>5, <1>6, <1>7
  <2> QED BY <1>0, <1>7, <2>2, <2>3, <2>4 DEF PlacesInv, InQueue
<1>10. JobInv(j)'
  <2>1. crashed = "none" => n <= Limit(job[j].channel) /\ (at # "done" => n = 0)
    BY <1>0, <1>1, <1>3, <1>5, <1>a DEF JobInv, Limit, Unheard, SameConfiguration
  <2>2. at = "done" /\ n = 0 => Unheard(job[j].channel)
    BY <1>1, <1>3, <1>5, <1>a
  <2> QED BY <1>0, <1>1, <1>5, <1>6, <1>7, <2>1, <2>2 DEF JobInv, Unheard, SameConfiguration
<1>11. ASSUME NEW x \in Jobs \ {j} PROVE JobInv(x)'
  <2>1. JobInv(x) /\ job'[x] = job[x]
    BY <1>7 DEF DispatchIInv
  <2>2. job[x].at = "new" => x # d
    BY <1>0, <1>j, <2>1 DEF JobInv, Unheard, SameConfiguration
  <2> QED BY <1>0, <1>7, <2>1, <2>2 DEF JobInv, Unheard, SameConfiguration
<1> QED BY <1>8, <1>9, <1>10, <1>11 DEF DispatchIInv

\* The timer puts the job back into the array.
LEMMA RequeueStep ==
  ASSUME DispatchIInv, SameConfiguration, NEW j \in Jobs, RequeueTimer(j)
  PROVE  DispatchIInv'
<1> USE DispatchAssumption, DrainAssumption
<1>0. /\ DispatchTypeOK /\ PlacesInv /\ JobInv(j) /\ job[j] \in Job /\ job[j].at = "timer"
      /\ queue' = Append(queue, j) /\ UNCHANGED <<drain, crashed>>
  BY DEF DispatchIInv, DispatchTypeOK, RequeueTimer
<1> DEFINE new == [job[j] EXCEPT !.at = "queue"]
<1>1. /\ new \in Job /\ new.at = "queue" /\ new.attempts = job[j].attempts
      /\ new.by = job[j].by /\ new.copies = job[j].copies /\ new.channel = job[j].channel
  BY <1>0 DEF Job, Places
<1>2. job' = [job EXCEPT ![j] = new]
  BY <1>0 DEF RequeueTimer, DispatchTypeOK
<1> HIDE DEF new
<1>3. job'[j] = new /\ \A x \in Jobs \ {j} : job'[x] = job[x]
  BY <1>0, <1>2 DEF DispatchTypeOK
<1>4. /\ queue' \in Seq(Jobs) /\ Distinct(queue')
      /\ \A x \in Jobs : InQueue(queue', x) <=> InQueue(queue, x) \/ x = j
  <2>1. ~InQueue(queue, j) /\ queue \in Seq(Jobs) /\ Distinct(queue)
    BY <1>0 DEF PlacesInv, DispatchTypeOK
  <2> QED BY <1>0, <2>1, AppendDistinct
<1>5. DispatchTypeOK'
  BY <1>0, <1>1, <1>2, <1>4 DEF DispatchTypeOK, SameConfiguration
<1>6. PlacesInv'
  <2>1. \A x \in Jobs : job'[x].at = "held" <=> job[x].at = "held"
    BY <1>0, <1>1, <1>3
  <2>2. \A x \in Jobs : job'[x].at = "queue" <=> job[x].at = "queue" \/ x = j
    BY <1>1, <1>3
  <2> QED BY <1>0, <1>4, <2>1, <2>2 DEF PlacesInv
<1>7. JobInv(j)'
  BY <1>0, <1>1, <1>3 DEF JobInv, Limit, Unheard, SameConfiguration
<1>8. \A x \in Jobs \ {j} : JobInv(x)'
  BY <1>0, <1>3 DEF DispatchIInv, JobInv, Unheard, SameConfiguration
<1> QED BY <1>5, <1>6, <1>7, <1>8 DEF DispatchIInv

\* BullMQ hands a waiting job to a process, or its backoff ends.
LEMMA BullMovesStep ==
  ASSUME DispatchIInv, SameConfiguration, NEW j \in Jobs, (\E p \in Processes : TakeBullJob(p, j)) \/ BackoffEnds(j)
  PROVE  DispatchIInv'
<1> USE DispatchAssumption, DrainAssumption
<1>0. /\ DispatchTypeOK /\ JobInv(j) /\ job[j] \in Job /\ UNCHANGED <<queue, drain, crashed>>
  BY DEF DispatchIInv, DispatchTypeOK, TakeBullJob, BackoffEnds
<1>1. ASSUME NEW p \in Processes, TakeBullJob(p, j) PROVE DispatchIInv'
  <2> DEFINE new == [job[j] EXCEPT !.at = "active", !.by = p]
  <2>1. /\ new \in Job /\ new.at = "active" /\ new.attempts = job[j].attempts
        /\ new.by = p /\ new.copies = job[j].copies /\ new.channel = job[j].channel
    BY <1>0 DEF Job, Places
  <2>2. job' = [job EXCEPT ![j] = new] /\ job[j].at = "wait"
    BY <1>0, <1>1 DEF TakeBullJob, DispatchTypeOK
  <2> HIDE DEF new
  <2>3. job'[j] = new
    BY <1>0, <2>2 DEF DispatchTypeOK
  <2>4. JobInv(j)'
    BY <1>0, <2>1, <2>2, <2>3 DEF JobInv, Limit, Unheard, SameConfiguration
  <2> QED BY <1>0, <2>1, <2>2, <2>4, JobMoves
<1>2. CASE BackoffEnds(j)
  <2> DEFINE new == [job[j] EXCEPT !.at = "wait"]
  <2>1. /\ new \in Job /\ new.at = "wait" /\ new.attempts = job[j].attempts
        /\ new.by = job[j].by /\ new.copies = job[j].copies /\ new.channel = job[j].channel
    BY <1>0 DEF Job, Places
  <2>2. job' = [job EXCEPT ![j] = new] /\ job[j].at = "delayed"
    BY <1>0, <1>2 DEF BackoffEnds, DispatchTypeOK
  <2> HIDE DEF new
  <2>3. job'[j] = new
    BY <1>0, <2>2 DEF DispatchTypeOK
  <2>4. JobInv(j)'
    BY <1>0, <2>1, <2>2, <2>3 DEF JobInv, Limit, Unheard, SameConfiguration
  <2> QED BY <1>0, <2>1, <2>2, <2>4, JobMoves
<1> QED BY <1>1, <1>2

\* A BullMQ processor returned or threw.
LEMMA SettleStep ==
  ASSUME DispatchIInv, SameConfiguration, NEW j \in Jobs, SettleBullJob(j)
  PROVE  DispatchIInv'
<1> USE DispatchAssumption, DrainAssumption
<1>0. /\ DispatchTypeOK /\ JobInv(j) /\ job[j] \in Job /\ UNCHANGED <<queue, drain, crashed>>
      /\ job[j].at = "active"
  BY DEF DispatchIInv, DispatchTypeOK, SettleBullJob
<1>1. /\ job[j].channel \in Channels /\ job[j].copies \in Nat
      /\ job[j].attempts \in 0..MaxAttempts /\ job[j].by \in Processes
  BY <1>0 DEF Job, JobInv
<1> DEFINE made == job[j].attempts + 1
           a == IF made > MaxAttempts THEN MaxAttempts ELSE made
<1>2. PICK r \in processChannel(job[j].channel, job[j].by) :
        job' = [job EXCEPT ![j].copies = @ + r.copies, ![j].attempts = a,
                           ![j].at = IF ~r.throws THEN "done"
                                     ELSE IF RetryDue(made) THEN "delayed" ELSE "failed"]
  BY DEF SettleBullJob
<1>3. /\ r.copies \in Nat /\ r.copies <= Limit(job[j].channel)
      /\ r.throws \in BOOLEAN /\ (r.throws => r.copies = 0)
  BY <1>0, <1>1, SendResults DEF DispatchTypeOK
<1> DEFINE n == job[j].copies + r.copies
           retry == IF RetryDue(made) THEN "delayed" ELSE "failed"
           at == IF ~r.throws THEN "done" ELSE retry
           new == [job[j] EXCEPT !.copies = n, !.attempts = a, !.at = at]
<1>4. job' = [job EXCEPT ![j] = new]
  BY <1>0, <1>2 DEF DispatchTypeOK
<1>5. n \in Nat /\ n = job[j].copies + r.copies
  BY <1>1, <1>3
<1>6. a \in 0..MaxAttempts
  BY <1>1
<1>7. retry \in {"delayed", "failed"} /\ (retry = "failed" => a = MaxAttempts)
  BY <1>1 DEF RetryDue
<1>8. at = IF ~r.throws THEN "done" ELSE retry
  OBVIOUS
<1> HIDE DEF n, a, at, retry
<1>9. at \in {"done", "delayed", "failed"} /\ (at = "failed" => a = MaxAttempts)
      /\ (at # "done" => r.copies = 0)
  <2>1. CASE r.throws
    BY <1>3, <1>7, <1>8, <2>1
  <2>2. CASE ~r.throws
    BY <1>8, <2>2
  <2> QED BY <2>1, <2>2
<1>10. /\ new \in Job /\ new.at = at /\ new.copies = n /\ new.by = job[j].by
       /\ new.attempts = a /\ new.channel = job[j].channel
  BY <1>0, <1>5, <1>6, <1>9 DEF Job, Places
<1> HIDE DEF new
<1>11. job'[j] = new
  BY <1>0, <1>4 DEF DispatchTypeOK
<1>12. crashed = "none" => n <= Limit(job[j].channel) /\ (at # "done" => n = 0)
  BY <1>0, <1>1, <1>3, <1>5, <1>9 DEF JobInv, Limit, Unheard, SameConfiguration
<1>13. JobInv(j)'
  BY <1>0, <1>1, <1>9, <1>10, <1>11, <1>12 DEF JobInv, Processes, Unheard, SameConfiguration
<1> QED BY <1>0, <1>4, <1>9, <1>10, <1>13, JobMoves

\* A process dies and starts again.
LEMMA CrashStep ==
  ASSUME DispatchIInv, SameConfiguration, NEW p \in Processes, Crash(p)
  PROVE  DispatchIInv'
<1> USE DispatchAssumption, DrainAssumption
<1> DEFINE inHand == {j \in Jobs : \/ job[j].at = "active" /\ job[j].by = p
                                   \/ job[j].at = "held" /\ p = "api"}
           gone == IF p = "api" THEN {j \in Jobs : job[j].at \in {"queue", "held", "timer", "dead"}}
                   ELSE {}
<1>0. /\ DispatchTypeOK /\ PlacesInv /\ crashed' = p /\ p # "none"
      /\ queue' = IF p = "api" THEN << >> ELSE queue
  BY DEF DispatchIInv, Crash, Processes
<1>a. drain' = IF p = "api" THEN [d \in Jobs |-> Off] ELSE drain
  BY DEF Crash
<1>1. PICK sent \in SUBSET inHand :
        job' = [j \in Jobs |->
                 [job[j] EXCEPT !.copies = IF j \in sent THEN @ + 1 ELSE @,
                                !.at = IF j \in gone THEN "lost"
                                       ELSE IF j \in inHand THEN "wait" ELSE @]]
  BY DEF Crash
<1>2. ASSUME NEW j \in Jobs
      PROVE  /\ job'[j] \in Job
             /\ job'[j].by = job[j].by /\ job'[j].attempts = job[j].attempts
             /\ job'[j].channel = job[j].channel
             /\ job'[j].at = IF j \in gone THEN "lost" ELSE IF j \in inHand THEN "wait" ELSE job[j].at
             /\ j \notin inHand => job'[j].copies = job[j].copies
  <2>1. job[j] \in Job /\ job[j].copies \in Nat
    BY <1>0 DEF DispatchTypeOK, Job
  <2> DEFINE n == IF j \in sent THEN job[j].copies + 1 ELSE job[j].copies
             at == IF j \in gone THEN "lost" ELSE IF j \in inHand THEN "wait" ELSE job[j].at
  <2>2. n \in Nat /\ (j \notin inHand => n = job[j].copies)
    BY <2>1
  <2>3. at \in Places
    BY <2>1 DEF Job, Places
  <2>4. job'[j] = [job[j] EXCEPT !.copies = n, !.at = at]
    BY <1>1, <2>1 DEF Job
  <2>5. at = IF j \in gone THEN "lost" ELSE IF j \in inHand THEN "wait" ELSE job[j].at
    OBVIOUS
  <2> HIDE DEF n, at, gone, inHand
  <2> QED BY <2>1, <2>2, <2>3, <2>4, <2>5 DEF Job
<1>3. job' = [j \in Jobs |-> job'[j]]
  BY <1>1
<1>4. job' \in [Jobs -> Job]
  BY <1>2, <1>3
<1>5. p # "api" => p = "worker"
  BY DEF Processes
<1>6. ASSUME p = "api" PROVE DispatchTypeOK' /\ PlacesInv' /\ \A j \in Jobs : drain'[j] = Off
  <2>1. queue' = << >> /\ queue' \in Seq(Jobs) /\ \A d \in Jobs : drain'[d] = Off
    BY <1>0, <1>a, <1>6
  <2>2. drain' \in [Jobs -> Jobs \cup {Off, Loop}]
    BY <1>a, <1>6
  <2>3. \A j \in Jobs : job'[j].at \notin {"queue", "held"}
    BY <1>2, <1>6
  <2>4. DispatchTypeOK'
    BY <1>0, <1>4, <2>1, <2>2 DEF DispatchTypeOK, SameConfiguration
  <2>5. PlacesInv'
    BY <2>1, <2>3 DEF PlacesInv, Distinct, InQueue
  <2> QED BY <2>1, <2>4, <2>5
<1>7. ASSUME p # "api" PROVE DispatchTypeOK' /\ PlacesInv' /\ drain' = drain
  <2>1. queue' = queue /\ drain' = drain
    BY <1>0, <1>a, <1>7
  <2>2. DispatchTypeOK'
    BY <1>0, <1>4, <2>1 DEF DispatchTypeOK, SameConfiguration
  <2>3. \A j \in Jobs : /\ job'[j].at = "queue" <=> job[j].at = "queue"
                        /\ job'[j].at = "held" <=> job[j].at = "held"
    BY <1>2, <1>7
  <2>4. PlacesInv'
    BY <1>0, <2>1, <2>3 DEF PlacesInv
  <2> QED BY <2>1, <2>2, <2>4
<1>8. ASSUME NEW j \in Jobs PROVE JobInv(j)'
  <2>1. JobInv(j)
    BY DEF DispatchIInv
  <2>2. drain[j] = Off => drain'[j] = Off
    BY <1>6, <1>7
  <2>3. job'[j].at = job[j].at \/ job'[j].at \in {"lost", "wait"}
    BY <1>2
  <2>4. job'[j].at = "done" => job[j].at = "done" /\ job'[j].copies = job[j].copies
    BY <1>2, <2>3
  <2> QED BY <1>0, <1>2, <2>1, <2>2, <2>3, <2>4 DEF JobInv, Unheard, SameConfiguration
<1> QED BY <1>6, <1>7, <1>8 DEF DispatchIInv

\* No step of DispatchService, BullMQ or a crash breaks the invariant.
LEMMA DispatchNextIInv == DispatchIInv /\ [DispatchNext]_dispatchVars => DispatchIInv'
<1> SUFFICES ASSUME DispatchIInv, [DispatchNext]_dispatchVars PROVE DispatchIInv'
  OBVIOUS
<1>0. SameConfiguration
  BY DEF DispatchNext, dispatchVars, SameConfiguration
<1>1. CASE \E j \in Jobs, channel \in Channels : dispatch(j, channel)
  BY <1>0, <1>1, DispatchStep
<1>2. CASE \E d \in Jobs : DrainStep(d)
  BY <1>0, <1>2, ShiftStep, DrainEndsStep, FinishStep DEF DrainStep
<1>3. CASE \E j \in Jobs : RequeueTimer(j) \/ BullStep(j)
  BY <1>0, <1>3, RequeueStep, BullMovesStep, SettleStep DEF BullStep
<1>4. CASE \E p \in Processes : Crash(p)
  BY <1>0, <1>4, CrashStep
<1>5. CASE UNCHANGED dispatchVars
  BY <1>5 DEF dispatchVars, DispatchIInv, DispatchTypeOK, PlacesInv, JobInv, Unheard
<1> QED BY <1>1, <1>2, <1>3, <1>4, <1>5 DEF DispatchNext

\* DispatchService and the notifications queue: whatever drains, timers, consumers and
\* crashes interleave, a job is in one place, is given up only after all its attempts,
\* is not sent again by a retry, and a broadcast or a push that FCM can make is done in
\* memory only when it reached someone.
THEOREM DispatchCorrect == DispatchSpec => []DispatchInv
<1>1. DispatchIInv => DispatchInv
  <2> SUFFICES ASSUME DispatchIInv PROVE DispatchInv
    OBVIOUS
  <2>1. DispatchTypeOK /\ JobIsInOnePlace
    BY PlacesCounted DEF DispatchIInv
  <2>2. GivenUpAfterAllAttempts /\ NotSentAgain /\ DoneReachedSomeone
    BY DEF DispatchIInv, JobInv, GivenUpAfterAllAttempts, NotSentAgain, DoneReachedSomeone, Limit,
           Unheard
  <2> QED BY <2>1, <2>2 DEF DispatchInv
<1> QED BY <1>1, DispatchInitIInv, DispatchNextIInv, PTL DEF DispatchSpec

-----------------------------------------------------------------------------
(* Device rows *)

\* A row is there when it has an id, and ids up to lastRow have been given.
RowIdsInv ==
  \A t \in Tokens : rows[t].id <= lastRow /\ (rows[t].id = 0 <=> rows[t].user = NoUser)

\* What a request may rely on after its lookup: the id it read names the row it
\* read or no row at all, a row found is its own user's, and a token to prune is
\* one FCM has forgotten.
ReadInv(r) ==
  LET read == request[r].read IN
  /\ \A t \in DOMAIN read :
       /\ read[t].id <= lastRow
       /\ read[t].id # 0 /\ rows[t].id = read[t].id => rows[t] = read[t]
  /\ request[r].kind = "register" =>
       /\ request[r].user \in Users
       /\ \A t \in DOMAIN read : read[t].id # 0 => read[t].user = request[r].user
  /\ request[r].kind = "prune" => DOMAIN read \cap live = {}

\* The inductive invariant of the device rows.
PushIInv == PushTypeOK /\ RowIdsInv /\ (\A r \in Requests : ReadInv(r)) /\ ConfirmedIsStored

\* A read is a function from some tokens to rows.
LEMMA ReadShape ==
  ASSUME NEW f \in Reads
  PROVE  DOMAIN f \in SUBSET Tokens /\ f \in [DOMAIN f -> Rows] /\ \A t \in DOMAIN f : f[t] \in Rows
<1>1. PICK S \in SUBSET Tokens : f \in [S -> Rows]
  BY DEF Reads
<1> QED BY <1>1

\* And any such function is a read.
LEMMA ReadBuilt ==
  ASSUME NEW S \in SUBSET Tokens, NEW f \in [S -> Rows]
  PROVE  f \in Reads
BY DEF Reads

\* A request that is idle relies on nothing.
LEMMA IdleFacts ==
  /\ IdleRequest \in Request /\ IdleRequest.kind = "idle"
  /\ DOMAIN IdleRequest.read = {}
<1> DEFINE e == [t \in {} |-> NoRow]
<1>1. e \in [{} -> Rows] /\ DOMAIN e = {}
  OBVIOUS
<1>2. e \in Reads
  <2>1. {} \in SUBSET Tokens
    OBVIOUS
  <2> QED BY <1>1, <2>1, ReadBuilt
<1>3. IdleRequest = [kind |-> "idle", user |-> NoUser, read |-> e]
  BY DEF IdleRequest
<1> HIDE DEF e
<1> QED BY <1>1, <1>2, <1>3 DEF Request

\* No device is registered at first.
LEMMA PushInitIInv == PushInit => PushIInv
<1> SUFFICES ASSUME PushInit PROVE PushIInv
  OBVIOUS
<1> USE PushAssumption, IdleFacts DEF PushInit
<1>1. NoRow \in Rows /\ NoRow.id = 0 /\ NoRow.user = NoUser
  BY DEF NoRow, Rows
<1>2. PushTypeOK
  BY <1>1 DEF PushTypeOK
<1>3. RowIdsInv /\ ConfirmedIsStored
  BY <1>1 DEF RowIdsInv, ConfirmedIsStored
<1>4. \A r \in Requests : ReadInv(r)
  BY DEF ReadInv
<1> QED BY <1>2, <1>3, <1>4 DEF PushIInv

\* A request that only looks up: its new state satisfies ReadInv, all else stays.
LEMMA LookupStep ==
  ASSUME PushIInv, NEW r \in Requests, NEW new \in Request,
         request' = [request EXCEPT ![r] = new], ReadInv(r)',
         UNCHANGED <<rows, lastRow, live, confirmed>>
  PROVE  PushIInv'
<1>1. \A x \in Requests \ {r} : request'[x] = request[x]
  BY DEF PushIInv, PushTypeOK
<1>2. PushTypeOK'
  BY DEF PushIInv, PushTypeOK
<1>3. RowIdsInv' /\ ConfirmedIsStored'
  BY DEF PushIInv, RowIdsInv, ConfirmedIsStored
<1>4. \A x \in Requests \ {r} : ReadInv(x)'
  BY <1>1 DEF PushIInv, ReadInv
<1> QED BY <1>2, <1>3, <1>4 DEF PushIInv

\* registerToken up to the lookup.
LEMMA FindTokenStep ==
  ASSUME PushIInv, NEW r \in Requests, NEW u \in Users, NEW t \in Tokens, FindToken(r, u, t)
  PROVE  PushIInv'
<1> USE PushAssumption
<1>0. PushTypeOK /\ RowIdsInv /\ rows[t] \in Rows /\ UNCHANGED <<rows, lastRow, live, confirmed>>
  BY DEF PushIInv, PushTypeOK, FindToken
<1> DEFINE f == [x \in {t} |-> rows[t]]
           new == [kind |-> "register", user |-> u, read |-> f]
<1>1. f \in [{t} -> Rows] /\ DOMAIN f = {t} /\ f[t] = rows[t]
  BY <1>0
<1>2. f \in Reads
  BY <1>1, ReadBuilt
<1>3. request' = [request EXCEPT ![r] = new]
  BY DEF FindToken
<1> HIDE DEF f
<1>4. new \in Request /\ new.kind = "register" /\ new.user = u /\ new.read = f
  BY <1>2 DEF Request
<1> HIDE DEF new
<1>5. request'[r] = new
  BY <1>0, <1>3 DEF PushTypeOK
<1>6. rows[t].id # 0 => rows[t].user = u
  BY <1>0 DEF RowIdsInv, FindToken
<1>7. ReadInv(r)'
  BY <1>0, <1>1, <1>4, <1>5, <1>6 DEF ReadInv, RowIdsInv
<1> QED BY <1>0, <1>3, <1>4, <1>7, LookupStep

\* sendPushNotification: the rows of the user are read.
LEMMA ListTokensStep ==
  ASSUME PushIInv, NEW r \in Requests, NEW u \in Users, ListTokens(r, u)
  PROVE  PushIInv'
<1>0. PushTypeOK /\ RowIdsInv /\ UNCHANGED <<rows, lastRow, live, confirmed>>
  BY DEF PushIInv, ListTokens
<1> DEFINE mine == {t \in Tokens : rows[t].user = u}
           f == [t \in mine |-> rows[t]]
           new == [kind |-> "push", user |-> u, read |-> f]
<1>1. f \in [mine -> Rows] /\ DOMAIN f = mine /\ mine \in SUBSET Tokens /\ \A t \in mine : f[t] = rows[t]
  BY <1>0 DEF PushTypeOK
<1>2. request' = [request EXCEPT ![r] = new]
  BY DEF ListTokens
<1> HIDE DEF f, mine
<1>3. f \in Reads
  BY <1>1, ReadBuilt
<1>4. new \in Request /\ new.kind = "push" /\ new.read = f
  BY <1>3 DEF Request
<1> HIDE DEF new
<1>5. request'[r] = new
  BY <1>0, <1>2 DEF PushTypeOK
<1>6. ReadInv(r)'
  BY <1>0, <1>1, <1>4, <1>5 DEF ReadInv, RowIdsInv
<1> QED BY <1>0, <1>2, <1>4, <1>6, LookupStep

\* fcmService.sendPush: only the tokens FCM does not know are kept for pruning.
LEMMA SendPushStep ==
  ASSUME PushIInv, NEW r \in Requests, SendPush(r)
  PROVE  PushIInv'
<1>0. /\ PushTypeOK /\ ReadInv(r) /\ request[r] \in Request /\ request[r].read \in Reads
      /\ UNCHANGED <<rows, lastRow, live, confirmed>>
  BY DEF PushIInv, PushTypeOK, Request, SendPush
<1> DEFINE old == request[r].read
           dead == DOMAIN old \ live
           f == [t \in dead |-> old[t]]
           new == [request[r] EXCEPT !.kind = "prune", !.read = f]
<1>1. DOMAIN old \in SUBSET Tokens /\ \A t \in DOMAIN old : old[t] \in Rows
  BY <1>0, ReadShape
<1>2. /\ f \in [dead -> Rows] /\ DOMAIN f = dead /\ dead \in SUBSET Tokens
      /\ \A t \in dead : f[t] = old[t] /\ t \in DOMAIN old /\ t \notin live
  BY <1>1
<1>3. request' = [request EXCEPT ![r] = new]
  BY <1>0 DEF SendPush, PushTypeOK, Request
<1> HIDE DEF f, dead
<1>4. f \in Reads
  BY <1>2, ReadBuilt
<1>5. new \in Request /\ new.kind = "prune" /\ new.read = f
  BY <1>0, <1>4 DEF Request
<1> HIDE DEF new
<1>6. request'[r] = new
  BY <1>0, <1>3 DEF PushTypeOK
<1>7. ReadInv(r)'
  BY <1>0, <1>2, <1>5, <1>6 DEF ReadInv
<1> QED BY <1>0, <1>3, <1>5, <1>7, LookupStep

\* registerToken from the lookup on.
LEMMA UpsertStep ==
  ASSUME PushIInv, NEW r \in Requests, UpsertToken(r)
  PROVE  PushIInv'
<1> USE PushAssumption
<1>0. /\ PushTypeOK /\ RowIdsInv /\ ConfirmedIsStored /\ ReadInv(r) /\ request[r] \in Request
      /\ request[r].read \in Reads /\ request[r].kind = "register" /\ live' = live
      /\ request' = [request EXCEPT ![r] = IdleRequest]
  BY DEF PushIInv, PushTypeOK, Request, UpsertToken
<1> DEFINE u == request[r].user
<1>1. PICK t \in DOMAIN request[r].read :
        LET found == request[r].read[t] IN
        IF found.id = 0 /\ rows[t].id = 0 /\ lastRow < MaxRows
        THEN /\ lastRow' = lastRow + 1
             /\ rows' = [rows EXCEPT ![t] = [id |-> lastRow + 1, user |-> u]]
             /\ confirmed' = [confirmed EXCEPT ![t] = u]
        ELSE IF found.id # 0 /\ rows[t].id = found.id
        THEN /\ confirmed' = [confirmed EXCEPT ![t] = u]
             /\ UNCHANGED <<rows, lastRow>>
        ELSE UNCHANGED <<rows, lastRow, confirmed>>
  BY DEF UpsertToken
<1>2. t \in Tokens /\ u \in Users /\ u # NoUser
  BY <1>0, ReadShape DEF ReadInv
<1>3. /\ request'[r] = IdleRequest /\ \A x \in Requests \ {r} : request'[x] = request[x]
      /\ request' \in [Requests -> Request]
  BY <1>0, IdleFacts DEF PushTypeOK
<1>4. ReadInv(r)'
  BY <1>3, IdleFacts DEF ReadInv
<1>5. ASSUME lastRow' = lastRow, rows' = rows,
             \/ confirmed' = confirmed
             \/ confirmed' = [confirmed EXCEPT ![t] = u] /\ rows[t].user = u
      PROVE  PushIInv'
  <2>1. PushTypeOK'
    BY <1>0, <1>2, <1>3, <1>5 DEF PushTypeOK
  <2>2. RowIdsInv' /\ ConfirmedIsStored'
    BY <1>0, <1>2, <1>5 DEF RowIdsInv, ConfirmedIsStored, PushTypeOK
  <2>3. \A x \in Requests \ {r} : ReadInv(x)'
    BY <1>0, <1>3, <1>5 DEF PushIInv, ReadInv
  <2> QED BY <1>4, <2>1, <2>2, <2>3 DEF PushIInv
<1>6. CASE /\ rows[t].id = 0 /\ lastRow < MaxRows /\ lastRow' = lastRow + 1
           /\ rows' = [rows EXCEPT ![t] = [id |-> lastRow + 1, user |-> u]]
           /\ confirmed' = [confirmed EXCEPT ![t] = u]
  <2>1. lastRow \in Nat /\ lastRow' \in 0..MaxRows /\ lastRow' # 0 /\ lastRow < lastRow'
    BY <1>0, <1>6 DEF PushTypeOK
  <2> DEFINE stored == [id |-> lastRow', user |-> u]
  <2>2. stored \in Rows /\ stored.id = lastRow' /\ stored.user = u
    BY <1>2, <2>1 DEF Rows
  <2>3. rows' = [rows EXCEPT ![t] = stored]
    BY <1>6
  <2> HIDE DEF stored
  <2>4. /\ rows'[t] = stored /\ \A x \in Tokens \ {t} : rows'[x] = rows[x]
        /\ confirmed'[t] = u /\ \A x \in Tokens \ {t} : confirmed'[x] = confirmed[x]
    BY <1>0, <1>2, <1>6, <2>3 DEF PushTypeOK
  <2>5. PushTypeOK'
    BY <1>0, <1>2, <1>3, <1>6, <2>1, <2>2, <2>3 DEF PushTypeOK
  <2>6. RowIdsInv'
    <3>1. ASSUME NEW x \in Tokens \ {t} PROVE rows'[x].id <= lastRow'
      <4>1. rows[x].id \in 0..MaxRows /\ rows[x].id <= lastRow
        BY <1>0 DEF PushTypeOK, Rows, RowIdsInv
      <4> QED BY <2>1, <2>4, <4>1
    <3>2. rows'[t].id <= lastRow' /\ (rows'[t].id = 0 <=> rows'[t].user = NoUser)
      BY <1>2, <2>1, <2>2, <2>4
    <3> QED BY <1>0, <2>4, <3>1, <3>2 DEF RowIdsInv
  <2>7. ConfirmedIsStored'
    BY <1>0, <2>2, <2>4 DEF ConfirmedIsStored, PushTypeOK
  <2>8. ASSUME NEW x \in Requests \ {r} PROVE ReadInv(x)'
    <3>1. ReadInv(x) /\ request'[x] = request[x] /\ request[x].read \in Reads
      BY <1>0, <1>3 DEF PushIInv, PushTypeOK, Request
    <3>2. ASSUME NEW y \in DOMAIN request[x].read
          PROVE  /\ request[x].read[y].id <= lastRow' /\ request[x].read[y].id # lastRow'
                 /\ y \in Tokens
      <4>1. y \in Tokens /\ request[x].read[y] \in Rows
        BY <3>1, ReadShape
      <4>2. request[x].read[y].id \in 0..MaxRows /\ request[x].read[y].id <= lastRow
        BY <3>1, <4>1 DEF Rows, ReadInv
      <4> QED BY <2>1, <4>1, <4>2
    <3> QED BY <1>0, <2>2, <2>4, <3>1, <3>2 DEF ReadInv
  <2> QED BY <1>4, <2>5, <2>6, <2>7, <2>8 DEF PushIInv
<1>7. CASE /\ request[r].read[t].id # 0 /\ rows[t].id = request[r].read[t].id
           /\ confirmed' = [confirmed EXCEPT ![t] = u] /\ UNCHANGED <<rows, lastRow>>
  <2>1. rows[t].user = u
    BY <1>0, <1>7 DEF ReadInv
  <2> QED BY <1>5, <1>7, <2>1
<1>8. CASE UNCHANGED <<rows, lastRow, confirmed>>
  BY <1>5, <1>8
<1> QED BY <1>1, <1>6, <1>7, <1>8

\* Rows that go away: deleteToken and the pruning of a push.
LEMMA RowsLeave ==
  ASSUME PushIInv, NEW S \in SUBSET Tokens,
         rows' = [t \in Tokens |-> IF t \in S THEN NoRow ELSE rows[t]],
         lastRow' = lastRow, live' = live, request' \in [Requests -> Request],
         \A r \in Requests : request'[r] \in {request[r], IdleRequest},
         confirmed' \in [Tokens -> Users \cup {NoUser}],
         \A t \in Tokens : IF t \in S THEN t \in live => confirmed'[t] = NoUser
                           ELSE confirmed'[t] = confirmed[t]
  PROVE  PushIInv'
<1> USE PushAssumption
<1>0. PushTypeOK /\ RowIdsInv /\ ConfirmedIsStored /\ lastRow \in Nat
  BY DEF PushIInv, PushTypeOK
<1>1. NoRow \in Rows /\ NoRow.id = 0 /\ NoRow.user = NoUser
  BY DEF NoRow, Rows
<1>2. \A t \in Tokens : rows'[t] = IF t \in S THEN NoRow ELSE rows[t]
  OBVIOUS
<1>3. PushTypeOK'
  BY <1>0, <1>1 DEF PushTypeOK
<1>4. RowIdsInv'
  BY <1>0, <1>1, <1>2 DEF RowIdsInv
<1>5. ConfirmedIsStored'
  BY <1>0, <1>2 DEF ConfirmedIsStored, PushTypeOK
<1>6. ASSUME NEW r \in Requests PROVE ReadInv(r)'
  <2>1. CASE request'[r] = IdleRequest
    BY <2>1, IdleFacts DEF ReadInv
  <2>2. CASE request'[r] = request[r]
    <3>1. ReadInv(r) /\ request[r].read \in Reads
      BY <1>0 DEF PushIInv, PushTypeOK, Request
    <3>2. DOMAIN request[r].read \in SUBSET Tokens
      BY <3>1, ReadShape
    <3> QED BY <1>1, <1>2, <2>2, <3>1, <3>2 DEF ReadInv
  <2> QED BY <2>1, <2>2
<1> QED BY <1>3, <1>4, <1>5, <1>6 DEF PushIInv

\* A deletion takes the row and the confirmation away together.
LEMMA DeleteTokenStep ==
  ASSUME PushIInv, NEW t \in Tokens, deleteToken(t)
  PROVE  PushIInv'
<1>0. PushTypeOK
  BY DEF PushIInv
<1>1. /\ rows' = [x \in Tokens |-> IF x \in {t} THEN NoRow ELSE rows[x]]
      /\ UNCHANGED <<lastRow, live, request>>
      /\ confirmed' = [confirmed EXCEPT ![t] = NoUser]
  BY <1>0 DEF deleteToken, PushTypeOK
<1>2. /\ confirmed' \in [Tokens -> Users \cup {NoUser}] /\ confirmed'[t] = NoUser
      /\ \A x \in Tokens \ {t} : confirmed'[x] = confirmed[x]
  BY <1>0, <1>1 DEF PushTypeOK
<1>3. request' \in [Requests -> Request] /\ \A r \in Requests : request'[r] \in {request[r], IdleRequest}
  BY <1>0, <1>1 DEF PushTypeOK
<1>4. {t} \in SUBSET Tokens
  OBVIOUS
<1> QED BY <1>1, <1>2, <1>3, <1>4, RowsLeave

\* A pruning deletes by the ids it read.
LEMMA PruneTokensStep ==
  ASSUME PushIInv, NEW r \in Requests, PruneTokens(r)
  PROVE  PushIInv'
<1>0. /\ PushTypeOK /\ ReadInv(r) /\ request[r].kind = "prune" /\ request[r].read \in Reads
      /\ UNCHANGED <<lastRow, live, confirmed>>
      /\ request' = [request EXCEPT ![r] = IdleRequest]
  BY DEF PushIInv, PushTypeOK, Request, PruneTokens
<1>1. PICK S \in SUBSET Tokens :
        /\ S \subseteq DOMAIN request[r].read
        /\ rows' = [t \in Tokens |-> IF t \in S THEN NoRow ELSE rows[t]]
  <2> DEFINE pruned == {t \in DOMAIN request[r].read : rows[t].id = request[r].read[t].id}
  <2>1. rows' = [t \in Tokens |-> IF t \in pruned THEN NoRow ELSE rows[t]]
    BY DEF PruneTokens
  <2>2. pruned \in SUBSET Tokens /\ pruned \subseteq DOMAIN request[r].read
    BY <1>0, ReadShape
  <2> QED BY <2>1, <2>2
<1>2. \A t \in S : t \notin live
  BY <1>0, <1>1 DEF ReadInv
<1>3. request' \in [Requests -> Request] /\ \A x \in Requests : request'[x] \in {request[x], IdleRequest}
  BY <1>0, IdleFacts DEF PushTypeOK
<1>4. confirmed' \in [Tokens -> Users \cup {NoUser}] /\ \A t \in Tokens : confirmed'[t] = confirmed[t]
  BY <1>0 DEF PushTypeOK
<1> QED BY <1>0, <1>1, <1>2, <1>3, <1>4, RowsLeave

\* The app is removed: fewer devices are promised anything.
LEMMA UninstallStep ==
  ASSUME PushIInv, NEW t \in Tokens, Uninstall(t)
  PROVE  PushIInv'
<1>1. live' = live \ {t} /\ UNCHANGED <<rows, lastRow, request, confirmed>>
  BY DEF Uninstall
<1>2. PushTypeOK' /\ RowIdsInv' /\ ConfirmedIsStored'
  BY <1>1 DEF PushIInv, PushTypeOK, RowIdsInv, ConfirmedIsStored
<1>3. \A r \in Requests : ReadInv(r)'
  BY <1>1 DEF PushIInv, ReadInv
<1> QED BY <1>2, <1>3 DEF PushIInv

\* No registration, deletion or push breaks the invariant.
LEMMA PushNextIInv == PushIInv /\ [PushNext]_pushVars => PushIInv'
<1> SUFFICES ASSUME PushIInv, [PushNext]_pushVars PROVE PushIInv'
  OBVIOUS
<1>1. CASE \E r \in Requests, u \in Users : (\E t \in Tokens : FindToken(r, u, t)) \/ ListTokens(r, u)
  BY <1>1, FindTokenStep, ListTokensStep
<1>2. CASE \E r \in Requests : UpsertToken(r) \/ SendPush(r) \/ PruneTokens(r)
  BY <1>2, UpsertStep, SendPushStep, PruneTokensStep
<1>3. CASE \E t \in Tokens : deleteToken(t) \/ Uninstall(t)
  BY <1>3, DeleteTokenStep, UninstallStep
<1>4. CASE UNCHANGED pushVars
  BY <1>4 DEF pushVars, PushIInv, PushTypeOK, RowIdsInv, ReadInv, ConfirmedIsStored
<1> QED BY <1>1, <1>2, <1>3, <1>4 DEF PushNext

\* registerToken, deleteToken and sendPushNotification: a registration that was confirmed
\* and not deleted is stored for its user as long as FCM knows the device, however many
\* registrations, deletions and pushes overlap, because ids are never given twice.
THEOREM PushCorrect == PushSpec => []PushInv
<1>1. PushIInv => PushInv
  BY DEF PushIInv, PushInv
<1> QED BY <1>1, PushInitIInv, PushNextIInv, PTL DEF PushSpec

-----------------------------------------------------------------------------
(* Kitchen tickets *)

\* The <<item, status>> pair request r writes.
Written(r) == <<item[r], next[r]>>

\* updateCookingStatus: what holds of request r, whoever runs beside it.
UpdateInv(r) ==
  /\ stage[r] \in Busy => item[r] \in Items /\ next[r] \in CookingStatus
  /\ stage[r] \in {"queue", "stamp"} => Written(r) \in cooked
  /\ stage[r] = "stamp" =>
       /\ stamp[r].started # Unset => stamp[r].started <= clock /\ next[r] = "PREPARING"
       /\ stamp[r].completed # Unset =>
            stamp[r].completed <= clock /\ next[r] \in {"COOKED", "SERVED"}

\* updateCookingStatus: what r has read still holds if it runs alone.
UpdateReadsHold(r) ==
  /\ stage[r] = "write" => validateCookingTransition(cooking[item[r]], next[r])
  /\ stage[r] = "stamp" =>
       /\ stamp[r].started # Unset => started = Unset
       /\ stamp[r].completed # Unset /\ completed # Unset => completed <= stamp[r].completed

\* Until updates overlap there is one at a time.
AloneInv ==
  ~overlapped =>
    /\ \A r \in Updates : UpdateReadsHold(r)
    /\ \A q, r \in Updates : stage[q] \in Busy /\ stage[r] \in Busy => q = r

\* getTickets: a poll escalates a ticket that is late.
PollInv == \A p \in Polls : stage[p] = "escalate" => clock > PrepTime

\* The inductive invariant.
TicketIInv ==
  /\ TicketTypeOK
  /\ \A r \in Updates : UpdateInv(r)
  /\ AloneInv
  /\ PollInv
  /\ TimesAreJustified
  /\ RushIsLate
  /\ ServedIsFinal

-----------------------------------------------------------------------------
\* A served item has no route to another status.
LEMMA ServedHasNoRoute ==
  ASSUME NEW s, validateCookingTransition("SERVED", s)
  PROVE  s = "SERVED"
BY DEF validateCookingTransition, cookingRoutes

\* What was broadcast for an item says nothing of the priority.
LEMMA EventKinds == \A r, p : <<"item", r>> # <<"rush", p>>
OBVIOUS

\* The ticket as createOrder leaves it.
LEMMA TicketInitIInv == TicketInit => TicketIInv
<1> SUFFICES ASSUME TicketInit PROVE TicketIInv
  OBVIOUS
<1> USE TicketAssumption, TimeAssumption DEF TicketInit
<1>0. 0 \in Times
  BY DEF Times
<1>a. overlapped \in BOOLEAN
  OBVIOUS
<1>1. TicketTypeOK
  BY <1>0, <1>a DEF TicketTypeOK, CookingStatus, NoStamp, Busy
<1>2. (\A r \in Updates : UpdateInv(r)) /\ AloneInv /\ PollInv
  BY DEF UpdateInv, AloneInv, UpdateReadsHold, PollInv, Busy
<1>3. TimesAreJustified /\ RushIsLate /\ ServedIsFinal
  BY DEF TimesAreJustified, RushIsLate, ServedIsFinal
<1> QED BY <1>1, <1>2, <1>3 DEF TicketIInv

\* The steps of updateCookingStatus keep TicketIInv.
LEMMA UpdateSteps ==
  ASSUME TicketIInv, NEW r \in Updates,
         \/ \E i \in Items, s \in CookingStatus : UpdateCookingStatus(r, i, s)
         \/ WriteCookingStatus(r) \/ ReadQueue(r) \/ WriteTimes(r) \/ BroadcastItem(r)
  PROVE  TicketIInv'
<1> USE TicketAssumption, TimeAssumption DEF TicketIInv, TicketTypeOK, Goto, ticket
<1>0. clock \in Nat /\ clock <= MaxTime /\ Times \subseteq Nat
  BY DEF Times
<1>1. ASSUME NEW i \in Items, NEW s \in CookingStatus, UpdateCookingStatus(r, i, s)
      PROVE  TicketIInv'
  <2> USE <1>1 DEF UpdateCookingStatus
  <2>1. TicketTypeOK'
    BY DEF Busy
  <2>2. (\A q \in Updates : UpdateInv(q)') /\ PollInv'
    BY DEF UpdateInv, PollInv, Busy, Written
  <2>3. AloneInv'
    BY DEF AloneInv, UpdateReadsHold, Busy
  <2>4. TimesAreJustified' /\ RushIsLate' /\ ServedIsFinal'
    BY DEF TimesAreJustified, RushIsLate, ServedIsFinal
  <2> QED BY <2>1, <2>2, <2>3, <2>4
<1>2. CASE WriteCookingStatus(r)
  <2> USE <1>2 DEF WriteCookingStatus
  <2>0. item[r] \in Items /\ next[r] \in CookingStatus /\ Written(r) \in cooked'
          /\ cooked \subseteq cooked' /\ stage[r] \in Busy
    BY DEF UpdateInv, Busy, Written
  <2>1. TicketTypeOK'
    BY <2>0 DEF Busy
  <2>2. (\A q \in Updates : UpdateInv(q)') /\ PollInv'
    BY <2>0 DEF UpdateInv, PollInv, Busy, Written
  <2>3. AloneInv'
    BY <2>0 DEF AloneInv, UpdateReadsHold, Busy
  <2>4. TimesAreJustified' /\ RushIsLate'
    BY <2>0 DEF TimesAreJustified, RushIsLate
  <2>5. ServedIsFinal'
    <3> SUFFICES ASSUME ~overlapped, NEW j \in Items, <<j, "SERVED">> \in cooked'
                 PROVE  cooking'[j] = "SERVED"
      BY DEF ServedIsFinal
    <3>1. CASE <<j, "SERVED">> \in cooked
      <4>1. cooking[j] = "SERVED"
        BY <3>1 DEF ServedIsFinal
      <4>2. item[r] = j => next[r] = "SERVED"
        BY <4>1, ServedHasNoRoute DEF AloneInv, UpdateReadsHold
      <4> QED BY <4>1, <4>2, <2>0
    <3>2. CASE <<j, "SERVED">> = <<item[r], next[r]>>
      BY <3>2, <2>0
    <3> QED BY <3>1, <3>2
  <2> QED BY <2>1, <2>2, <2>3, <2>4, <2>5
<1>3. CASE ReadQueue(r)
  <2> DEFINE up == updateData(r)
  <2>0. /\ stage[r] = "queue" /\ Written(r) \in cooked
        /\ item[r] \in Items /\ next[r] \in CookingStatus
        /\ UNCHANGED <<clock, cooking, cooked, ticket, events, item, next, overlapped>>
        /\ stage'[r] \in {"stamp", "emit"}
        /\ stage' = [stage EXCEPT ![r] = stage'[r]]
        /\ stamp' = stamp \/ stamp' = [stamp EXCEPT ![r] = up]
        /\ stage'[r] = "stamp" => stamp' = [stamp EXCEPT ![r] = up]
    BY <1>3 DEF ReadQueue, UpdateInv, Busy
  <2>1. /\ up \in [started : Times \cup {Unset}, completed : Times \cup {Unset}]
        /\ up.started # Unset => up.started = clock /\ next[r] = "PREPARING" /\ started = Unset
        /\ up.completed # Unset => up.completed = clock /\ next[r] \in {"COOKED", "SERVED"}
    BY DEF updateData
  <2> HIDE DEF up
  <2>2. TicketTypeOK'
    BY <2>0, <2>1 DEF Busy
  <2>3. (\A q \in Updates : UpdateInv(q)') /\ PollInv'
    BY <1>0, <2>0, <2>1 DEF UpdateInv, PollInv, Busy, Written
  <2>4. AloneInv'
    BY <1>0, <2>0, <2>1 DEF AloneInv, UpdateReadsHold, Busy, TimesAreJustified
  <2>5. TimesAreJustified' /\ RushIsLate' /\ ServedIsFinal'
    BY <2>0 DEF TimesAreJustified, RushIsLate, ServedIsFinal
  <2> QED BY <2>2, <2>3, <2>4, <2>5
<1>4. CASE WriteTimes(r)
  <2> USE <1>4 DEF WriteTimes
  <2>0. /\ stamp[r] \in [started : Times \cup {Unset}, completed : Times \cup {Unset}]
        /\ Written(r) \in cooked /\ item[r] \in Items /\ stage[r] \in Busy
        /\ stamp[r].started # Unset => stamp[r].started <= clock /\ next[r] = "PREPARING"
        /\ stamp[r].completed # Unset =>
             stamp[r].completed <= clock /\ next[r] \in {"COOKED", "SERVED"}
    BY DEF UpdateInv, Busy
  <2>1. TicketTypeOK'
    BY <2>0 DEF Busy
  <2>2. (\A q \in Updates : UpdateInv(q)') /\ PollInv'
    BY DEF UpdateInv, PollInv, Busy, Written
  <2>3. AloneInv'
    BY <2>0 DEF AloneInv, UpdateReadsHold, Busy
  <2>4. TimesAreJustified'
    BY <2>0 DEF TimesAreJustified, Written
  <2>5. RushIsLate' /\ ServedIsFinal'
    BY DEF RushIsLate, ServedIsFinal
  <2> QED BY <2>1, <2>2, <2>3, <2>4, <2>5
<1>5. CASE BroadcastItem(r)
  <2> USE <1>5 DEF BroadcastItem
  <2>1. TicketTypeOK'
    BY DEF Busy
  <2>2. (\A q \in Updates : UpdateInv(q)') /\ PollInv'
    BY DEF UpdateInv, PollInv, Busy, Written
  <2>3. AloneInv' /\ TimesAreJustified' /\ ServedIsFinal'
    BY DEF AloneInv, UpdateReadsHold, Busy, TimesAreJustified, ServedIsFinal
  <2>4. RushIsLate'
    BY EventKinds DEF RushIsLate
  <2> QED BY <2>1, <2>2, <2>3, <2>4
<1> QED BY <1>1, <1>2, <1>3, <1>4, <1>5

\* The clock and the steps of getTickets keep TicketIInv.
LEMMA PollSteps ==
  ASSUME TicketIInv, Tick \/ \E p \in Polls : GetTickets(p) \/ EscalatePriority(p)
  PROVE  TicketIInv'
<1> USE TicketAssumption, TimeAssumption DEF TicketIInv, TicketTypeOK, Goto, ticket
<1>0. clock \in Nat /\ clock <= MaxTime /\ Times \subseteq Nat
  BY DEF Times
<1>1. CASE Tick
  <2> USE <1>1 DEF Tick
  <2>0. \A t \in Times : t <= clock => t <= clock'
    BY <1>0
  <2>1. TicketTypeOK'
    BY <1>0 DEF Times
  <2>2. \A q \in Updates : UpdateInv(q)'
    <3> TAKE q \in Updates
    <3>1. stamp[q] \in [started : Times \cup {Unset}, completed : Times \cup {Unset}]
      OBVIOUS
    <3> QED BY <2>0, <3>1 DEF UpdateInv, Written
  <2>3. AloneInv' /\ ServedIsFinal'
    BY DEF AloneInv, UpdateReadsHold, ServedIsFinal
  <2>4. TimesAreJustified'
    BY <2>0 DEF TimesAreJustified
  <2>5. PollInv' /\ RushIsLate'
    BY <1>0 DEF PollInv, RushIsLate
  <2> QED BY <2>1, <2>2, <2>3, <2>4, <2>5
<1>2. ASSUME NEW p \in Polls, GetTickets(p)
      PROVE  TicketIInv'
  <2> USE <1>2 DEF GetTickets
  <2>1. TicketTypeOK'
    BY DEF Busy
  <2>2. (\A q \in Updates : UpdateInv(q)') /\ PollInv'
    BY DEF UpdateInv, PollInv, Busy, Written, computedPriority
  <2>3. AloneInv' /\ ServedIsFinal'
    BY DEF AloneInv, UpdateReadsHold, ServedIsFinal, Busy
  <2>4. TimesAreJustified' /\ RushIsLate'
    BY DEF TimesAreJustified, RushIsLate
  <2> QED BY <2>1, <2>2, <2>3, <2>4
<1>3. ASSUME NEW p \in Polls, EscalatePriority(p)
      PROVE  TicketIInv'
  <2> USE <1>3 DEF EscalatePriority
  <2>1. TicketTypeOK'
    BY DEF Busy
  <2>2. (\A q \in Updates : UpdateInv(q)') /\ PollInv'
    BY DEF UpdateInv, PollInv, Busy, Written
  <2>3. AloneInv' /\ ServedIsFinal'
    BY DEF AloneInv, UpdateReadsHold, ServedIsFinal, Busy
  <2>4. TimesAreJustified' /\ RushIsLate'
    BY DEF TimesAreJustified, RushIsLate, PollInv
  <2> QED BY <2>1, <2>2, <2>3, <2>4
<1> QED BY <1>1, <1>2, <1>3

\* Every step keeps TicketIInv.
LEMMA TicketNextIInv == TicketIInv /\ [TicketNext]_ticketVars => TicketIInv'
<1> SUFFICES ASSUME TicketIInv, [TicketNext]_ticketVars PROVE TicketIInv'
  OBVIOUS
<1>1. CASE UNCHANGED ticketVars
  BY <1>1
  DEF ticketVars, TicketIInv, TicketTypeOK, UpdateInv, Written, AloneInv, UpdateReadsHold,
      PollInv, TimesAreJustified, RushIsLate, ServedIsFinal
<1>2. CASE TicketNext
  BY <1>2, UpdateSteps, PollSteps DEF TicketNext
<1> QED BY <1>1, <1>2

-----------------------------------------------------------------------------
\* The times updateKitchenQueueTimestamps stores and the priority getTickets
\* escalates have a cause, and until updates overlap what was served stays
\* served, for any number of requests and polls.
THEOREM TicketCorrect == TicketSpec => []TicketInv
<1>1. TicketIInv => TicketInv
  BY DEF TicketIInv, TicketInv
<1> QED BY <1>1, TicketInitIInv, TicketNextIInv, PTL DEF TicketSpec

\* updateKitchenQueueTimestamps: until updates overlap the start of cooking is
\* recorded once and the end only moves forward.
THEOREM TimesNeverGoBack == TicketSpec => TimesAreStable
<1> DEFINE Stable ==
      ~overlapped' => /\ started # Unset => started' = started
                      /\ completed # Unset => completed' >= completed
<1>1. TicketIInv /\ [TicketNext]_ticketVars => [Stable]_ticketVars
  <2> SUFFICES ASSUME TicketIInv, TicketNext, ~overlapped' PROVE Stable
    OBVIOUS
  <2> USE TicketAssumption, TimeAssumption DEF TicketIInv, TicketTypeOK, ticket
  <2>0. Times \subseteq Nat
    BY DEF Times
  <2>1. ASSUME NEW r \in Updates, WriteTimes(r) PROVE Stable
    <3>1. /\ UpdateReadsHold(r)
          /\ stamp[r] \in [started : Times \cup {Unset}, completed : Times \cup {Unset}]
      BY <2>1 DEF AloneInv, WriteTimes
    <3> QED BY <2>0, <2>1, <3>1 DEF WriteTimes, UpdateReadsHold
  <2>2. UNCHANGED <<started, completed>> \/ \E r \in Updates : WriteTimes(r)
    BY DEF TicketNext, Tick, UpdateCookingStatus, WriteCookingStatus, ReadQueue, BroadcastItem,
           GetTickets, EscalatePriority
  <2> QED BY <2>0, <2>1, <2>2
<1> QED BY <1>1, TicketInitIInv, TicketNextIInv, PTL DEF TicketSpec, TimesAreStable
=============================================================================
