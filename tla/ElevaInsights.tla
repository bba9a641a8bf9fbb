--------------------------- MODULE ElevaInsights ---------------------------
(***************************************************************************)
(* Signals, events and situations (ElevaIntelligenceService), and the      *)
(* insights and metrics made of them and of the orders                     *)
(* (ElevaBusinessIntelligenceService).                                     *)
(***************************************************************************)
EXTENDS Values, FiniteSets

CONSTANTS
  MaxEvents,      \* bound: events ever created
  MaxSituations,  \* bound: situations ever created
  MaxFiled,       \* bound: alerts, and recommendations, of a situation
  MaxTime,        \* bound: the clock
  Branches,
  MaxOrders       \* bound: orders the metrics see

ASSUME InsightAssumption == {MaxEvents, MaxSituations, MaxTime} \subseteq Nat

VARIABLES
  now,            \* milliseconds
  signals,        \* signals received
  events,         \* events made of them
  situations,     \* a sequence of situations, each with its id
  alerts,         \* the alerts map: the situation of each alert
  recommendations,\* the recommendations map
  insights,       \* the situation each insight was derived from
  justified,      \* history: situations once assessed with reason and evidence
  orderRows       \* the orders the metrics read

insightVars == <<now, signals, events, situations, alerts, recommendations, insights, justified, orderRows>>

Severities == {"LOW", "HIGH"}
\* INVESTIGATING and ACTIVE are treated like DETECTED everywhere.
SituationStates == {"DETECTED", "RESOLVED"}
\* The enum of the database schema.
OrderStatus == {"DRAFT", "PENDING", "ACCEPTED", "PREPARING", "READY", "COMPLETED", "CANCELLED"}
OrderRows == [branch : Branches, status : OrderStatus, at : 0..3]

InsightTypeOK ==
  /\ now \in 0..MaxTime /\ signals \in 0..1
  /\ events \in 0..MaxEvents /\ Len(situations) <= MaxSituations
  /\ \A i \in DOMAIN situations :
       /\ situations[i].state \in SituationStates /\ situations[i].severity \in Severities
       /\ situations[i].events \subseteq 1..MaxEvents
  /\ justified \subseteq 1..MaxSituations
  /\ \A i \in DOMAIN orderRows : orderRows[i] \in OrderRows

InsightInit ==
  /\ now = 0 /\ signals = 0
  /\ events = 0 /\ situations = <<>> /\ alerts = <<>> /\ recommendations = <<>> /\ insights = <<>>
  /\ justified = {}
  /\ orderRows = <<>>

---------------------------------------------------------------------------
(* Signals, events, situations *)

Tick == now < MaxTime /\ now' = now + 1
        /\ UNCHANGED <<signals, events, situations, alerts, recommendations, insights, justified, orderRows>>

ingestSignal ==
  /\ signals = 0       \* bound: one signal
  /\ signals' = signals + 1
  /\ UNCHANGED <<now, events, situations, alerts, recommendations, insights, justified, orderRows>>

\* Every signal is RECEIVED: nothing marks one invalid, and one signal may
\* become several events.
convertSignalToEvent ==
  /\ signals > 0 /\ events < MaxEvents
  /\ events' = events + 1
  /\ UNCHANGED <<now, signals, situations, alerts, recommendations, insights, justified, orderRows>>

\* The id of a situation is derived from the events and the millisecond.
deriveSituationId(evs) == <<evs, now>>
AtId(id) == {i \in DOMAIN situations : situations[i].id = id}

\* Mutant: the alerts are not carried over.
RebuiltWithoutAlerts(s, evs) == [s EXCEPT !.events = @ \cup evs, !.alerts = <<>>]

\* correlateEvents: the ids of events that do not exist are taken as well.  An
\* existing situation of that id is rebuilt with all it had.
Rebuilt(s, evs) == [s EXCEPT !.events = @ \cup evs]

correlateEvents(evs) ==
  /\ evs # {}
  /\ LET id == deriveSituationId(evs) IN
     situations' =
       IF AtId(id) # {} THEN [i \in DOMAIN situations |-> IF i \in AtId(id)
                                                             THEN Rebuilt(situations[i], evs)
                                                             ELSE situations[i]]
       ELSE Append(situations, [id |-> id, state |-> "DETECTED", severity |-> "LOW", events |-> evs,
                                alerts |-> <<>>, recommendations |-> <<>>, resolution |-> FALSE])
  /\ Len(situations') <= MaxSituations
  /\ UNCHANGED <<now, signals, events, alerts, recommendations, insights, justified, orderRows>>

\* A high severity needs a reason and evidence.
SeverityAllowed(severity, reasoned) == severity = "HIGH" => reasoned

assessSituationSeverity(i, severity, reasoned) ==
  /\ SeverityAllowed(severity, reasoned)
  /\ situations' = [situations EXCEPT ![i].severity = severity]
  /\ justified' = justified \cup {j \in {i} : reasoned}
  /\ UNCHANGED <<now, signals, events, alerts, recommendations, insights, orderRows>>

createRecommendation(i, approval) ==
  /\ Len(situations[i].recommendations) < MaxFiled
  /\ recommendations' = Append(recommendations, situations[i].id)
  /\ situations' = [situations EXCEPT ![i].recommendations = Append(@, approval)]
  /\ UNCHANGED <<now, signals, events, alerts, insights, justified, orderRows>>

\* An alert keeps the severity of the moment.
alertForSituation(i) ==
  /\ Len(situations[i].alerts) < MaxFiled
  /\ alerts' = Append(alerts, [situation |-> situations[i].id, severity |-> situations[i].severity])
  /\ situations' = [situations EXCEPT ![i].alerts = Append(@, situations[i].severity)]
  /\ UNCHANGED <<now, signals, events, recommendations, insights, justified, orderRows>>

\* Any state may follow any other; the resolution once written stays.
advanceSituationState(i, state) ==
  /\ situations' = [situations EXCEPT ![i].state = state, ![i].resolution = @ \/ state = "RESOLVED"]
  /\ UNCHANGED <<now, signals, events, alerts, recommendations, insights, justified, orderRows>>

\* consumeM7SituationsIntoInsights: one insight for each situation with a
\* recommendation, each time it is called.
consumeM7SituationsIntoInsights ==
  LET told == Kept(situations, {i \in DOMAIN situations : situations[i].recommendations # <<>>}) IN
  /\ told # <<>> /\ Len(insights) = 0
  /\ insights' = insights \o [i \in DOMAIN told |-> told[i].id]
  /\ UNCHANGED <<now, signals, events, situations, alerts, recommendations, justified, orderRows>>

---------------------------------------------------------------------------
(* Metrics over the orders of a range *)

OrderArrives(row) ==
  /\ Len(orderRows) < MaxOrders
  /\ orderRows' = Append(orderRows, row)
  /\ UNCHANGED <<now, signals, events, situations, alerts, recommendations, insights, justified>>

\* The rows of the query, as positions.  Both ends of the range belong to it.
Selected(from, to) == {i \in DOMAIN orderRows : from <= orderRows[i].at /\ orderRows[i].at <= to}

\* What a metric is answered with, and what when its query throws.
Available(value, previous, segments) ==
  [status |-> "AVAILABLE", value |-> value, previous |-> previous, segments |-> segments]
Unverified == [status |-> "UNVERIFIED", value |-> None, previous |-> None, segments |-> [k \in {} |-> 0]]

\* sales.revenue asks for the paid orders in these statuses.  The schema has no
\* such status as the last, so the client rejects the query before anything is
\* read: the sums that follow it are never reached.
RevenueStatuses == {"COMPLETED", "CANCELLED", "REFUNDED"}
salesRevenue == Unverified

\* orders.count: a segment for every branch and status that occurs.
segmentOf(i) == <<orderRows[i].branch, orderRows[i].status>>
StatusSegments(rows) ==
  [k \in {segmentOf(i) : i \in rows} |-> Cardinality({i \in rows : segmentOf(i) = k})]

\* orders.count over the range that ends at to, and the one before it, which
\* ends where the first begins.
orderCount(from, to, previous) ==
  Available(Cardinality(Selected(from, to)), Cardinality(Selected(previous, from)),
            StatusSegments(Selected(from, to)))

\* computeMetrics: the metric that fails does not keep the other from its figures.
computeMetrics(from, to, previous) == [revenue |-> salesRevenue, count |-> orderCount(from, to, previous)]

SituationNext ==
  \/ Tick \/ ingestSignal \/ convertSignalToEvent \/ consumeM7SituationsIntoInsights
  \/ \E evs \in SUBSET (1..MaxEvents) : correlateEvents(evs)
  \/ \E i \in DOMAIN situations :
       \/ \E severity \in Severities, reasoned \in BOOLEAN : assessSituationSeverity(i, severity, reasoned)
       \/ \E approval \in BOOLEAN : createRecommendation(i, approval)
       \/ alertForSituation(i)
       \/ \E state \in SituationStates : advanceSituationState(i, state)

MetricNext == \E row \in OrderRows : OrderArrives(row)

InsightSpec == InsightInit /\ [][SituationNext \/ MetricNext]_insightVars

---------------------------------------------------------------------------
(* Properties *)

\* What is filed for a situation stays with it: the situation lists as many
\* alerts and recommendations as the maps hold for its id, also when events
\* are correlated into it again (correlateEvents, alertForSituation,
\* createRecommendation).
NothingLostOnMerge ==
  \A i \in DOMAIN situations :
    /\ Len(situations[i].alerts) =
         Cardinality({k \in DOMAIN alerts : alerts[k].situation = situations[i].id})
    /\ Len(situations[i].recommendations) =
         Cardinality({k \in DOMAIN recommendations : recommendations[k] = situations[i].id})

\* No alert was ever raised with a high severity for a situation that nobody
\* assessed with a reason and evidence (assessSituationSeverity,
\* alertForSituation).
HighAlertsAreJustified ==
  \A i \in DOMAIN situations : \A k \in DOMAIN alerts :
    alerts[k] = [situation |-> situations[i].id, severity |-> "HIGH"] => i \in justified

\* The values of f at some of its keys, added up.
SumOver(f, keys) == Sum([k \in keys |-> f[k]])

\* Figures are shown only where they were computed, and then the counts of the
\* branches and statuses add up to the count: an order is in one segment, and
\* none is left out (computeMetrics, orderCountProvider).
SegmentsAddUp ==
  LET m == computeMetrics(1, 3, 0) IN
  \A metric \in DOMAIN m :
    IF m[metric].status = "AVAILABLE"
    THEN SumOver(m[metric].segments, DOMAIN m[metric].segments) = m[metric].value
    ELSE m[metric].value = None /\ DOMAIN m[metric].segments = {}

\* What the executive sees of situations and metrics (ElevaIntelligenceService,
\* ElevaBusinessIntelligenceService): complete, justified, and adding up.
InsightInv ==
  /\ InsightTypeOK
  /\ NothingLostOnMerge
  /\ HighAlertsAreJustified
  /\ SegmentsAddUp
=============================================================================
