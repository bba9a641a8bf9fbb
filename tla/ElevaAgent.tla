----------------------------- MODULE ElevaAgent -----------------------------
(***************************************************************************)
(* The Eleva agent: approvals of actions (ElevaService), the task pipeline *)
(* (ElevaAgentService.runTask and AgentExecutionService.executeTask), the  *)
(* objective with its plan and blockers, and operational plans that run    *)
(* under an approval (ElevaBusinessIntelligenceService).  All of it lives  *)
(* in the memory of one process, the "memory" entries too: a new process   *)
(* starts from AgentInit, and loadProjectState finds nothing to restore.   *)
(*                                                                         *)
(* None of the awaits of a handler lets another one in except those that   *)
(* leave the process: a tool that runs, the audit row, a plan's verifier.  *)
(* Each handler is therefore one action up to there.                       *)
(***************************************************************************)
EXTENDS Values

CONSTANTS
  ActionIds,   \* ids under which actions are approved
  Tasks,       \* tasks ever run
  Plans,       \* operational plans ever built
  Objectives,
  ExtraTools,  \* definitions of tools that may be registered next to the safe one
  MaxPlanRuns  \* bound: approvals, executions of a plan and "no objective" entries

VARIABLES
  approvals,   \* ElevaService.approvals
  extraTool,   \* the tool registered next to the safe one, or NoTool
  task,        \* what each task waits for
  executions,  \* executionOrder with the outcomes
  pending,     \* pendingApprovalActionIds: the tasks named in it
  objective, plan, blockers,
  mem,         \* the newest memory entry under each of the agent's keys
  opPlan,      \* operational plans
  foreign,     \* history: someone else wrote under one of the agent's keys
  failed       \* history: tasks whose verification failed

agentVars == <<approvals, extraTool, task, executions, pending, objective, plan, blockers,
               mem, opPlan, foreign, failed>>

NoId == "no_id"
ToolDefs == [needsApproval : BOOLEAN, highRisk : BOOLEAN, verifies : BOOLEAN, registered : BOOLEAN]
NoTool == [needsApproval |-> FALSE, highRisk |-> FALSE, verifies |-> FALSE, registered |-> FALSE]
SafeTool == [needsApproval |-> FALSE, highRisk |-> FALSE, verifies |-> TRUE, registered |-> TRUE]
Unknown == [known |-> FALSE, approved |-> FALSE, revoked |-> FALSE, executed |-> FALSE]
ApprovalRecords == [known : BOOLEAN, approved : BOOLEAN, revoked : BOOLEAN, executed : BOOLEAN]
Outcomes == {"UNAUTHORIZED", "APPROVAL_REQUIRED", "INVALID_INPUT", "TOOL_FAILURE",
             "VERIFICATION_FAILURE", "EXECUTED"}
\* A task request.  It may name a tool, a capability, both or neither; "deploy"
\* is a name that isApprovalRequired matches and no tool has; hasInput is false
\* when the body carries no input.
Requests == [tool : {"none", "safe", "extra", "deploy"}, capability : {"none", "safe", "extra"},
             highRisk : BOOLEAN, id : ActionIds \cup {NoId}, hasInput : BOOLEAN]
NewTask == [phase |-> "new"]
NoObjective == "none"
\* Entries of the blocker list: a task whose verification failed, or the
\* complaint that no objective is set.
NoObjectiveBlocker == "no_active_objective"
Unwritten == [is |-> "unwritten"]
Garbage == [is |-> "not_JSON"]
Entry(v) == [is |-> "value", value |-> v]
Keys == {"objective", "plan", "blockers", "history"}
PlanItems == {"resolve_blocker", "investigate_failure", "continue_objective", "advice"}
\* waiting counts the executions whose verifier has not answered; approvals
\* and runs are history.
NewPlan == [status |-> "none", id |-> NoId, waiting |-> 0, approvals |-> 0, runs |-> 0]

\* Ids are not empty, and the id of a task is not the text of a complaint.
ASSUME AgentAssumption ==
  /\ NoId \notin ActionIds
  /\ NoObjectiveBlocker \notin Tasks
  /\ ExtraTools \subseteq ToolDefs

AgentTypeOK ==
  /\ approvals \in [ActionIds -> ApprovalRecords]
  /\ extraTool \in ExtraTools \cup {NoTool}
  /\ \A t \in Tasks : task[t].phase \in {"new", "running", "auditing", "done"}
  /\ \A i \in DOMAIN executions : executions[i].task \in Tasks /\ executions[i].outcome \in Outcomes
  /\ pending \subseteq Tasks
  /\ objective \in Objectives \cup {NoObjective}
  /\ \A i \in DOMAIN plan : plan[i] \in PlanItems
  /\ \A i \in DOMAIN blockers : blockers[i] \in Tasks \cup {NoObjectiveBlocker}
  /\ DOMAIN mem = Keys
  /\ \A p \in Plans : opPlan[p].status \in {"none", "pending", "approved", "executed", "failed", "verified"}
  /\ foreign \in BOOLEAN
  /\ failed \subseteq Tasks

AgentInit ==
  /\ approvals = [a \in ActionIds |-> Unknown]
  /\ extraTool = NoTool
  /\ task = [t \in Tasks |-> NewTask]
  /\ executions = <<>> /\ pending = {}
  /\ objective = NoObjective /\ plan = <<>> /\ blockers = <<>>
  /\ mem = [k \in Keys |-> Unwritten]
  /\ opPlan = [p \in Plans |-> NewPlan]
  /\ foreign = FALSE
  /\ failed = {}

---------------------------------------------------------------------------
(* ElevaService *)

\* recordApproval replaces the whole record: a revocation or an execution
\* that was recorded under the id is gone.
Recorded == [known |-> TRUE, approved |-> TRUE, revoked |-> FALSE, executed |-> FALSE]

recordApproval(a) ==
  /\ approvals' = [approvals EXCEPT ![a] = Recorded]
  /\ UNCHANGED <<extraTool, task, executions, pending, objective, plan, blockers, mem, opPlan,
                 foreign, failed>>

revokeApproval(a) ==
  /\ approvals[a].known
  /\ approvals' = [approvals EXCEPT ![a].approved = FALSE, ![a].revoked = TRUE]
  /\ UNCHANGED <<extraTool, task, executions, pending, objective, plan, blockers, mem, opPlan,
                 foreign, failed>>

isApproved(a) == approvals[a].approved /\ ~approvals[a].revoked

Marked(a) == [approvals EXCEPT ![a].executed = approvals[a].known]

\* POST approvals/execute.
markExecuted(a) ==
  /\ approvals[a].known
  /\ approvals' = Marked(a)
  /\ UNCHANGED <<extraTool, task, executions, pending, objective, plan, blockers, mem, opPlan,
                 foreign, failed>>

---------------------------------------------------------------------------
(* The task pipeline *)

registerTool(def) ==
  /\ ~extraTool.registered       \* bound: one tool more
  /\ extraTool' = def
  /\ UNCHANGED <<approvals, task, executions, pending, objective, plan, blockers, mem, opPlan,
                 foreign, failed>>

\* Without a name that is registered, the first tool with the capability asked
\* for is taken, the safe one when there is none.
Chosen(req) == IF req.tool = "safe" \/ (req.tool = "extra" /\ extraTool.registered)
               THEN req.tool ELSE req.capability
resolveTool(req) == IF Chosen(req) = "extra" /\ extraTool.registered THEN extraTool ELSE SafeTool

Risky(req) == req.highRisk \/ req.tool = "deploy"

isApprovalRequired(req) == req.tool # "none" /\ Risky(req)

HasApproval(req) == req.id # NoId /\ approvals[req.id].approved

recordExecution(t, outcome) == executions' = Append(executions, [task |-> t, outcome |-> outcome])

\* What executeTask answers before it runs the tool, "" when it runs it.  An
\* id is enough for a tool that needs approval: evaluateApproval grants it.
Gate(req, tool, allowed) ==
  CASE ~allowed -> "UNAUTHORIZED"
    [] allowed /\ tool.needsApproval /\ req.id = NoId -> "APPROVAL_REQUIRED"
    [] allowed /\ ~(tool.needsApproval /\ req.id = NoId) /\ ~req.hasInput -> "INVALID_INPUT"
    [] OTHER -> ""

\* The part of runTask that needs no tool: no user, or an approval is missing.
RefuseTask(t, req, hasUser) ==
  /\ task[t] = NewTask
  /\ ~hasUser \/ (isApprovalRequired(req) /\ ~HasApproval(req))
  /\ recordExecution(t, IF hasUser THEN "APPROVAL_REQUIRED" ELSE "UNAUTHORIZED")
  /\ pending' = pending \cup {x \in {t} : hasUser}
  /\ task' = [task EXCEPT ![t] = [phase |-> "done"]]
  /\ UNCHANGED <<approvals, extraTool, objective, plan, blockers, mem, opPlan, foreign, failed>>

\* A task whose tool runs, and what its request said.
Running(req, tool) == [phase |-> "running", tool |-> tool, named |-> req.tool # "none",
                       risky |-> Risky(req), hasId |-> req.id # NoId, approved |-> HasApproval(req)]

\* runTask up to the first await that leaves the process.
StartTask(t, req, allowed) ==
  LET tool == resolveTool(req)
      answer == Gate(req, tool, allowed)
  IN  /\ task[t] = NewTask
      /\ ~(isApprovalRequired(req) /\ ~HasApproval(req))
      /\ task' = [task EXCEPT ![t] =
                    IF answer = "" THEN Running(req, tool)
                    ELSE [phase |-> "auditing", outcome |-> answer]]
      /\ UNCHANGED <<approvals, extraTool, executions, pending, objective, plan, blockers, mem,
                     opPlan, foreign, failed>>

\* The tool and its verify: a tool of high risk without one counts as not verified.
Verdict(tool, ran, verified) ==
  CASE ~ran -> "TOOL_FAILURE"
    [] ran /\ tool.verifies /\ ~verified -> "VERIFICATION_FAILURE"
    [] ran /\ ~tool.verifies /\ tool.highRisk -> "VERIFICATION_FAILURE"
    [] OTHER -> "EXECUTED"

ToolSettles(t, ran, verified) ==
  /\ task[t].phase = "running"
  /\ LET outcome == Verdict(task[t].tool, ran, verified) IN
     /\ task' = [task EXCEPT ![t] = [phase |-> "auditing", outcome |-> outcome]]
     /\ failed' = failed \cup {x \in {t} : outcome = "VERIFICATION_FAILURE"}
  /\ UNCHANGED <<approvals, extraTool, executions, pending, objective, plan, blockers, mem,
                 opPlan, foreign>>

\* verify throws: the request fails and nothing is recorded.
VerifyThrows(t) ==
  /\ task[t].phase = "running" /\ task[t].tool.verifies
  /\ task' = [task EXCEPT ![t] = [phase |-> "done"]]
  /\ UNCHANGED <<approvals, extraTool, executions, pending, objective, plan, blockers, mem,
                 opPlan, foreign, failed>>

\* Mutant: the blocker is not persisted.
FinishTaskUnsaved(t) ==
  /\ task[t].phase = "auditing"
  /\ recordExecution(t, task[t].outcome)
  /\ blockers' = IF task[t].outcome = "VERIFICATION_FAILURE" THEN Append(blockers, t) ELSE blockers
  /\ pending' = IF task[t].outcome = "APPROVAL_REQUIRED" THEN pending \cup {t} ELSE pending \ {t}
  /\ task' = [task EXCEPT ![t] = [phase |-> "done"]]
  /\ UNCHANGED <<approvals, extraTool, objective, plan, mem, opPlan, foreign, failed>>

\* runTask after executeTask: the record, a blocker for a failed verification,
\* the list of pending approvals.  The entry deleted after an approved run is
\* that of the new task id, which was never in the list.
FinishTask(t) ==
  /\ task[t].phase = "auditing"
  /\ recordExecution(t, task[t].outcome)
  /\ blockers' = IF task[t].outcome = "VERIFICATION_FAILURE" THEN Append(blockers, t) ELSE blockers
  /\ mem' = IF task[t].outcome = "VERIFICATION_FAILURE" THEN [mem EXCEPT !["blockers"] = Entry(blockers')]
            ELSE mem
  /\ pending' = IF task[t].outcome = "APPROVAL_REQUIRED" THEN pending \cup {t} ELSE pending \ {t}
  /\ task' = [task EXCEPT ![t] = [phase |-> "done"]]
  /\ UNCHANGED <<approvals, extraTool, objective, plan, opPlan, foreign, failed>>

---------------------------------------------------------------------------
(* Objective, plan and blockers *)

setObjective(o) ==
  /\ objective' = o
  /\ mem' = [mem EXCEPT !["objective"] = Entry(o)]
  /\ UNCHANGED <<approvals, extraTool, task, executions, pending, plan, blockers, opPlan, foreign,
                 failed>>

Parsed(entry, kept) ==
  CASE entry = Unwritten -> kept
    [] entry = Garbage -> <<>>
    [] OTHER -> entry.value

\* loadProjectState: recall() finds the newest entry under a key, whatever its
\* category.  Nothing in the code writes under the history key.
Loaded == [objective  |-> IF objective = NoObjective /\ mem["objective"] # Unwritten
                          THEN mem["objective"].value ELSE objective,
           executions |-> IF mem["history"] \in {Unwritten, Garbage} THEN executions
                          ELSE mem["history"].value,
           plan       |-> Parsed(mem["plan"], plan),
           blockers   |-> Parsed(mem["blockers"], blockers)]

Failures(list) == {i \in DOMAIN list : list[i].outcome \in {"VERIFICATION_FAILURE", "TOOL_FAILURE"}}
TaskBlockers(list) == Kept(list, {i \in DOMAIN list : list[i] # NoObjectiveBlocker})

\* With an objective and no other blocker, old complaints that there is no
\* objective stay in the list.
determineNextAction(s) ==
  CASE s.objective = NoObjective ->
         [plan |-> <<>>, blockers |-> Append(s.blockers, NoObjectiveBlocker)]
    [] s.objective # NoObjective /\ TaskBlockers(s.blockers) # <<>> ->
         [plan |-> <<"resolve_blocker">>, blockers |-> TaskBlockers(s.blockers)]
    [] s.objective # NoObjective /\ TaskBlockers(s.blockers) = <<>> /\ Failures(s.executions) # {} ->
         [plan |-> <<"investigate_failure">>, blockers |-> s.blockers]
    [] OTHER -> [plan |-> <<"continue_objective">>, blockers |-> s.blockers]

\* continueFromLastState: load, optionally a new objective, decide, persist.
continueFromLastState(o) ==
  LET s == [Loaded EXCEPT !.objective = IF o = NoObjective THEN Loaded.objective ELSE o]
      next == determineNextAction(s)
  IN  /\ Len(Loaded.blockers) < MaxPlanRuns
      /\ objective' = s.objective
      /\ executions' = s.executions
      /\ plan' = next.plan
      /\ blockers' = next.blockers
      /\ mem' = [mem EXCEPT !["objective"] = IF o = NoObjective THEN mem["objective"] ELSE Entry(o),
                            !["plan"] = Entry(next.plan), !["blockers"] = Entry(next.blockers)]
      /\ UNCHANGED <<approvals, extraTool, task, pending, opPlan, foreign, failed>>

\* planNextTask: the advisory findings become the plan; the advisory of an
\* objective never needs approval.
planNextTask(o) ==
  /\ o # NoObjective \/ objective # NoObjective
  /\ plan' = <<"advice">>
  /\ mem' = [mem EXCEPT !["plan"] = Entry(plan')]
  /\ UNCHANGED <<approvals, extraTool, task, executions, pending, objective, blockers, opPlan,
                 foreign, failed>>

\* POST memory takes any category and key, the agent's own keys too.
RememberUnderAgentKey(k, v) ==
  /\ ~foreign       \* bound: once
  /\ mem' = [mem EXCEPT ![k] = v]
  /\ foreign' = TRUE
  /\ UNCHANGED <<approvals, extraTool, task, executions, pending, objective, plan, blockers,
                 opPlan, failed>>

---------------------------------------------------------------------------
(* Operational plans *)

\* A plan with a sensitive task gets an action id, which is recorded as
\* approved at once; the plan itself waits for approveM6Plan.
buildOperationalPlan(p, a, sensitive) ==
  /\ opPlan[p].status = "none"
  /\ ~approvals[a].known /\ \A q \in Plans : opPlan[q].id # a     \* generateId
  /\ opPlan' = [opPlan EXCEPT ![p] =
       IF sensitive THEN [NewPlan EXCEPT !.status = "pending", !.id = a]
       ELSE [NewPlan EXCEPT !.status = "approved"]]
  /\ approvals' = IF sensitive THEN [approvals EXCEPT ![a] = Recorded] ELSE approvals
  /\ UNCHANGED <<extraTool, task, executions, pending, objective, plan, blockers, mem, foreign,
                 failed>>

\* approveM6Plan asks for no particular status.
approveM6Plan(p) ==
  /\ opPlan[p].id # NoId
  /\ opPlan[p].approvals < MaxPlanRuns
  /\ opPlan' = [opPlan EXCEPT ![p].status = "approved", ![p].approvals = @ + 1]
  /\ UNCHANGED <<approvals, extraTool, task, executions, pending, objective, plan, blockers, mem,
                 foreign, failed>>

\* executeM6Plan up to its verifier.
executeM6Plan(p) ==
  /\ opPlan[p].id # NoId
  /\ opPlan[p].status = "approved"
  /\ isApproved(opPlan[p].id)
  /\ opPlan[p].runs < MaxPlanRuns
  /\ opPlan' = [opPlan EXCEPT ![p].status = "executed", ![p].waiting = @ + 1, ![p].runs = @ + 1]
  /\ UNCHANGED <<approvals, extraTool, task, executions, pending, objective, plan, blockers, mem,
                 foreign, failed>>

\* The verifier of one execution answers; a verified plan is marked executed.
VerifyM6Plan(p, verified) ==
  /\ opPlan[p].waiting > 0
  /\ opPlan' = [opPlan EXCEPT ![p].status = IF verified THEN "verified" ELSE "failed",
                              ![p].waiting = @ - 1]
  /\ approvals' = IF verified THEN Marked(opPlan[p].id) ELSE approvals
  /\ UNCHANGED <<extraTool, task, executions, pending, objective, plan, blockers, mem, foreign,
                 failed>>

\* The parts of the next-state relation: the task pipeline, the objective that
\* is pursued between tasks, the operational plans; the approvals belong to all.
PipelineNext ==
  \/ \E def \in ExtraTools : registerTool(def)
  \/ \E t \in Tasks, req \in Requests, b \in BOOLEAN : RefuseTask(t, req, b) \/ StartTask(t, req, b)
  \/ \E t \in Tasks, ran, verified \in BOOLEAN : ToolSettles(t, ran, verified)
  \/ \E t \in Tasks : VerifyThrows(t) \/ FinishTask(t)

ObjectiveNext ==
  \/ \E o \in Objectives : setObjective(o)
  \/ \E o \in Objectives \cup {NoObjective} : continueFromLastState(o) \/ planNextTask(o)
  \/ \E k \in Keys \ {"objective"}, v \in {Garbage, Entry(<<>>)} : RememberUnderAgentKey(k, v)

TaskNext == PipelineNext \/ ObjectiveNext

PlanNext ==
  \/ \E p \in Plans, a \in ActionIds, b \in BOOLEAN : buildOperationalPlan(p, a, b)
  \/ \E p \in Plans : approveM6Plan(p) \/ executeM6Plan(p)
  \/ \E p \in Plans, b \in BOOLEAN : VerifyM6Plan(p, b)

ApprovalNext ==
  \E a \in ActionIds : recordApproval(a) \/ revokeApproval(a) \/ markExecuted(a)

AgentSpec == AgentInit /\ [][TaskNext \/ PlanNext \/ ApprovalNext]_agentVars

---------------------------------------------------------------------------
(* Properties *)

\* A task whose verification failed stays among the blockers, whatever is
\* loaded, decided and persisted in between, as long as nobody else writes
\* under the agent's memory keys (runTask, loadProjectState,
\* continueFromLastState).
FailureStaysABlocker ==
  ~foreign => \A t \in failed : task[t].phase = "done" => \E i \in DOMAIN blockers : blockers[i] = t

\* A tool that needs approval runs without an approved action only for a
\* request that carries some action id and either names no tool, so that it was
\* picked by its capability, or declares no risk: runTask asks for the approval
\* only when the request has a name, and looks at the name and the declared risk
\* instead of the tool; executeTask looks only at the presence of the id.  A
\* request that names what it wants and declares a risk, or has a name that
\* sounds of one, never runs such a tool unapproved.
UnapprovedRunsHideTheRisk ==
  \A t \in Tasks :
    task[t].phase = "running" /\ task[t].tool.needsApproval /\ ~task[t].approved =>
      task[t].hasId /\ ~(task[t].named /\ task[t].risky)

\* Every execution of an operational plan was approved for itself: however
\* executions, verifiers and approvals overlap, a plan is not executed twice
\* on one approval (executeM6Plan leaves 'approved' before it awaits).
PlanRunsAreApproved == \A p \in Plans : opPlan[p].runs <= opPlan[p].approvals

\* What the office shows as waiting for approval was answered so, and was not
\* run since: no tool runs under a task id that is listed (runTask).
PendingWereRefused ==
  \A t \in pending :
    /\ task[t].phase = "done" /\ t \notin failed
    /\ ~foreign => \E i \in DOMAIN executions : executions[i] = [task |-> t, outcome |-> "APPROVAL_REQUIRED"]

\* What the agent owes its owner (runTask, executeTask, executeM6Plan): failures stay
\* visible, and what ran, ran within its approval.
AgentInv ==
  /\ AgentTypeOK
  /\ FailureStaysABlocker
  /\ UnapprovedRunsHideTheRisk
  /\ PlanRunsAreApproved
  /\ PendingWereRefused
=============================================================================
