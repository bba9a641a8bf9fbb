------------------------------ MODULE MCEleva ------------------------------
(* The parts of Eleva that share no state are explored one at a time: focus  *)
(* says which one moves.  Tasks meet tools that need approval and approvals  *)
(* that come and go in "tasks", and what is pursued between them in          *)
(* "objective".                                                              *)
EXTENDS ElevaAgent, ElevaOffice, ElevaInsights, TLC

VARIABLE focus

\* A tool that needs approval with and without a verification of its own, and
\* a harmless one without.
MCExtraTools ==
  {[needsApproval |-> a, highRisk |-> a, verifies |-> v, registered |-> TRUE] :
     <<a, v>> \in {<<TRUE, TRUE>>, <<TRUE, FALSE>>, <<FALSE, FALSE>>}}

mcVars == <<agentVars, officeVars, insightVars, focus>>

MCInit ==
  /\ focus \in {"tasks", "objective", "plans", "office", "voice", "situations", "metrics"}
  /\ AgentInit /\ OfficeInit /\ InsightInit

MCNext ==
  /\ UNCHANGED focus
  /\ \/ focus = "tasks" /\ (PipelineNext \/ ApprovalNext) /\ UNCHANGED <<officeVars, insightVars>>
     \/ focus = "objective" /\ (PipelineNext \/ ObjectiveNext) /\ ~extraTool'.needsApproval
        /\ UNCHANGED <<officeVars, insightVars>>
     \/ focus = "plans" /\ (PlanNext \/ ApprovalNext) /\ UNCHANGED <<officeVars, insightVars>>
     \/ focus = "office" /\ ConversationNext /\ UNCHANGED <<agentVars, insightVars>>
     \/ focus = "voice" /\ VoiceNext /\ UNCHANGED <<agentVars, insightVars>>
     \/ focus = "situations" /\ SituationNext /\ UNCHANGED <<agentVars, officeVars>>
     \/ focus = "metrics" /\ MetricNext /\ UNCHANGED <<agentVars, officeVars>>

MCSpec == MCInit /\ [][MCNext]_mcVars

Symmetry == Permutations(Tasks) \cup Permutations(Conversations) \cup Permutations(Branches)
=============================================================================
