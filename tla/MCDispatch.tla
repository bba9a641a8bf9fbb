----------------------------- MODULE MCDispatch -----------------------------
(* The job queues and the device registrations, which share no state, are    *)
(* explored one at a time: focus says which of the two moves.                *)
EXTENDS Dispatch, PushTokens, TLC

VARIABLE focus

mcVars == <<dispatchVars, pushVars, focus>>

MCInit == focus \in {"jobs", "devices"} /\ DispatchInit /\ PushInit
MCNext ==
  /\ UNCHANGED focus
  /\ \/ focus = "jobs" /\ DispatchNext /\ UNCHANGED pushVars
     \/ focus = "devices" /\ PushNext /\ UNCHANGED dispatchVars

\* The event loop runs every drain it was given and every timer; BullMQ hands
\* out its jobs.  Nothing obliges anyone to dispatch, register or die.
Fairness ==
  /\ \A d \in Jobs : WF_mcVars(focus = "jobs" /\ DrainStep(d) /\ UNCHANGED <<pushVars, focus, fcm>>)
  /\ \A j \in Jobs :
       /\ WF_mcVars(focus = "jobs" /\ RequeueTimer(j) /\ UNCHANGED <<pushVars, focus, fcm>>)
       /\ WF_mcVars(focus = "jobs" /\ BullStep(j) /\ UNCHANGED <<pushVars, focus, fcm>>)

MCSpec == MCInit /\ [][MCNext]_mcVars /\ Fairness
=============================================================================
