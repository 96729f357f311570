---------------------------- MODULE MCAiWorkflow ----------------------------
(* A small instance of AiWorkflow: a workflow of every risk level, two of     *)
(* them with the same agent.                                                  *)
EXTENDS AiWorkflow

MCEndpoints ==
    {[agent |-> "route", risk |-> "L1", role |-> "ai_agent"],
     [agent |-> "route", risk |-> "L2", role |-> "logistic_disponent"],
     [agent |-> "finance", risk |-> "L3", role |-> "ai_agent"]}

=============================================================================
