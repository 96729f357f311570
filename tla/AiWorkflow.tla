----------------------------- MODULE AiWorkflow -----------------------------
(***************************************************************************)
(* AiWorkflowService (modules/ai) with the authorisation it asks of        *)
(* AiGovernanceService and LogisticsPolicyService.                         *)
(*                                                                         *)
(* An endpoint authorises, writes an audit record, starts to persist the   *)
(* recommendation and answers.  Persisting is a chain of inserts, each     *)
(* sent when the one before is answered; nobody waits for the chain and    *)
(* nobody catches its errors: a rejected insert ends the process, and the  *)
(* other chains stop with it.  An insert that had been sent may still      *)
(* reach its table.                                                        *)
(***************************************************************************)
EXTENDS Naturals

CONSTANTS
    Chains,         \* recommendations answered, by every run of the process
    Endpoints,      \* workflows that clients call
    Approvals       \* values of approvalCount in a request, 0 when there is none

(***************************************************************************)
(* What an endpoint passes on: the agent, the risk level of the action and *)
(* the role it acts with.  L4 and L5 are the level of no workflow.         *)
(***************************************************************************)
Workflows ==
    [agent: {"order", "warehouse", "disponent", "route", "dispute"}, risk: {"L1"},
     role: {"ai_agent"}]
    \cup [agent: {"route", "exception"}, risk: {"L2"}, role: {"logistic_disponent"}]
    \cup [agent: {"finance"}, risk: {"L3"}, role: {"ai_agent"}]

ASSUME EndpointsAssumption == Endpoints \subseteq Workflows
ASSUME ApprovalsAssumption == Approvals \subseteq Nat

VARIABLES
    asked,  \* asked[c]: the workflow and the approvals in its request
    audit,  \* AuditLogService.memoryLogs: the recommendations of this run of the process
    next,   \* next[c]: the insert that the chain of c has sent and waits for
    rows,   \* rows[c]: tables with a row for c
    agents  \* ai_agents

vars == <<asked, audit, next, rows, agents>>

\* The tables of a chain; ai_agents has one row for all recommendations of an agent.
Tables == {"task", "recommendation", "request", "gate"}
Inserts == Tables \cup {"agent"}

Request == [workflow: Workflows, approvals: Nat]
NotAsked == [workflow |-> "none"]

TypeOK ==
    /\ asked \in [Chains -> Request \cup {NotAsked}]
    /\ audit \subseteq Chains
    /\ next \in [Chains -> Inserts \cup {"none"}]
    /\ rows \in [Chains -> SUBSET Tables]
    /\ agents \subseteq {w.agent : w \in Workflows}

Init ==
    /\ asked = [c \in Chains |-> NotAsked]
    /\ audit = {}
    /\ next = [c \in Chains |-> "none"]
    /\ rows = [c \in Chains |-> {}]
    /\ agents = {}

Risk(c) == asked[c].workflow.risk

-----------------------------------------------------------------------------
\* hasPermission for approvals:operational, of the roles that have it.
ApprovesOperations(role) == role \in {"logistic_disponent", "super_admin"}

\* Mutant: the number of approvals is not looked at.
AllowedWithoutApproval(risk, role, approvals) ==
    risk = "L2" => ApprovesOperations(role)

\* assertAiActionAllowed; no workflow enables the automatic policy of L2.
ActionAllowed(risk, role, approvals) ==
    /\ risk = "L2" => ApprovesOperations(role)
    /\ risk = "L3" => approvals >= 1
    /\ risk = "L4" => approvals >= 2
    /\ risk # "L5"

\* recommend: authorise, record, start the chain, answer.
Recommend(c, w, approvals) ==
    /\ asked[c] = NotAsked
    /\ ActionAllowed(w.risk, w.role, approvals)
    /\ asked' = [asked EXCEPT ![c] = [workflow |-> w, approvals |-> approvals]]
    /\ audit' = audit \cup {c}
    /\ next' = [next EXCEPT ![c] = "agent"]
    /\ UNCHANGED <<rows, agents>>

\* Mutant: the gate is for critical actions.
FollowingGateIfCritical(insert, risk) ==
    CASE insert = "agent" -> "task"
      [] insert = "task" -> "recommendation"
      [] insert = "recommendation" -> IF risk \in {"L3", "L4"} THEN "request" ELSE "none"
      [] insert = "request" -> IF risk = "L4" THEN "gate" ELSE "none"
      [] insert = "gate" -> "none"

\* Mutant: the insert of the recommendation is sent with the one of the task.
FollowingWithoutTask(insert, risk) ==
    CASE insert = "agent" -> "recommendation"
      [] insert = "task" -> IF risk \in {"L3", "L4"} THEN "request" ELSE "none"
      [] insert = "recommendation" -> "task"
      [] insert = "request" -> "gate"
      [] insert = "gate" -> "none"

\* Mutant: the request is made again after its gate.
FollowingAgain(insert, risk) ==
    CASE insert = "agent" -> "task"
      [] insert = "task" -> "recommendation"
      [] insert = "recommendation" -> IF risk \in {"L3", "L4"} THEN "request" ELSE "none"
      [] insert = "request" -> "gate"
      [] insert = "gate" -> "request"

\* persistRecommendation: the order of the inserts, the last two for high risks.
Following(insert, risk) ==
    CASE insert = "agent" -> "task"
      [] insert = "task" -> "recommendation"
      [] insert = "recommendation" -> IF risk \in {"L3", "L4"} THEN "request" ELSE "none"
      [] insert = "request" -> "gate"
      [] insert = "gate" -> "none"

\* Mutant: the row of the agent is counted with those of the recommendation.
CommitWithAgent(c) ==
    /\ next[c] # "none"
    /\ rows' = [rows EXCEPT ![c] = @ \cup {next[c]}]
    /\ agents' = IF next[c] = "agent" THEN agents \cup {asked[c].workflow.agent} ELSE agents
    /\ next' = [next EXCEPT ![c] = IF c \in audit THEN Following(next[c], Risk(c)) ELSE "none"]
    /\ UNCHANGED <<asked, audit>>

\* The insert is committed; the chain goes on in the process that began it.
Commit(c) ==
    /\ next[c] # "none"
    /\ rows' = [rows EXCEPT ![c] = @ \cup ({next[c]} \cap Tables)]
    /\ agents' = IF next[c] = "agent" THEN agents \cup {asked[c].workflow.agent} ELSE agents
    /\ next' = [next EXCEPT ![c] = IF c \in audit THEN Following(next[c], Risk(c)) ELSE "none"]
    /\ UNCHANGED <<asked, audit>>

\* The insert is rejected.  In the process that sent it nobody handles that.
Reject(c) ==
    /\ next[c] # "none"
    /\ next' = [next EXCEPT ![c] = "none"]
    /\ audit' = IF c \in audit THEN {} ELSE audit
    /\ UNCHANGED <<asked, rows, agents>>

Restart ==
    /\ audit' = {}
    /\ UNCHANGED <<asked, next, rows, agents>>

Next ==
    \/ \E c \in Chains :
         \/ \E w \in Endpoints, approvals \in Approvals : Recommend(c, w, approvals)
         \/ Commit(c)
         \/ Reject(c)
    \/ Restart

\* The database answers every query, or its connection ends.
Settles(c) == Commit(c) \/ Reject(c)

Spec == Init /\ [][Next]_vars /\ \A c \in Chains : WF_vars(Settles(c))

-----------------------------------------------------------------------------
(* Properties.                                                             *)

Due(risk) ==
    IF risk \in {"L3", "L4"} THEN Tables ELSE {"task", "recommendation"}

\* While the process that answered is running, a recommendation is recorded in
\* full, with the gate if its risk is high, or an insert of it is under way: no
\* failure of one chain leaves another one half recorded and unnoticed.
RecordedInFull ==
    \A c \in audit : next[c] = "none" => rows[c] = Due(Risk(c))

\* Wherever a chain stopped, its rows have the rows they refer to, and its agent.
RowsReferToRows ==
    \A c \in Chains :
        /\ rows[c] # {} => "task" \in rows[c] /\ asked[c].workflow.agent \in agents
        /\ "request" \in rows[c] => "recommendation" \in rows[c]
        /\ "gate" \in rows[c] => "request" \in rows[c]

\* A request for an action is on file only for an action of high risk that an
\* approval was shown for before anything was recorded.
RequestsApproved ==
    \A c \in Chains :
        "request" \in rows[c] => Risk(c) \in {"L3", "L4"} /\ asked[c].approvals >= 1

\* The recording of a recommendation ends, and does so for every chain.
RecordingEnds ==
    \A c \in Chains : next[c] # "none" ~> next[c] = "none"

=============================================================================
