-------------------------- MODULE AiWorkflow_proofs --------------------------
(***************************************************************************)
(* Proofs about AiWorkflow, for any number of recommendations, endpoints   *)
(* and approvals.                                                          *)
(***************************************************************************)
EXTENDS AiWorkflow, TLAPS

HighRisk(c) == Risk(c) \in {"L3", "L4"}

\* The rows that are there when an insert of a chain is sent.
Before(insert) ==
    CASE insert = "agent" -> {}
      [] insert = "task" -> {}
      [] insert = "recommendation" -> {"task"}
      [] insert = "request" -> {"task", "recommendation"}
      [] insert = "gate" -> {"task", "recommendation", "request"}

\* A chain that waits for an insert has made the ones before it, and no other.
ChainInOrder ==
    \A c \in Chains : next[c] # "none" =>
        /\ asked[c] # NotAsked
        /\ rows[c] = Before(next[c])
        /\ next[c] # "agent" => asked[c].workflow.agent \in agents
        /\ next[c] \in {"request", "gate"} => HighRisk(c)

\* Rows and audit records are of recommendations that were asked for.
OnRequest ==
    \A c \in Chains : asked[c] = NotAsked => c \notin audit /\ rows[c] = {}

\* What was answered had the approvals its risk needs.
AskedApproved ==
    \A c \in Chains : asked[c] # NotAsked =>
        /\ HighRisk(c) => asked[c].approvals >= 1

IInv ==
    /\ TypeOK
    /\ ChainInOrder
    /\ OnRequest
    /\ AskedApproved
    /\ RecordedInFull
    /\ RowsReferToRows
    /\ RequestsApproved

-----------------------------------------------------------------------------
LEMMA AskedIsRequest ==
    ASSUME TypeOK, NEW c \in Chains, asked[c] # NotAsked
    PROVE  /\ asked[c] \in Request
           /\ asked[c].workflow \in Workflows
           /\ asked[c].approvals \in Nat
           /\ Risk(c) \in {"L1", "L2", "L3"}
BY DEF TypeOK, Request, Workflows, Risk

LEMMA InitIInv == Init => IInv
<1> SUFFICES ASSUME Init PROVE IInv
    OBVIOUS
<1>1. TypeOK
    BY DEF Init, TypeOK, Inserts
<1>2. ChainInOrder /\ OnRequest /\ AskedApproved
    BY DEF Init, ChainInOrder, OnRequest, AskedApproved
<1>3. RecordedInFull /\ RowsReferToRows /\ RequestsApproved
    BY DEF Init, RecordedInFull, RowsReferToRows, RequestsApproved
<1>4. QED
    BY <1>1, <1>2, <1>3 DEF IInv

LEMMA RecommendIInv ==
    ASSUME IInv, NEW c \in Chains, NEW w \in Endpoints, NEW approvals \in Approvals,
           Recommend(c, w, approvals)
    PROVE  IInv'
<1> DEFINE request == [workflow |-> w, approvals |-> approvals]
<1>1. w \in Workflows /\ approvals \in Nat /\ request \in Request
    BY EndpointsAssumption, ApprovalsAssumption DEF Request
<1>2. TypeOK
    BY DEF IInv
<1>3. /\ asked[c] = NotAsked
      /\ asked' = [asked EXCEPT ![c] = request]
      /\ audit' = audit \cup {c}
      /\ next' = [next EXCEPT ![c] = "agent"]
      /\ rows' = rows /\ agents' = agents
      /\ w.risk = "L3" => approvals >= 1
      /\ w.risk = "L4" => approvals >= 2
    BY DEF Recommend, ActionAllowed
<1>4. \A d \in Chains : d # c => asked'[d] = asked[d] /\ next'[d] = next[d]
    BY <1>2, <1>3 DEF TypeOK
<1>5. asked'[c] = request /\ next'[c] = "agent" /\ asked'[c] # NotAsked
    <2>1. asked'[c] = request /\ next'[c] = "agent"
        BY <1>2, <1>3 DEF TypeOK
    <2>2. request.workflow \in Workflows /\ NotAsked.workflow = "none"
        BY <1>1 DEF NotAsked
    <2>3. w.risk \in {"L1", "L2", "L3"}
        BY <1>1 DEF Workflows
    <2>4. request # NotAsked
        BY DEF NotAsked, request
    <2>5. QED
        BY <2>1, <2>4
<1>6. rows[c] = {} /\ c \notin audit
    BY <1>3 DEF IInv, OnRequest
<1>7. TypeOK'
    BY <1>1, <1>2, <1>3 DEF TypeOK, Inserts
<1>8. ChainInOrder'
    <2> SUFFICES ASSUME NEW d \in Chains, next'[d] # "none"
                 PROVE  /\ asked'[d] # NotAsked
                        /\ rows'[d] = Before(next'[d])
                        /\ next'[d] # "agent" => asked'[d].workflow.agent \in agents'
                        /\ next'[d] \in {"request", "gate"} => HighRisk(d)'
        BY DEF ChainInOrder
    <2>1. CASE d = c
        BY <2>1, <1>3, <1>5, <1>6 DEF Before
    <2>2. CASE d # c
        <3>1. HighRisk(d)' <=> HighRisk(d)
            BY <2>2, <1>4 DEF HighRisk, Risk
        <3>2. QED
            BY <2>2, <3>1, <1>3, <1>4 DEF IInv, ChainInOrder
    <2>3. QED
        BY <2>1, <2>2
<1>9. OnRequest'
    BY <1>3, <1>4, <1>5 DEF IInv, OnRequest
<1>10. AskedApproved'
    BY <1>1, <1>3, <1>4, <1>5, ApprovalsAssumption DEF IInv, AskedApproved, HighRisk, Risk
<1>11. RecordedInFull'
    BY <1>3, <1>4, <1>5 DEF IInv, RecordedInFull, Risk
<1>12. RowsReferToRows' /\ RequestsApproved'
    BY <1>3, <1>4, <1>6 DEF IInv, RowsReferToRows, RequestsApproved, Risk
<1>13. QED
    BY <1>7, <1>8, <1>9, <1>10, <1>11, <1>12 DEF IInv

LEMMA CommitIInv ==
    ASSUME IInv, NEW c \in Chains, Commit(c)
    PROVE  IInv'
<1> DEFINE insert == next[c]
           following == IF c \in audit THEN Following(insert, Risk(c)) ELSE "none"
           grown == rows[c] \cup ({insert} \cap Tables)
<1>1. TypeOK /\ insert \in Inserts /\ asked[c] # NotAsked
    BY DEF IInv, TypeOK, ChainInOrder, Commit
<1>2. /\ rows' = [rows EXCEPT ![c] = grown]
      /\ agents' = IF insert = "agent" THEN agents \cup {asked[c].workflow.agent} ELSE agents
      /\ next' = [next EXCEPT ![c] = following]
      /\ asked' = asked /\ audit' = audit
    BY DEF Commit
<1>3. /\ rows'[c] = grown /\ next'[c] = following
      /\ \A d \in Chains : d # c => rows'[d] = rows[d] /\ next'[d] = next[d]
    BY <1>1, <1>2 DEF TypeOK
<1>4. /\ rows[c] = Before(insert)
      /\ insert # "agent" => asked[c].workflow.agent \in agents
      /\ insert \in {"request", "gate"} => HighRisk(c)
    BY <1>1 DEF IInv, ChainInOrder, Inserts, Commit
<1>5. asked[c].workflow.agent \in agents' /\ agents \subseteq agents'
    BY <1>2, <1>4
<1>6. /\ following \in Inserts \cup {"none"}
      /\ grown \subseteq Tables
      /\ following # "none" =>
            /\ grown = Before(following)
            /\ following # "agent"
            /\ following \in {"request", "gate"} => HighRisk(c)
      /\ (c \in audit /\ following = "none") => grown = Due(Risk(c))
    BY <1>1, <1>4 DEF Inserts, Tables, Following, Before, Due, HighRisk
<1>7. TypeOK'
    BY <1>1, <1>2, <1>6, AskedIsRequest DEF TypeOK
<1>8. ChainInOrder'
    BY <1>1, <1>2, <1>3, <1>5, <1>6 DEF IInv, ChainInOrder, HighRisk, Risk
<1>9. OnRequest' /\ AskedApproved'
    BY <1>1, <1>2, <1>3 DEF IInv, OnRequest, AskedApproved, HighRisk, Risk
<1>10. RecordedInFull'
    BY <1>2, <1>3, <1>6 DEF IInv, RecordedInFull, Risk
<1>11. RowsReferToRows'
    BY <1>1, <1>2, <1>3, <1>4, <1>5 DEF IInv, RowsReferToRows, Before, Inserts, Tables
<1>12. RequestsApproved'
    BY <1>1, <1>2, <1>3, <1>4 DEF IInv, RequestsApproved, AskedApproved, HighRisk, Risk, Before, Inserts, Tables
<1>13. QED
    BY <1>7, <1>8, <1>9, <1>10, <1>11, <1>12 DEF IInv

LEMMA RejectIInv ==
    ASSUME IInv, NEW c \in Chains, Reject(c)
    PROVE  IInv'
<1>1. /\ next' = [next EXCEPT ![c] = "none"]
      /\ audit' = IF c \in audit THEN {} ELSE audit
      /\ asked' = asked /\ rows' = rows /\ agents' = agents
    BY DEF Reject
<1>2. /\ next'[c] = "none"
      /\ \A d \in Chains : d # c => next'[d] = next[d]
    BY <1>1 DEF IInv, TypeOK
<1>3. TypeOK'
    BY <1>1 DEF IInv, TypeOK
<1>4. ChainInOrder'
    BY <1>1, <1>2 DEF IInv, ChainInOrder, HighRisk, Risk
<1>5. OnRequest' /\ AskedApproved' /\ RowsReferToRows' /\ RequestsApproved'
    BY <1>1 DEF IInv, OnRequest, AskedApproved, RowsReferToRows, RequestsApproved, HighRisk, Risk
<1>6. RecordedInFull'
    BY <1>1, <1>2 DEF IInv, RecordedInFull, TypeOK, Risk
<1>7. QED
    BY <1>3, <1>4, <1>5, <1>6 DEF IInv

LEMMA RestartIInv ==
    ASSUME IInv, \/ Restart
                 \/ UNCHANGED vars
    PROVE  IInv'
<1>1. /\ audit' \subseteq audit
      /\ asked' = asked /\ next' = next /\ rows' = rows /\ agents' = agents
    BY DEF Restart, vars
<1>2. TypeOK'
    BY <1>1 DEF IInv, TypeOK
<1>3. ChainInOrder' /\ OnRequest' /\ AskedApproved'
    BY <1>1 DEF IInv, ChainInOrder, OnRequest, AskedApproved, HighRisk, Risk
<1>4. RecordedInFull' /\ RowsReferToRows' /\ RequestsApproved'
    BY <1>1 DEF IInv, RecordedInFull, RowsReferToRows, RequestsApproved, Risk
<1>5. QED
    BY <1>2, <1>3, <1>4 DEF IInv

\* The inductive invariant: types, chains that have made the inserts before the
\* one they wait for, and the invariants below.
THEOREM InvariantHolds == Spec => []IInv
<1>1. IInv /\ [Next]_vars => IInv'
    <2> SUFFICES ASSUME IInv, [Next]_vars PROVE IInv'
        OBVIOUS
    <2>1. CASE \E c \in Chains, w \in Endpoints, approvals \in Approvals :
                  Recommend(c, w, approvals)
        BY <2>1, RecommendIInv
    <2>2. CASE \E c \in Chains : Commit(c)
        BY <2>2, CommitIInv
    <2>3. CASE \E c \in Chains : Reject(c)
        BY <2>3, RejectIInv
    <2>4. CASE Restart \/ UNCHANGED vars
        BY <2>4, RestartIInv
    <2>5. QED
        BY <2>1, <2>2, <2>3, <2>4 DEF Next
<1>2. QED
    BY <1>1, InitIInv, PTL DEF Spec

\* Every reachable state of the audit log, the chains and the tables has its type.
THEOREM TypeCorrect == Spec => []TypeOK
<1>1. IInv => TypeOK
    BY DEF IInv
<1>2. QED
    BY <1>1, InvariantHolds, PTL

\* While the process runs, what persistRecommendation has finished is complete.
THEOREM RecordedInFullHolds == Spec => []RecordedInFull
<1>1. IInv => RecordedInFull
    BY DEF IInv
<1>2. QED
    BY <1>1, InvariantHolds, PTL

\* Wherever persistRecommendation stops, no row refers to one that is missing.
THEOREM RowsReferToRowsHolds == Spec => []RowsReferToRows
<1>1. IInv => RowsReferToRows
    BY DEF IInv
<1>2. QED
    BY <1>1, InvariantHolds, PTL

\* Only an action of high risk that an approval was shown for is requested.
THEOREM RequestsApprovedHolds == Spec => []RequestsApproved
<1>1. IInv => RequestsApproved
    BY DEF IInv
<1>2. QED
    BY <1>1, InvariantHolds, PTL

\* How many inserts a chain has to go, the one it waits for included.
InsertsLeft(insert) ==
    CASE insert = "agent" -> 5
      [] insert = "task" -> 4
      [] insert = "recommendation" -> 3
      [] insert = "request" -> 2
      [] insert = "gate" -> 1
      [] insert = "none" -> 0

RunsDown ==
    \A c \in Chains : next[c] # "none" =>
        /\ InsertsLeft(next'[c]) <= InsertsLeft(next[c])
        /\ Settles(c) => InsertsLeft(next'[c]) < InsertsLeft(next[c])

\* Every answer of the database brings a chain that waits nearer to its end, and no
\* step of another chain, failure or restart takes it back: with the fairness of
\* Settles this is why RecordingEnds.
THEOREM RecordingRunsDown == Spec => [][RunsDown]_vars
<1>1. IInv /\ [Next]_vars => [RunsDown]_vars
  <2> SUFFICES ASSUME IInv, Next, NEW c \in Chains, next[c] # "none"
               PROVE  /\ InsertsLeft(next'[c]) <= InsertsLeft(next[c])
                      /\ Settles(c) => InsertsLeft(next'[c]) < InsertsLeft(next[c])
      BY DEF RunsDown
  <2>1. /\ next \in [Chains -> Inserts \cup {"none"}]
        /\ asked[c] # NotAsked
      BY DEF IInv, TypeOK, ChainInOrder
  <2>2. \A risk : /\ InsertsLeft(next[c]) \in Nat
                  /\ 0 < InsertsLeft(next[c])
                  /\ InsertsLeft(Following(next[c], risk)) \in Nat
                  /\ InsertsLeft(Following(next[c], risk)) < InsertsLeft(next[c])
                  /\ InsertsLeft("none") = 0
    <3>1. next[c] \in {"agent", "task", "recommendation", "request", "gate"}
        BY <2>1 DEF Inserts, Tables
    <3>2. \A risk : \/ Following(next[c], risk) = "none"
                    \/ /\ next[c] = "agent" /\ Following(next[c], risk) = "task"
                    \/ /\ next[c] = "task" /\ Following(next[c], risk) = "recommendation"
                    \/ /\ next[c] = "recommendation" /\ Following(next[c], risk) = "request"
                    \/ /\ next[c] = "request" /\ Following(next[c], risk) = "gate"
        BY <3>1 DEF Following
    <3>3. /\ InsertsLeft("agent") = 5 /\ InsertsLeft("task") = 4
          /\ InsertsLeft("recommendation") = 3 /\ InsertsLeft("request") = 2
          /\ InsertsLeft("gate") = 1 /\ InsertsLeft("none") = 0
        BY DEF InsertsLeft
    <3>4. InsertsLeft(next[c]) \in 1..5
        BY <3>1, <3>3
    <3>5. ASSUME NEW risk
          PROVE  /\ InsertsLeft(Following(next[c], risk)) \in Nat
                 /\ InsertsLeft(Following(next[c], risk)) < InsertsLeft(next[c])
        BY <3>2, <3>3, <3>4
    <3>6. QED
        BY <3>3, <3>4, <3>5
  <2>3. ASSUME NEW d \in Chains, Commit(d) \/ Reject(d)
        PROVE  IF c = d THEN \/ next'[c] = "none"
                             \/ \E risk : next'[c] = Following(next[c], risk)
                        ELSE next'[c] = next[c]
      BY <2>1, <2>3 DEF Commit, Reject
  <2>4. CASE Settles(c)
    <3>1. next'[c] = "none" \/ \E risk : next'[c] = Following(next[c], risk)
        BY <2>3, <2>4 DEF Settles
    <3>2. InsertsLeft(next'[c]) < InsertsLeft(next[c]) /\ InsertsLeft(next'[c]) \in Nat
      <4>1. CASE next'[c] = "none"
        <5>1. InsertsLeft(next'[c]) = InsertsLeft("none")
            BY <4>1
        <5>2. QED
            BY <2>2, <5>1
      <4>2. ASSUME NEW risk, next'[c] = Following(next[c], risk)
            PROVE  /\ InsertsLeft(next'[c]) < InsertsLeft(next[c])
                   /\ InsertsLeft(next'[c]) \in Nat
        <5>1. InsertsLeft(next'[c]) = InsertsLeft(Following(next[c], risk))
            BY <4>2
        <5>2. QED
            BY <2>2, <5>1
      <4>3. QED
          BY <3>1, <4>1, <4>2
    <3>3. QED
        BY <2>2, <3>2
  <2>5. CASE ~Settles(c)
    <3>1. ASSUME NEW d \in Chains,
                 \E w \in Endpoints, approvals \in Approvals : Recommend(d, w, approvals)
          PROVE  next'[c] = next[c]
        BY <2>1, <3>1 DEF Recommend
    <3>2. next'[c] = next[c]
        BY <2>3, <2>5, <3>1 DEF Next, Restart, Settles
    <3>3. QED
        BY <2>2, <2>5, <3>2
  <2>6. QED
      BY <2>4, <2>5
<1>2. QED
    BY <1>1, InvariantHolds, PTL DEF Spec

=============================================================================
