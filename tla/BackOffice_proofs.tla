------------------------- MODULE BackOffice_proofs -------------------------
(***************************************************************************)
(* Proofs about BackOffice, for every set of requests, rows, approvers and *)
(* drivers.                                                                *)
(***************************************************************************)
EXTENDS BackOffice, FiniteSetTheorems, SequenceTheorems, TLAPS

\* The query q has taken effect on the row id.
Stored(q, id) ==
    /\ q.kind = "order.create" => id \in Orders /\ order[id] # "none"
    /\ q.kind = "order.confirm" => id \in Orders /\ order[id] = "booked"
    /\ q.kind \in {"return.create", "return.update"} => id \in Returns /\ return[id] # NoReturn
    /\ q.kind = "approval.decide" =>
           /\ id \in Approvals
           /\ \E n \in DOMAIN decisions[id] :
                  decisions[id][n] = [approver |-> q.approver, verdict |-> q.verdict]
    /\ q.kind = "challenge.update" => id = q.id /\ id \in Challenges /\ challenge[id] = "verified"

ExecutedStored ==
    \A r \in Requests :
        handler[r].state = "executed" => Stored(handler[r].query, handler[r].id)

AnsweredStored ==
    \A x \in answered :
        /\ Stored(x.query, x.id)
        /\ x.query.kind \in {"order.create", "order.confirm"} =>
               [action |-> x.query.kind, target |-> x.id] \in trail

\* Who finds a challenge pending finds one that has not answered for anybody.
AnsweredForWhenVerified ==
    \A c \in Challenges : verified[c] # 0 => challenge[c] = "verified"

DeskInv ==
    /\ DeskTypeOK
    /\ StatusIsLastDecision
    /\ ExecutedStored
    /\ AnsweredStored
    /\ AnsweredForWhenVerified
    /\ TwoFactorFanOut

IInv == DeskInv /\ ListsTypeOK /\ served \in 0 .. MaxCalls

-----------------------------------------------------------------------------
(* The tables.                                                             *)

LEMMA FirstReturnStatus == "return_requested" \in ReturnStatus
<1> DEFINE path == <<"return_requested", "return_rejected", "closed">>
<1>1. Len(path) - 1 = 2 /\ path[1] = "return_requested" /\ path[2] = "return_rejected"
    OBVIOUS
<1>2. <<path[1], path[2]>> \in Along(path)
    BY <1>1 DEF Along
<1>3. <<"return_requested", "return_rejected">> \in returnTransitions
    BY <1>1, <1>2 DEF returnTransitions
<1>4. QED
    BY <1>3 DEF ReturnStatus, Statuses

LEMMA OrderStatuses == {"draft", "booked", "payment_authorized"} \subseteq OrderStatus
<1> DEFINE path == <<"draft", "quoted", "booked", "payment_pending", "payment_authorized",
            "inventory_reserved", "warehouse_processing", "ready_for_dispatch",
            "transport_planned", "driver_assigned", "picked_up", "in_transit",
            "out_for_delivery", "delivered", "proof_accepted", "settlement_pending",
            "completed">>
<1>1. Along(path) \subseteq orderTransitions
    BY DEF orderTransitions
<1>2. Len(path) = 17 /\ path[1] = "draft" /\ path[3] = "booked" /\ path[5] = "payment_authorized"
    OBVIOUS
<1> HIDE DEF path
<1>3. \A i \in {1, 3, 5} : i \in 1 .. Len(path) - 1
    BY <1>2
<1>4. \A i \in {1, 3, 5} : <<path[i], path[i + 1]>> \in orderTransitions
    BY <1>1, <1>3 DEF Along
<1>5. \A i \in {1, 3, 5} : path[i] \in OrderStatus
    BY <1>4 DEF OrderStatus, Statuses
<1>6. QED
    BY <1>2, <1>5

-----------------------------------------------------------------------------
(* What the parts of the state are made of.                                *)

LEMMA QueryFields ==
    ASSUME NEW q \in Query
    PROVE  /\ q.kind \in {"order.confirm", "return.create"} => q.order \in Orders
           /\ q.kind = "return.update" => q.id \in Returns /\ q.status \in ReturnStatus
           /\ q.kind = "approval.decide" =>
                 q.id \in Approvals /\ q.approver \in Approvers /\ q.verdict \in Verdicts
           /\ q.kind = "challenge.update" => q.id \in Challenges
BY DEF Query

\* A request waits, or it does not.
LEMMA HandlerShape ==
    ASSUME DeskTypeOK, NEW r \in Requests
    PROVE  /\ handler[r] = Idle \/ handler[r].state \in {"sent", "orphan", "executed"}
           /\ handler[r].state \in {"sent", "orphan", "executed"} => handler[r].query \in Query
           /\ handler[r].state = "executed" => handler[r].id \in Row
           /\ Idle.state = "idle"
BY DEF DeskTypeOK, Waiting, Idle

LEMMA WaitingShape ==
    /\ Idle \in {Idle} \cup Waiting
    /\ \A q \in Query : /\ [state |-> "sent", query |-> q] \in Waiting
                        /\ [state |-> "orphan", query |-> q] \in Waiting
                        /\ \A id \in Row : [state |-> "executed", query |-> q, id |-> id] \in Waiting
BY DEF Waiting

LEMMA SetsOfRequests ==
    ASSUME NEW R \in SUBSET Requests
    PROVE  /\ Cardinality(R) \in Nat /\ Cardinality(Requests) \in Nat
           /\ Cardinality(R) <= Cardinality(Requests)
           /\ \A Q \in SUBSET R : Cardinality(Q) \in Nat /\ Cardinality(Q) <= Cardinality(R)
           /\ \A r \in R : Cardinality(R \ {r}) = Cardinality(R) - 1
<1>1. IsFiniteSet(R) /\ Cardinality(R) <= Cardinality(Requests)
    BY RequestsAssumption, FS_Subset
<1>2. Cardinality(R) \in Nat /\ Cardinality(Requests) \in Nat
    BY <1>1, RequestsAssumption, FS_CardinalityType
<1>3. \A Q \in SUBSET R : IsFiniteSet(Q) /\ Cardinality(Q) <= Cardinality(R)
    BY <1>1, FS_Subset
<1>4. \A Q \in SUBSET R : Cardinality(Q) \in Nat
    BY <1>3, FS_CardinalityType
<1>5. \A r \in R : Cardinality(R \ {r}) = Cardinality(R) - 1
    BY <1>1, FS_RemoveElement
<1>6. QED
    BY <1>1, <1>2, <1>3, <1>4, <1>5

\* As long as nobody is answered, a challenge is safe when the requests that may
\* answer for it only get fewer, or it has not answered for anybody.
LEMMA FanOutKept ==
    ASSUME DeskTypeOK, TwoFactorFanOut, UNCHANGED verified,
           \A c \in Challenges : Verifying(c)' \subseteq Verifying(c) \/ verified[c] = 0
    PROVE  TwoFactorFanOut'
<1> SUFFICES ASSUME NEW c \in Challenges
             PROVE  verified[c] + Cardinality(Verifying(c)') <= Cardinality(Requests)
    BY DEF TwoFactorFanOut
<1>1. /\ verified[c] \in Nat
      /\ verified[c] + Cardinality(Verifying(c)) <= Cardinality(Requests)
      /\ Verifying(c) \in SUBSET Requests /\ Verifying(c)' \in SUBSET Requests
    BY DEF DeskTypeOK, TwoFactorFanOut, Verifying
<1>2. /\ Cardinality(Verifying(c)) \in Nat /\ Cardinality(Verifying(c)') \in Nat
      /\ Cardinality(Requests) \in Nat
      /\ Cardinality(Verifying(c)') <= Cardinality(Requests)
      /\ Verifying(c)' \subseteq Verifying(c) =>
            Cardinality(Verifying(c)') <= Cardinality(Verifying(c))
    BY <1>1, SetsOfRequests
<1>3. CASE Verifying(c)' \subseteq Verifying(c)
    BY <1>1, <1>2, <1>3
<1>4. CASE verified[c] = 0
    BY <1>2, <1>4
<1>5. QED
    BY <1>3, <1>4

-----------------------------------------------------------------------------
(* The desk: what a query does to the tables.                              *)

TablesTypeOK ==
    /\ order \in [Orders -> {"none"} \cup OrderStatus]
    /\ return \in [Returns -> [order: Orders, status: ReturnStatus] \cup {NoReturn}]
    /\ approval \in [Approvals -> {"none", "pending"} \cup Verdicts]
    /\ decisions \in [Approvals -> Seq(Decision)]
    /\ challenge \in [Challenges -> {"none", "pending", "expired", "verified"}]

\* What was answered, and counted, is still so.
LEMMA AnswersStay ==
    ASSUME DeskInv, Grows, UNCHANGED <<trail, answered, verified>>
    PROVE  AnsweredStored' /\ AnsweredForWhenVerified'
<1>1. AnsweredStored'
  <2> SUFFICES ASSUME NEW x \in answered
               PROVE  /\ Stored(x.query, x.id)'
                      /\ x.query.kind \in {"order.create", "order.confirm"} =>
                             [action |-> x.query.kind, target |-> x.id] \in trail
      BY DEF AnsweredStored
  <2>1. /\ Stored(x.query, x.id)
        /\ x.query.kind \in {"order.create", "order.confirm"} =>
               [action |-> x.query.kind, target |-> x.id] \in trail
      BY DEF DeskInv, AnsweredStored
  <2>2. Stored(x.query, x.id)'
      BY <2>1 DEF Stored, Grows
  <2>3. QED
      BY <2>1, <2>2
<1>2. AnsweredForWhenVerified'
    BY DEF DeskInv, AnsweredForWhenVerified, Grows
<1>3. QED
    BY <1>1, <1>2

\* A query executes: the rest follows from what it does to its row.
LEMMA ExecutedKeeps ==
    ASSUME DeskInv, NEW r \in Requests, NEW id \in Row,
           handler[r].state \in {"sent", "orphan"}, Executed(r, id),
           TablesTypeOK', Grows, StatusIsLastDecision',
           LET q == handler[r].query
           IN  /\ q.kind = "order.create" => id \in Orders /\ order'[id] # "none"
               /\ q.kind = "order.confirm" => id \in Orders /\ order'[id] = "booked"
               /\ q.kind \in {"return.create", "return.update"} =>
                      id \in Returns /\ return'[id] # NoReturn
               /\ q.kind = "approval.decide" =>
                      /\ id \in Approvals
                      /\ \E n \in DOMAIN decisions'[id] :
                            decisions'[id][n] = [approver |-> q.approver, verdict |-> q.verdict]
               /\ q.kind = "challenge.update" =>
                      id = q.id /\ id \in Challenges /\ challenge'[id] = "verified"
    PROVE  DeskInv'
<1> DEFINE q == handler[r].query
           next == IF handler[r].state = "orphan" THEN Idle
                   ELSE [state |-> "executed", query |-> q, id |-> id]
<1>1. DeskTypeOK /\ q \in Query
    BY HandlerShape DEF DeskInv
<1>2. next \in {Idle} \cup Waiting
    BY <1>1, WaitingShape
<1>3. handler' = [handler EXCEPT ![r] = next] /\ UNCHANGED <<trail, answered, verified>>
    BY DEF Executed
<1>4. \A p \in Requests : handler'[p] = IF p = r THEN next ELSE handler[p]
    BY <1>1, <1>3 DEF DeskTypeOK
<1>5. DeskTypeOK'
  <2> HIDE DEF next
  <2>1. handler' \in [Requests -> {Idle} \cup Waiting]
      BY <1>1, <1>2, <1>3 DEF DeskTypeOK
  <2>2. QED
      BY <1>1, <1>3, <2>1 DEF DeskTypeOK, TablesTypeOK
<1>6. ExecutedStored'
  <2> SUFFICES ASSUME NEW p \in Requests, handler'[p].state = "executed"
               PROVE  Stored(handler[p].query, handler[p].id)'
      BY DEF ExecutedStored
  <2>1. CASE p = r
    <3>1. handler'[p].query = q /\ handler'[p].id = id
        BY <1>4, <2>1 DEF Idle
    <3>2. QED
        BY <3>1 DEF Stored
  <2>2. CASE p # r
    <3>1. handler'[p] = handler[p]
        BY <1>4, <2>2
    <3>2. Stored(handler[p].query, handler[p].id)
        BY <3>1 DEF DeskInv, ExecutedStored
    <3>3. QED
        BY <3>1, <3>2 DEF Stored, Grows
  <2>3. QED
      BY <2>1, <2>2
<1>7. TwoFactorFanOut'
  <2>1. \A c \in Challenges : Verifying(c)' \subseteq Verifying(c)
      BY <1>4 DEF Verifying, Idle
  <2>2. QED
      BY <1>1, <1>3, <2>1, FanOutKept DEF DeskInv
<1>8. QED
    BY <1>3, <1>5, <1>6, <1>7, AnswersStay DEF DeskInv

LEMMA OrderQueries ==
    ASSUME DeskInv, NEW r \in Requests,
           UpdateOrder(r) \/ \E o \in Orders : InsertOrder(r, o)
    PROVE  DeskInv'
<1> USE DEF DeskInv
<1>1. StatusIsLastDecision'
    BY DEF UpdateOrder, InsertOrder, StatusIsLastDecision
<1>2. CASE \E o \in Orders : InsertOrder(r, o)
  <2>1. PICK o \in Orders : InsertOrder(r, o)
      BY <1>2
  <2>2. /\ handler[r].state \in {"sent", "orphan"} /\ handler[r].query.kind = "order.create"
        /\ Executed(r, o) /\ order'[o] = "draft" /\ o \in Row
      BY <2>1 DEF InsertOrder, Executes, DeskTypeOK, Row
  <2>3. TablesTypeOK' /\ Grows
      BY <2>1, OrderStatuses DEF InsertOrder, DeskTypeOK, TablesTypeOK, Grows
  <2>4. QED
      BY <1>1, <2>2, <2>3, ExecutedKeeps
<1>3. CASE UpdateOrder(r)
  <2> DEFINE o == handler[r].query.order
  <2>1. handler[r].state \in {"sent", "orphan"} /\ handler[r].query.kind = "order.confirm"
      BY <1>3 DEF UpdateOrder, Executes
  <2>2. o \in Orders /\ o \in Row
      BY <2>1, HandlerShape, QueryFields DEF Row
  <2>3. Executed(r, o) /\ order'[o] = "booked"
      BY <1>3, <2>2 DEF UpdateOrder, DeskTypeOK
  <2>4. TablesTypeOK' /\ Grows
      BY <1>3, <2>2, OrderStatuses DEF UpdateOrder, DeskTypeOK, TablesTypeOK, Grows
  <2> HIDE DEF o
  <2>5. QED
      BY <1>1, <2>1, <2>2, <2>3, <2>4, ExecutedKeeps
<1>4. QED
    BY <1>2, <1>3

LEMMA ReturnQueries ==
    ASSUME DeskInv, NEW r \in Requests,
           UpdateReturnRow(r) \/ \E t \in Returns : InsertReturn(r, t)
    PROVE  DeskInv'
<1> USE DEF DeskInv
<1>1. StatusIsLastDecision'
    BY DEF UpdateReturnRow, InsertReturn, StatusIsLastDecision
<1>2. CASE \E t \in Returns : InsertReturn(r, t)
  <2>1. PICK t \in Returns : InsertReturn(r, t)
      BY <1>2
  <2>2. /\ handler[r].state \in {"sent", "orphan"} /\ handler[r].query.kind = "return.create"
        /\ Executed(r, t) /\ t \in Row
      BY <2>1 DEF InsertReturn, Executes, Row
  <2> DEFINE row == [order |-> handler[r].query.order, status |-> "return_requested"]
  <2>3. row \in [order: Orders, status: ReturnStatus] /\ row # NoReturn
      BY <2>2, HandlerShape, QueryFields, FirstReturnStatus DEF NoReturn
  <2>4. return' = [return EXCEPT ![t] = row] /\ UNCHANGED <<order, approval, decisions, challenge>>
      BY <2>1 DEF InsertReturn
  <2> HIDE DEF row
  <2>5. TablesTypeOK' /\ Grows /\ return'[t] # NoReturn
      BY <2>3, <2>4 DEF DeskTypeOK, TablesTypeOK, Grows
  <2>6. QED
      BY <1>1, <2>2, <2>5, ExecutedKeeps
<1>3. CASE UpdateReturnRow(r)
  <2> DEFINE t == handler[r].query.id
             status == handler[r].query.status
  <2>1. handler[r].state \in {"sent", "orphan"} /\ handler[r].query.kind = "return.update"
      BY <1>3 DEF UpdateReturnRow, Executes
  <2>2. t \in Returns /\ t \in Row /\ status \in ReturnStatus
      BY <2>1, HandlerShape, QueryFields DEF Row
  <2>3. /\ Executed(r, t) /\ return[t] # NoReturn
        /\ return' = [return EXCEPT ![t].status = status]
        /\ UNCHANGED <<order, approval, decisions, challenge>>
      BY <1>3 DEF UpdateReturnRow
  <2> HIDE DEF t, status
  <2>4. return[t] \in [order: Orders, status: ReturnStatus]
      BY <2>2, <2>3 DEF DeskTypeOK
  <2>5. [return[t] EXCEPT !.status = status] # NoReturn
      BY <2>4, OrdersAssumption DEF NoReturn
  <2>6. return'[t] \in [order: Orders, status: ReturnStatus] /\ return'[t] # NoReturn
        /\ \A x \in Returns : x # t => return'[x] = return[x]
      BY <2>2, <2>3, <2>4, <2>5 DEF DeskTypeOK
  <2>7. return' \in [Returns -> [order: Orders, status: ReturnStatus] \cup {NoReturn}]
      BY <2>2, <2>3, <2>6 DEF DeskTypeOK
  <2>8. TablesTypeOK' /\ Grows
      BY <2>3, <2>6, <2>7 DEF DeskTypeOK, TablesTypeOK, Grows
  <2>9. QED
      BY <1>1, <2>1, <2>2, <2>3, <2>6, <2>8, ExecutedKeeps
<1>4. QED
    BY <1>2, <1>3

LEMMA ApprovalQueries ==
    ASSUME DeskInv, NEW r \in Requests,
           DecideTransaction(r) \/ \E a \in Approvals : InsertApproval(r, a)
    PROVE  DeskInv'
<1> USE DEF DeskInv
<1>1. CASE \E a \in Approvals : InsertApproval(r, a)
  <2>1. PICK a \in Approvals : InsertApproval(r, a)
      BY <1>1
  <2>2. /\ handler[r].state \in {"sent", "orphan"} /\ handler[r].query.kind = "approval.create"
        /\ Executed(r, a) /\ a \in Row
      BY <2>1 DEF InsertApproval, Executes, Row
  <2>3. TablesTypeOK' /\ Grows
      BY <2>1 DEF InsertApproval, DeskTypeOK, TablesTypeOK, Grows
  <2>4. decisions[a] = <<>>
    <3>1. SUFFICES ASSUME decisions[a] # <<>> PROVE FALSE
        OBVIOUS
    <3>2. decisions[a] \in Seq(Decision) /\ Len(decisions[a]) \in DOMAIN decisions[a]
        BY <3>1 DEF DeskTypeOK
    <3>3. decisions[a][Len(decisions[a])].verdict \in Verdicts
      <4>1. decisions[a][Len(decisions[a])] \in Decision
          BY <3>2, ElementOfSeq, LenProperties
      <4>2. QED
          BY <4>1 DEF Decision
    <3>4. approval[a] \in Verdicts
        BY <3>1, <3>3 DEF StatusIsLastDecision
    <3>5. QED
        BY <2>1, <3>4 DEF InsertApproval, Verdicts
  <2>5. StatusIsLastDecision'
    <3> SUFFICES ASSUME NEW b \in Approvals
                 PROVE  approval'[b] \in IF decisions[b] = <<>> THEN {"none", "pending"}
                                         ELSE {decisions[b][Len(decisions[b])].verdict}
        BY <2>1 DEF InsertApproval, StatusIsLastDecision
    <3>1. approval'[b] = IF b = a THEN "pending" ELSE approval[b]
        BY <2>1 DEF InsertApproval, DeskTypeOK
    <3>2. CASE b = a
        BY <2>4, <3>1, <3>2
    <3>3. CASE b # a
        BY <3>1, <3>3 DEF StatusIsLastDecision
    <3>4. QED
        BY <3>2, <3>3
  <2>6. QED
      BY <2>2, <2>3, <2>5, ExecutedKeeps
<1>2. CASE DecideTransaction(r)
  <2> DEFINE a == handler[r].query.id
             d == [approver |-> handler[r].query.approver, verdict |-> handler[r].query.verdict]
  <2>1. handler[r].state \in {"sent", "orphan"} /\ handler[r].query.kind = "approval.decide"
      BY <1>2 DEF DecideTransaction, Executes
  <2>2. a \in Approvals /\ a \in Row /\ d.verdict \in Verdicts
      BY <2>1, HandlerShape, QueryFields DEF Row
  <2>3. /\ Executed(r, a) /\ d \in Decision
        /\ decisions' = [decisions EXCEPT ![a] = Append(@, d)]
        /\ approval' = [approval EXCEPT ![a] = d.verdict]
        /\ UNCHANGED <<order, return, challenge>>
      BY <1>2, <2>2 DEF DecideTransaction, Decision
  <2>4. d = [approver |-> handler[r].query.approver, verdict |-> handler[r].query.verdict]
      OBVIOUS
  <2> HIDE DEF a, d
  <2>5. decisions[a] \in Seq(Decision)
      BY <2>2 DEF DeskTypeOK
  <2>6. /\ Append(decisions[a], d) \in Seq(Decision) /\ Append(decisions[a], d) # <<>>
        /\ Len(Append(decisions[a], d)) = Len(decisions[a]) + 1
        /\ Append(decisions[a], d)[Len(decisions[a]) + 1] = d
        /\ Len(decisions[a]) + 1 \in DOMAIN Append(decisions[a], d)
        /\ \A n \in DOMAIN decisions[a] : /\ n \in DOMAIN Append(decisions[a], d)
                                          /\ Append(decisions[a], d)[n] = decisions[a][n]
      BY <2>3, <2>5
  <2>7. decisions'[a] = Append(decisions[a], d) /\ approval'[a] = d.verdict
      BY <2>2, <2>3 DEF DeskTypeOK
  <2>8. \A b \in Approvals : b # a => decisions'[b] = decisions[b] /\ approval'[b] = approval[b]
      BY <2>2, <2>3 DEF DeskTypeOK
  <2>9. TablesTypeOK'
    <3>1. decisions' \in [Approvals -> Seq(Decision)]
        BY <2>3, <2>6 DEF DeskTypeOK
    <3>2. approval' \in [Approvals -> {"none", "pending"} \cup Verdicts]
        BY <2>2, <2>3 DEF DeskTypeOK
    <3>3. QED
        BY <2>3, <3>1, <3>2 DEF DeskTypeOK, TablesTypeOK
  <2>10. Grows
      BY <2>3, <2>6, <2>7, <2>8 DEF Grows
  <2>11. StatusIsLastDecision'
    <3> SUFFICES ASSUME NEW b \in Approvals
                 PROVE  approval'[b] \in IF decisions'[b] = <<>> THEN {"none", "pending"}
                                         ELSE {decisions'[b][Len(decisions'[b])].verdict}
        BY DEF StatusIsLastDecision
    <3>1. CASE b = a
        BY <2>6, <2>7, <3>1
    <3>2. CASE b # a
        BY <2>8, <3>2 DEF StatusIsLastDecision
    <3>3. QED
        BY <3>1, <3>2
  <2>12. \E n \in DOMAIN decisions'[a] :
            decisions'[a][n] = [approver |-> handler[r].query.approver,
                                verdict |-> handler[r].query.verdict]
      BY <2>4, <2>6, <2>7
  <2>13. QED
      BY <2>1, <2>2, <2>3, <2>9, <2>10, <2>11, <2>12, ExecutedKeeps
<1>3. QED
    BY <1>1, <1>2

LEMMA ChallengeQueries ==
    ASSUME DeskInv, NEW r \in Requests,
           UpdateChallenge(r) \/ \E c \in Challenges : InsertChallenge(r, c)
    PROVE  DeskInv'
<1> USE DEF DeskInv
<1>1. StatusIsLastDecision'
    BY DEF UpdateChallenge, InsertChallenge, StatusIsLastDecision
<1>2. CASE \E c \in Challenges : InsertChallenge(r, c)
  <2>1. PICK c \in Challenges : InsertChallenge(r, c)
      BY <1>2
  <2>2. /\ handler[r].state \in {"sent", "orphan"} /\ handler[r].query.kind = "challenge.create"
        /\ Executed(r, c) /\ c \in Row
      BY <2>1 DEF InsertChallenge, Executes, Row
  <2>3. TablesTypeOK' /\ Grows
      BY <2>1 DEF InsertChallenge, DeskTypeOK, TablesTypeOK, Grows
  <2>4. QED
      BY <1>1, <2>2, <2>3, ExecutedKeeps
<1>3. CASE UpdateChallenge(r)
  <2> DEFINE c == handler[r].query.id
  <2>1. handler[r].state \in {"sent", "orphan"} /\ handler[r].query.kind = "challenge.update"
      BY <1>3 DEF UpdateChallenge, Executes
  <2>2. c \in Challenges /\ c \in Row
      BY <2>1, HandlerShape, QueryFields DEF Row
  <2>3. Executed(r, c) /\ challenge' = [challenge EXCEPT ![c] = "verified"]
        /\ UNCHANGED <<order, return, approval, decisions>> /\ c = handler[r].query.id
      BY <1>3 DEF UpdateChallenge
  <2> HIDE DEF c
  <2>4. TablesTypeOK' /\ Grows /\ challenge'[c] = "verified"
      BY <2>2, <2>3 DEF DeskTypeOK, TablesTypeOK, Grows
  <2>5. QED
      BY <1>1, <2>1, <2>2, <2>3, <2>4, ExecutedKeeps
<1>4. QED
    BY <1>2, <1>3

\* A query executes, whichever it is.
LEMMA ExecuteKeeps ==
    ASSUME DeskInv, NEW r \in Requests, Execute(r)
    PROVE  DeskInv'
BY OrderQueries, ReturnQueries, ApprovalQueries, ChallengeQueries DEF Execute

-----------------------------------------------------------------------------
(* The desk: how a request begins and ends.                                *)

LEMMA TablesSame ==
    ASSUME DeskInv, UNCHANGED tables
    PROVE  TablesTypeOK' /\ Grows /\ StatusIsLastDecision'
BY DEF DeskInv, tables, DeskTypeOK, TablesTypeOK, Grows, StatusIsLastDecision

\* A request comes in; one that verifies a challenge found it pending.
LEMMA AskKeeps ==
    ASSUME DeskInv, NEW r \in Requests, NEW q \in Query, Ask(r, q),
           q.kind = "challenge.update" => Found(q.id)
    PROVE  DeskInv'
<1> DEFINE next == [state |-> "sent", query |-> q]
<1>1. DeskTypeOK /\ next \in Waiting
    BY WaitingShape DEF DeskInv
<1>2. handler[r] = Idle /\ handler' = [handler EXCEPT ![r] = next]
      /\ UNCHANGED <<tables, trail, answered, verified>>
    BY DEF Ask
<1>3. \A p \in Requests : handler'[p] = IF p = r THEN next ELSE handler[p]
    BY <1>1, <1>2 DEF DeskTypeOK
<1>4. TablesTypeOK' /\ Grows /\ StatusIsLastDecision'
    BY <1>2, TablesSame
<1>5. DeskTypeOK'
  <2> HIDE DEF next
  <2>1. handler' \in [Requests -> {Idle} \cup Waiting]
      BY <1>1, <1>2 DEF DeskTypeOK
  <2>2. QED
      BY <1>1, <1>2, <1>4, <2>1 DEF DeskTypeOK, TablesTypeOK
<1>6. ExecutedStored'
  <2> SUFFICES ASSUME NEW p \in Requests, handler'[p].state = "executed"
               PROVE  Stored(handler[p].query, handler[p].id)'
      BY DEF ExecutedStored
  <2>1. handler'[p] = handler[p]
      BY <1>3
  <2>2. Stored(handler[p].query, handler[p].id)
      BY <2>1 DEF DeskInv, ExecutedStored
  <2>3. QED
      BY <1>2, <2>1, <2>2 DEF Stored, tables
<1>7. TwoFactorFanOut'
  <2> SUFFICES ASSUME NEW c \in Challenges
               PROVE  Verifying(c)' \subseteq Verifying(c) \/ verified[c] = 0
      BY <1>1, <1>2, FanOutKept DEF DeskInv
  <2>1. CASE q.kind = "challenge.update" /\ q.id = c
    <3>1. challenge[c] # "verified"
        BY <2>1 DEF Found
    <3>2. QED
        BY <3>1 DEF DeskInv, AnsweredForWhenVerified
  <2>2. CASE ~(q.kind = "challenge.update" /\ q.id = c)
      BY <1>3, <2>2 DEF Verifying
  <2>3. QED
      BY <2>1, <2>2
<1>8. QED
    BY <1>2, <1>4, <1>5, <1>6, <1>7, AnswersStay DEF DeskInv

\* A request that ends without an answer, and those that a restart ends.
LEMMA EndKeeps ==
    ASSUME DeskInv, UNCHANGED <<tables, answered, verified>>,
           trail \subseteq trail', trail' \subseteq AuditRecord,
           handler' \in [Requests -> {Idle} \cup Waiting],
           \A r \in Requests : \/ handler'[r] = handler[r]
                               \/ handler'[r].state \in {"idle", "orphan"}
    PROVE  DeskInv'
<1>1. TablesTypeOK' /\ Grows /\ StatusIsLastDecision'
    BY TablesSame
<1>2. DeskTypeOK'
    BY <1>1 DEF DeskInv, DeskTypeOK, TablesTypeOK
<1>3. ExecutedStored'
  <2> SUFFICES ASSUME NEW p \in Requests, handler'[p].state = "executed"
               PROVE  Stored(handler[p].query, handler[p].id)'
      BY DEF ExecutedStored
  <2>1. handler'[p] = handler[p]
      OBVIOUS
  <2>2. Stored(handler[p].query, handler[p].id)
      BY <2>1 DEF DeskInv, ExecutedStored
  <2>3. QED
      BY <2>1, <2>2 DEF Stored, tables
<1>4. AnsweredStored'
  <2> SUFFICES ASSUME NEW x \in answered
               PROVE  /\ Stored(x.query, x.id)'
                      /\ x.query.kind \in {"order.create", "order.confirm"} =>
                             [action |-> x.query.kind, target |-> x.id] \in trail'
      BY DEF AnsweredStored
  <2>1. /\ Stored(x.query, x.id)
        /\ x.query.kind \in {"order.create", "order.confirm"} =>
               [action |-> x.query.kind, target |-> x.id] \in trail
      BY DEF DeskInv, AnsweredStored
  <2>2. QED
      BY <2>1 DEF Stored, tables
<1>5. AnsweredForWhenVerified'
    BY DEF DeskInv, AnsweredForWhenVerified, tables
<1>6. TwoFactorFanOut'
  <2>1. \A c \in Challenges : Verifying(c)' \subseteq Verifying(c)
      BY DEF Verifying
  <2>2. QED
      BY <2>1, FanOutKept DEF DeskInv
<1>7. QED
    BY <1>1, <1>2, <1>3, <1>4, <1>5, <1>6 DEF DeskInv

\* The process ends: nobody waits any more.
LEMMA AbandonKeeps == ASSUME DeskInv, AbandonRequests PROVE DeskInv'
<1>1. \A r \in Requests : handler'[r] \in {Idle} \cup Waiting
    BY HandlerShape, WaitingShape DEF DeskInv, AbandonRequests
<1>2. \A r \in Requests : handler'[r].state \in {"idle", "orphan"}
    BY DEF AbandonRequests, Idle
<1>3. handler' \in [Requests -> {Idle} \cup Waiting]
    BY <1>1 DEF AbandonRequests
<1>4. QED
    BY <1>2, <1>3, EndKeeps DEF AbandonRequests, DeskInv, DeskTypeOK

LEMMA FailKeeps ==
    ASSUME DeskInv, NEW r \in Requests, Fail(r) \/ Lapse(r)
    PROVE  DeskInv'
<1> DEFINE q == handler[r].query
<1>1. /\ handler' = [handler EXCEPT ![r] = Idle]
      /\ UNCHANGED <<tables, answered, verified>>
      /\ handler[r].state \in {"sent", "executed", "orphan"}
    BY DEF Fail, Lapse
<1>2. q \in Query /\ (q.kind = "order.confirm" => q.order \in Orders)
    BY <1>1, HandlerShape, QueryFields DEF DeskInv
<1>3. \/ UNCHANGED trail
      \/ q.kind = "order.create" /\ Audit(q.kind, DevOrder)
      \/ q.kind = "order.confirm" /\ Audit(q.kind, q.order)
    BY DEF Fail, Lapse
<1> HIDE DEF q
<1>4. trail \subseteq trail' /\ trail' \subseteq AuditRecord
    BY <1>2, <1>3 DEF Audit, AuditRecord, DeskInv, DeskTypeOK
<1>5. handler' \in [Requests -> {Idle} \cup Waiting]
    BY <1>1 DEF DeskInv, DeskTypeOK
<1>6. \A p \in Requests : handler'[p] = IF p = r THEN Idle ELSE handler[p]
    BY <1>1 DEF DeskInv, DeskTypeOK
<1>7. QED
    BY <1>1, <1>4, <1>5, <1>6, EndKeeps DEF Idle

\* An answer: what it says is stored, and a verification is counted in the place
\* of the request that made it.
LEMMA RespondKeeps ==
    ASSUME DeskInv, NEW r \in Requests, Respond(r)
    PROVE  DeskInv'
<1> DEFINE q == handler[r].query
           id == handler[r].id
           x == [query |-> q, id |-> id]
<1>1. /\ handler[r].state = "executed"
      /\ IF q.kind \in {"order.create", "order.confirm"} THEN Audit(q.kind, id) ELSE UNCHANGED trail
      /\ answered' = answered \cup {x}
      /\ verified' = IF q.kind = "challenge.update" THEN [verified EXCEPT ![id] = @ + 1] ELSE verified
      /\ handler' = [handler EXCEPT ![r] = Idle]
      /\ UNCHANGED tables
    BY DEF Respond
<1>2. q \in Query /\ id \in Row /\ Stored(q, id) /\ x \in Answer /\ x.query = q /\ x.id = id
    BY <1>1, HandlerShape DEF DeskInv, ExecutedStored, Answer
<1>3. r \in Verifying(id) <=> q.kind = "challenge.update" /\ q.id = id
    BY <1>1 DEF Verifying
<1> HIDE DEF q, id, x
<1>4. \A p \in Requests : handler'[p] = IF p = r THEN Idle ELSE handler[p]
    BY <1>1 DEF DeskInv, DeskTypeOK
<1>5. TablesTypeOK' /\ StatusIsLastDecision'
    BY <1>1, TablesSame
<1>6. trail \subseteq trail' /\ trail' \subseteq AuditRecord
      /\ (q.kind \in {"order.create", "order.confirm"} => [action |-> q.kind, target |-> id] \in trail')
    BY <1>1, <1>2 DEF Audit, AuditRecord, Stored, DeskInv, DeskTypeOK
<1>7. /\ verified' \in [Challenges -> Nat]
      /\ \A c \in Challenges :
            verified'[c] = IF q.kind = "challenge.update" /\ c = id
                           THEN verified[c] + 1 ELSE verified[c]
  <2>1. CASE q.kind = "challenge.update"
      BY <1>1, <1>2, <2>1 DEF DeskInv, DeskTypeOK, Stored
  <2>2. CASE q.kind # "challenge.update"
      BY <1>1, <2>2 DEF DeskInv, DeskTypeOK
  <2>3. QED
      BY <2>1, <2>2
<1>8. DeskTypeOK'
    BY <1>1, <1>2, <1>5, <1>6, <1>7 DEF DeskInv, DeskTypeOK, TablesTypeOK
<1>9. ExecutedStored'
  <2> SUFFICES ASSUME NEW p \in Requests, handler'[p].state = "executed"
               PROVE  Stored(handler[p].query, handler[p].id)'
      BY DEF ExecutedStored
  <2>1. handler'[p] = handler[p]
      BY <1>4 DEF Idle
  <2>2. Stored(handler[p].query, handler[p].id)
      BY <2>1 DEF DeskInv, ExecutedStored
  <2>3. QED
      BY <1>1, <2>1, <2>2 DEF Stored, tables
<1>10. AnsweredStored'
  <2> SUFFICES ASSUME NEW y \in answered'
               PROVE  /\ Stored(y.query, y.id)'
                      /\ y.query.kind \in {"order.create", "order.confirm"} =>
                             [action |-> y.query.kind, target |-> y.id] \in trail'
      BY DEF AnsweredStored
  <2>1. Stored(y.query, y.id)
      BY <1>1, <1>2 DEF DeskInv, AnsweredStored
  <2>2. y.query.kind \in {"order.create", "order.confirm"} =>
            [action |-> y.query.kind, target |-> y.id] \in trail'
      BY <1>1, <1>2, <1>6 DEF DeskInv, AnsweredStored
  <2>3. QED
      BY <1>1, <2>1, <2>2 DEF Stored, tables
<1>11. AnsweredForWhenVerified'
    BY <1>1, <1>2, <1>7 DEF DeskInv, AnsweredForWhenVerified, Stored, tables
<1>12. TwoFactorFanOut'
  <2> SUFFICES ASSUME NEW c \in Challenges
               PROVE  verified'[c] + Cardinality(Verifying(c)') <= Cardinality(Requests)
      BY DEF TwoFactorFanOut
  <2>1. /\ verified[c] \in Nat
        /\ verified[c] + Cardinality(Verifying(c)) <= Cardinality(Requests)
        /\ Verifying(c) \in SUBSET Requests /\ Verifying(c)' \in SUBSET Requests
      BY DEF DeskInv, DeskTypeOK, TwoFactorFanOut, Verifying
  <2>2. Verifying(c)' = Verifying(c) \ {r}
      BY <1>4 DEF Verifying, Idle
  <2>3. /\ Cardinality(Verifying(c)) \in Nat /\ Cardinality(Verifying(c)') \in Nat
        /\ Cardinality(Requests) \in Nat
        /\ Cardinality(Verifying(c)') <= Cardinality(Verifying(c))
        /\ r \in Verifying(c) => Cardinality(Verifying(c)') = Cardinality(Verifying(c)) - 1
      BY <2>1, <2>2, SetsOfRequests
  <2>4. CASE q.kind = "challenge.update" /\ c = id
      BY <1>2, <1>3, <1>7, <2>1, <2>3, <2>4 DEF Stored
  <2>5. CASE ~(q.kind = "challenge.update" /\ c = id)
      BY <1>7, <2>1, <2>3, <2>5
  <2>6. QED
      BY <2>4, <2>5
<1>13. QED
    BY <1>5, <1>8, <1>9, <1>10, <1>11, <1>12 DEF DeskInv

LEMMA ExpiryKeeps ==
    ASSUME DeskInv, NEW c \in Challenges, ChallengeExpires(c)
    PROVE  DeskInv'
<1>1. /\ TablesTypeOK' /\ Grows /\ StatusIsLastDecision'
      /\ UNCHANGED <<handler, trail, answered, verified>>
    BY DEF ChallengeExpires, DeskInv, DeskTypeOK, TablesTypeOK, Grows, StatusIsLastDecision
<1>2. DeskTypeOK'
    BY <1>1 DEF DeskInv, DeskTypeOK, TablesTypeOK
<1>3. ExecutedStored'
  <2> SUFFICES ASSUME NEW p \in Requests, handler[p].state = "executed"
               PROVE  Stored(handler[p].query, handler[p].id)'
      BY <1>1 DEF ExecutedStored
  <2>1. Stored(handler[p].query, handler[p].id)
      BY DEF DeskInv, ExecutedStored
  <2>2. QED
      BY <1>1, <2>1 DEF Stored, Grows
<1>4. TwoFactorFanOut'
    BY <1>1 DEF DeskInv, TwoFactorFanOut, Verifying
<1>5. QED
    BY <1>1, <1>2, <1>3, <1>4, AnswersStay DEF DeskInv

LEMMA DeskSame == ASSUME DeskInv, UNCHANGED deskVars PROVE DeskInv'
<1>1. UNCHANGED <<tables, handler, trail, answered, verified>>
    BY DEF deskVars
<1>2. QED
    BY <1>1, EndKeeps DEF DeskInv, DeskTypeOK

LEMMA ServeKeeps ==
    ASSUME DeskInv, NEW r \in Requests, Serve(r)
    PROVE  DeskInv'
<1>1. ASSUME NEW q, q \in Query, q.kind # "challenge.update", Ask(r, q) PROVE DeskInv'
    BY <1>1, AskKeeps
<1>2. CASE \/ \E safeDev \in BOOLEAN : CreateOrder(r, safeDev)
           \/ \E o \in Orders : ConfirmOrder(r, o) \/ RequestReturn(r, o)
           \/ RequestApproval(r)
           \/ BeginTwoFactorSetup(r)
    BY <1>1, <1>2
    DEF CreateOrder, ConfirmOrder, RequestReturn, RequestApproval, BeginTwoFactorSetup, Query
<1>3. CASE \E t \in Returns, status \in ReturnTexts : UpdateReturn(r, t, status)
    BY <1>1, <1>3 DEF UpdateReturn, Query
<1>4. CASE \E a \in Approvals, approver \in Approvers, verdict \in Verdicts \cup {"omitted", "text"} :
              Decide(r, a, approver, verdict)
  <2>1. PICK a \in Approvals, approver \in Approvers, verdict \in Verdicts \cup {"omitted", "text"} :
                Decide(r, a, approver, verdict)
      BY <1>4
  <2> DEFINE decided == IF verdict = "omitted" THEN "approved" ELSE verdict
             q == [kind |-> "approval.decide", id |-> a, approver |-> approver, verdict |-> decided]
  <2>2. decided \in Verdicts /\ Ask(r, q)
      BY <2>1 DEF Decide, Verdicts
  <2>3. q \in Query /\ q.kind # "challenge.update"
      BY <2>2 DEF Query
  <2>4. QED
      BY <1>1, <2>2, <2>3
<1>5. CASE \E c \in Challenges : VerifyTwoFactor(r, c)
  <2>1. PICK c \in Challenges : VerifyTwoFactor(r, c)
      BY <1>5
  <2> DEFINE q == [kind |-> "challenge.update", id |-> c]
  <2>2. q \in Query /\ Ask(r, q) /\ Found(q.id)
      BY <2>1 DEF VerifyTwoFactor, Query
  <2>3. QED
      BY <2>2, AskKeeps
<1>6. QED
    BY <1>2, <1>3, <1>4, <1>5 DEF Serve

-----------------------------------------------------------------------------
(* The lists.                                                              *)

LEMMA ListKeeps ==
    ASSUME ListsTypeOK,
           \/ \E list \in Lists : AddItem(list)
           \/ \E d \in Drivers, namesShipment \in BOOLEAN : CheckIn(d, namesShipment)
    PROVE  ListsTypeOK'
<1>1. /\ accepted \in 0 .. MaxItems /\ accepted < MaxItems /\ accepted' = accepted + 1
      /\ UNCHANGED <<sendsUnawaited, stored>>
      /\ accepted' \in 1 .. MaxItems
    BY MaxItemsAssumption DEF AddItem, CheckIn, List, Accept, ListsTypeOK
<1>2. location' \in [Drivers -> 0 .. MaxItems]
    BY <1>1, MaxItemsAssumption DEF AddItem, CheckIn, ListsTypeOK
<1>3. \/ UNCHANGED <<listed, sent>>
      \/ \E list \in Lists : List(list)
    BY DEF AddItem, CheckIn, Lists
<1>4. CASE UNCHANGED <<listed, sent>>
    BY <1>1, <1>2, <1>4 DEF ListsTypeOK
<1>5. CASE \E list \in Lists : List(list)
  <2>1. PICK list \in Lists : List(list)
      BY <1>5
  <2>2. /\ NextItem(list) \in Item /\ NextItem(list).list = list
        /\ listed' = listed \cup {NextItem(list)}
        /\ sent' = IF Sends(list) THEN sent \cup {NextItem(list)} ELSE sent
      BY <1>1, <2>1 DEF List, NextItem, Item
  <2>3. QED
      BY <1>1, <1>2, <2>2, MaxItemsAssumption DEF ListsTypeOK
<1>6. QED
    BY <1>3, <1>4, <1>5

LEMMA SettleKeeps ==
    ASSUME ListsTypeOK, NEW item \in sent, InsertItem(item) \/ RejectHandled(item)
    PROVE  ListsTypeOK'
BY DEF InsertItem, RejectHandled, Settle, ListsTypeOK

LEMMA ListsSame == ASSUME ListsTypeOK, UNCHANGED listVars PROVE ListsTypeOK'
BY DEF listVars, ListsTypeOK

\* A process that ends takes its lists with it.
LEMMA EndProcessKeeps == ASSUME IInv, EndProcess PROVE IInv'
<1>1. DeskInv'
    BY AbandonKeeps DEF EndProcess, IInv
<1>2. ListsTypeOK'
    BY MaxItemsAssumption DEF EndProcess, ForgetLists, Settle, IInv, ListsTypeOK
<1>3. QED
    BY <1>1, <1>2 DEF EndProcess, IInv

-----------------------------------------------------------------------------
(* The invariant and the properties.                                       *)

LEMMA InitIInv == Init => IInv
<1> SUFFICES ASSUME Init PROVE IInv
    OBVIOUS
<1>1. DeskTypeOK
    BY OrderStatuses DEF Init, DeskInit, DeskTypeOK
<1>2. StatusIsLastDecision /\ ExecutedStored /\ AnsweredStored /\ AnsweredForWhenVerified
    BY DEF Init, DeskInit, StatusIsLastDecision, ExecutedStored, AnsweredStored,
           AnsweredForWhenVerified, Idle
<1>3. TwoFactorFanOut
  <2> SUFFICES ASSUME NEW c \in Challenges
               PROVE  verified[c] + Cardinality(Verifying(c)) <= Cardinality(Requests)
      BY DEF TwoFactorFanOut
  <2>1. Verifying(c) = {} /\ verified[c] = 0
      BY DEF Init, DeskInit, Verifying, Idle
  <2>2. QED
      BY <2>1, FS_EmptySet, FS_CardinalityType, RequestsAssumption
<1>4. ListsTypeOK /\ served \in 0 .. MaxCalls
    BY MaxItemsAssumption, MaxCallsAssumption
    DEF Init, ListsInit, ListsTypeOK
<1>5. QED
    BY <1>1, <1>2, <1>3, <1>4 DEF IInv, DeskInv

LEMMA StepIInv == IInv /\ [Next]_vars => IInv'
<1> SUFFICES ASSUME IInv, [Next]_vars PROVE IInv'
    OBVIOUS
<1> USE DEF IInv
<1>1. CASE UNCHANGED vars
    BY <1>1, DeskSame, ListsSame DEF vars
<1>2. CASE \E r \in Requests : Serve(r) /\ UNCHANGED listVars
  <2>1. PICK r \in Requests : Serve(r) /\ UNCHANGED listVars
      BY <1>2
  <2>2. accepted \in Nat /\ served + accepted < MaxCalls /\ served' = served + 1
      BY <2>1 DEF Serve, ListsTypeOK
  <2>3. QED
      BY <2>1, <2>2, ServeKeeps, ListsSame, MaxCallsAssumption
<1>3. CASE DeskStep /\ UNCHANGED listVars
    BY <1>3, ExecuteKeeps, RespondKeeps, FailKeeps, ExpiryKeeps, ListsSame DEF DeskStep
<1>4. CASE ListStep /\ UNCHANGED <<deskVars, served>>
    BY <1>4, DeskSame, ListKeeps, SettleKeeps DEF ListStep
<1>5. CASE EndProcess
    BY <1>5, EndProcessKeeps
<1>6. QED
    BY <1>1, <1>2, <1>3, <1>4, <1>5 DEF Next

\* The steps that touch the tables: a query that executes, and time that runs out
\* for a challenge.
LEMMA QuietSteps ==
    ASSUME [Next]_vars
    PROVE  \/ \E r \in Requests : Execute(r)
           \/ \E c \in Challenges : ChallengeExpires(c)
           \/ UNCHANGED tables
<1>1. CASE UNCHANGED vars
    BY <1>1 DEF vars, deskVars
<1>2. CASE \E r \in Requests : Serve(r) /\ UNCHANGED listVars
    BY <1>2
    DEF Serve, CreateOrder, ConfirmOrder, RequestReturn, UpdateReturn, RequestApproval, Decide,
        BeginTwoFactorSetup, VerifyTwoFactor, Ask
<1>3. CASE DeskStep /\ UNCHANGED listVars
    BY <1>3 DEF DeskStep, Respond, Fail, Lapse
<1>4. CASE ListStep /\ UNCHANGED <<deskVars, served>>
    BY <1>4 DEF deskVars
<1>5. CASE EndProcess
    BY <1>5 DEF EndProcess, AbandonRequests
<1>6. QED
    BY <1>1, <1>2, <1>3, <1>4, <1>5 DEF Next

LEMMA TablesGrow == IInv /\ [Next]_vars => Grows
<1> SUFFICES ASSUME IInv, [Next]_vars PROVE Grows
    OBVIOUS
<1>1. TablesTypeOK
    BY DEF IInv, DeskInv, DeskTypeOK, TablesTypeOK
<1>2. CASE UNCHANGED tables
    BY <1>2 DEF tables, Grows
<1>3. ASSUME NEW c \in Challenges, ChallengeExpires(c) PROVE Grows
    BY <1>1, <1>3 DEF ChallengeExpires, TablesTypeOK, Grows
<1>4. ASSUME NEW r \in Requests, Execute(r) PROVE Grows
  <2>1. ASSUME NEW o \in Orders, InsertOrder(r, o) PROVE Grows
      BY <1>1, <2>1 DEF InsertOrder, TablesTypeOK, Grows
  <2>2. CASE UpdateOrder(r)
      BY <1>1, <2>2 DEF UpdateOrder, TablesTypeOK, Grows
  <2>3. ASSUME NEW t \in Returns, InsertReturn(r, t) PROVE Grows
      BY <1>1, <2>3 DEF InsertReturn, TablesTypeOK, Grows
  <2>4. CASE UpdateReturnRow(r)
    <3> DEFINE u == handler[r].query.id
               status == handler[r].query.status
    <3>1. /\ return[u] # NoReturn
          /\ return' = [return EXCEPT ![u].status = status]
          /\ UNCHANGED <<order, approval, decisions, challenge>>
        BY <2>4 DEF UpdateReturnRow
    <3> HIDE DEF u, status
    <3>2. ASSUME NEW t \in Returns, return[t] # NoReturn PROVE return'[t] # NoReturn
      <4>1. return[t] \in [order: Orders, status: ReturnStatus]
          BY <1>1, <3>2 DEF TablesTypeOK
      <4>2. return'[t].order = return[t].order
          BY <1>1, <3>1, <4>1 DEF TablesTypeOK
      <4>3. QED
          BY <4>1, <4>2, OrdersAssumption DEF NoReturn
    <3>3. QED
        BY <3>1, <3>2 DEF Grows
  <2>5. ASSUME NEW a \in Approvals, InsertApproval(r, a) PROVE Grows
      BY <1>1, <2>5 DEF InsertApproval, TablesTypeOK, Grows
  <2>6. CASE DecideTransaction(r)
    <3> DEFINE a == handler[r].query.id
               d == [approver |-> handler[r].query.approver, verdict |-> handler[r].query.verdict]
    <3>1. /\ decisions' = [decisions EXCEPT ![a] = Append(@, d)]
          /\ UNCHANGED <<order, return, challenge>>
        BY <2>6 DEF DecideTransaction
    <3> HIDE DEF a, d
    <3>2. ASSUME NEW b \in Approvals, NEW n \in DOMAIN decisions[b]
          PROVE  n \in DOMAIN decisions'[b] /\ decisions'[b][n] = decisions[b][n]
      <4>1. decisions[b] \in Seq(Decision)
          BY <1>1 DEF TablesTypeOK
      <4>2. decisions'[b] = decisions[b] \/ decisions'[b] = Append(decisions[b], d)
          BY <1>1, <3>1 DEF TablesTypeOK
      <4>3. QED
          BY <4>1, <4>2
    <3>3. QED
        BY <3>1, <3>2 DEF Grows
  <2>7. ASSUME NEW c \in Challenges, InsertChallenge(r, c) PROVE Grows
      BY <1>1, <2>7 DEF InsertChallenge, TablesTypeOK, Grows
  <2>8. CASE UpdateChallenge(r)
      BY <1>1, <2>8 DEF UpdateChallenge, TablesTypeOK, Grows
  <2>9. QED
      BY <1>4, <2>1, <2>2, <2>3, <2>4, <2>5, <2>6, <2>7, <2>8 DEF Execute
<1>5. QED
    BY <1>2, <1>3, <1>4, QuietSteps

\* The inductive invariant of the desk and the lists.
THEOREM InvariantHolds == Spec => []IInv
BY InitIInv, StepIInv, PTL DEF Spec

\* The tables, the requests and the lists keep their shape; every decision on file
\* was made by a user.
THEOREM TypeCorrect == Spec => []TypeOK
<1>1. IInv => TypeOK
    BY DEF IInv, DeskInv, ListsTypeOK, TypeOK
<1>2. QED
    BY <1>1, InvariantHolds, PTL

\* In whatever order decisions commit, the status is the last of them.
THEOREM StatusIsLastDecisionHolds == Spec => []StatusIsLastDecision
<1>1. IInv => StatusIsLastDecision
    BY DEF IInv, DeskInv
<1>2. QED
    BY <1>1, InvariantHolds, PTL

\* What a client was told is on file, whatever fails or ends afterwards.
THEOREM AnsweredIsStoredHolds == Spec => []AnsweredIsStored
<1>1. IInv => AnsweredIsStored
    BY DEF IInv, DeskInv, AnsweredStored, Stored, AnsweredIsStored
<1>2. QED
    BY <1>1, InvariantHolds, PTL

\* A challenge answers for at most one verification per request served at a time.
THEOREM TwoFactorFanOutHolds == Spec => []TwoFactorFanOut
<1>1. IInv => TwoFactorFanOut
    BY DEF IInv, DeskInv
<1>2. QED
    BY <1>1, InvariantHolds, PTL

\* What is on file stays there: no row is lost, no booking, no decision and no
\* verification is taken back, whatever requests, failures and restarts come.
THEOREM NothingIsTakenBack == Spec => NothingTakenBack
<1>1. IInv /\ [Next]_vars => [Grows]_deskVars
    BY TablesGrow
<1>2. QED
    BY <1>1, InvariantHolds, PTL DEF Spec, NothingTakenBack

\* What a step may do to a request that waits: its query executes, its process
\* ends while it is under way, or it is over.  No query is sent again, and none is
\* exchanged for another.
WaitsForOneQuery ==
    \A r \in Requests : handler[r] # Idle =>
        \/ handler'[r] \in {handler[r], Idle}
        \/ /\ handler[r].state = "sent" /\ handler'[r].state \in {"executed", "orphan"}
           /\ handler'[r].query = handler[r].query

\* A query that executes takes its request one step on, and no other request.
LEMMA ExecuteMoves ==
    ASSUME DeskInv, NEW r \in Requests, Execute(r)
    PROVE  /\ handler[r].state \in {"sent", "orphan"}
           /\ \E id : handler' = [handler EXCEPT ![r] =
                          IF @.state = "orphan" THEN Idle
                          ELSE [state |-> "executed", query |-> @.query, id |-> id]]
<1>1. ASSUME NEW kind, NEW id, Executes(r, kind), Executed(r, id)
      PROVE  /\ handler[r].state \in {"sent", "orphan"}
             /\ \E n : handler' = [handler EXCEPT ![r] =
                          IF @.state = "orphan" THEN Idle
                          ELSE [state |-> "executed", query |-> @.query, id |-> n]]
    BY <1>1 DEF Executes, Executed
<1>2. \E kind, id : Executes(r, kind) /\ Executed(r, id)
    BY DEF Execute, InsertOrder, UpdateOrder, InsertReturn, UpdateReturnRow, InsertApproval,
           DecideTransaction, InsertChallenge, UpdateChallenge
<1>3. QED
    BY <1>1, <1>2

LEMMA StepMoves == IInv /\ [Next]_vars => WaitsForOneQuery
<1> SUFFICES ASSUME IInv, [Next]_vars, NEW r \in Requests, handler[r] # Idle
             PROVE  \/ handler'[r] \in {handler[r], Idle}
                    \/ /\ handler[r].state = "sent"
                       /\ handler'[r].state \in {"executed", "orphan"}
                       /\ handler'[r].query = handler[r].query
    BY DEF WaitsForOneQuery
<1>1. DeskInv /\ handler \in [Requests -> {Idle} \cup Waiting]
    BY DEF IInv, DeskInv, DeskTypeOK
<1>2. CASE UNCHANGED handler
    BY <1>2
<1>3. CASE \E q \in Requests : Execute(q)
  <2>1. PICK q \in Requests : Execute(q)
      BY <1>3
  <2>2. PICK id : handler' = [handler EXCEPT ![q] =
                      IF @.state = "orphan" THEN Idle
                      ELSE [state |-> "executed", query |-> @.query, id |-> id]]
      BY <1>1, <2>1, ExecuteMoves
  <2>3. CASE q = r
    <3>1. handler[r].state \in {"sent", "orphan"}
        BY <1>1, <2>1, <2>3, ExecuteMoves
    <3>2. QED
        BY <1>1, <2>2, <2>3, <3>1
  <2>4. CASE q # r
      BY <1>1, <2>2, <2>4
  <2>5. QED
      BY <2>3, <2>4
<1>4. CASE \E q \in Requests : Respond(q) \/ Fail(q) \/ Lapse(q)
    BY <1>1, <1>4 DEF Respond, Fail, Lapse
<1>5. CASE \E q \in Requests : \E query : Ask(q, query)
    BY <1>1, <1>5 DEF Ask
<1>6. CASE AbandonRequests
  <2>1. handler[r] \in Waiting
      BY <1>1
  <2>2. handler'[r] = IF handler[r].state \in {"sent", "orphan"}
                      THEN [state |-> "orphan", query |-> handler[r].query] ELSE Idle
      BY <1>6 DEF AbandonRequests
  <2>3. CASE handler[r].state = "orphan"
      BY <2>1, <2>2, <2>3 DEF Waiting
  <2>4. CASE handler[r].state # "orphan"
      BY <2>2, <2>4
  <2>5. QED
      BY <2>3, <2>4
<1>7. QED
  <2>1. CASE UNCHANGED vars
      BY <1>2, <2>1 DEF vars, deskVars
  <2>2. CASE \E q \in Requests : Serve(q) /\ UNCHANGED listVars
    <3>1. \E q \in Requests : \E query : Ask(q, query)
        BY <2>2 DEF Serve, CreateOrder, ConfirmOrder, RequestReturn, UpdateReturn,
                    RequestApproval, Decide, BeginTwoFactorSetup, VerifyTwoFactor
    <3>2. QED
        BY <1>5, <3>1
  <2>3. CASE DeskStep /\ UNCHANGED listVars
      BY <1>2, <1>3, <1>4, <2>3 DEF DeskStep, ChallengeExpires
  <2>4. CASE ListStep /\ UNCHANGED <<deskVars, served>>
      BY <1>2, <2>4 DEF deskVars
  <2>5. CASE EndProcess
      BY <1>6, <2>5 DEF EndProcess
  <2>6. QED
      BY <2>1, <2>2, <2>3, <2>4, <2>5 DEF Next

\* A request waits for the query it sent and for no other, and for each state of
\* that query once: no failure and no restart sets it back.
THEOREM RequestsMoveOn == Spec => [][WaitsForOneQuery]_vars
<1>1. IInv /\ [Next]_vars => [WaitsForOneQuery]_vars
    BY StepMoves
<1>2. QED
    BY <1>1, InvariantHolds, PTL DEF Spec

=============================================================================
