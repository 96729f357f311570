------------------------------ MODULE CaseDesk ------------------------------
(***************************************************************************)
(* Handlers that wait for one query and answer with its result: the orders,*)
(* returns and approvals controllers, and the two-factor handlers of       *)
(* AuthService.                                                            *)
(*                                                                         *)
(* A query executes at some time after it was sent; its result arrives, or *)
(* an error does, also when the query took effect.  Several handlers turn  *)
(* an error into an answer marked developmentFallback.  The end of the     *)
(* process drops the handlers; queries that were sent may still execute.   *)
(***************************************************************************)
EXTENDS StateTables

CONSTANTS
    Requests,       \* HTTP requests served at the same time
    Orders, Returns, Approvals, Challenges,     \* rows that can come to exist
    Approvers,      \* actors that decide on approvals
    Users,          \* those of them that are rows of users
    ReturnTexts     \* texts that clients send as the status of a return

ASSUME RequestsAssumption == IsFiniteSet(Requests)
ASSUME OrdersAssumption == "none" \notin Orders
ASSUME UsersAssumption == Users \subseteq Approvers

VARIABLES
    order,          \* orders.status
    return,         \* returns: the order and the status
    approval,       \* approval_requests.status
    decisions,      \* approval_decisions of each request, in the order of their commits
    challenge,      \* two_factor_challenges.status; expired for pending and out of date
    handler,        \* what each request waits for
    trail,          \* entries about orders given to audit.create, of every run of the process
    answered,       \* history: the answers without the fallback mark
    verified        \* history: how often a challenge was answered as verified

tables == <<order, return, approval, decisions, challenge>>
deskVars == <<tables, handler, trail, answered, verified>>

Row == Orders \cup Returns \cup Approvals \cup Challenges

NoReturn == [order |-> "none", status |-> "none"]
Verdicts == {"approved", "rejected"}
Decision == [approver: Users, verdict: Verdicts]

\* What a handler waits for; safeDev is isSafeDevOrder of the order to create.
Query ==
    [kind: {"order.create"}, safeDev: BOOLEAN]
    \cup [kind: {"order.confirm"}, order: Orders]
    \cup [kind: {"return.create"}, order: Orders]
    \cup [kind: {"return.update"}, id: Returns, status: ReturnStatus]
    \cup [kind: {"approval.create"}]
    \cup [kind: {"approval.decide"}, id: Approvals, approver: Approvers, verdict: Verdicts]
    \cup [kind: {"challenge.create"}]
    \cup [kind: {"challenge.update"}, id: Challenges]

Answer == [query: Query, id: Row]

DevOrder == "dev-order-001"
AuditRecord == [action: {"order.create", "order.confirm"}, target: Orders \cup {DevOrder}]

\* A query was sent, has executed on the row id, or was sent by a process that ended.
Idle == [state |-> "idle"]
Waiting ==
    [state: {"sent", "orphan"}, query: Query]
    \cup [state: {"executed"}, query: Query, id: Row]

DeskTypeOK ==
    /\ order \in [Orders -> {"none"} \cup OrderStatus]
    /\ return \in [Returns -> [order: Orders, status: ReturnStatus] \cup {NoReturn}]
    /\ approval \in [Approvals -> {"none", "pending"} \cup Verdicts]
    /\ decisions \in [Approvals -> Seq(Decision)]
    /\ challenge \in [Challenges -> {"none", "pending", "expired", "verified"}]
    /\ handler \in [Requests -> {Idle} \cup Waiting]
    /\ trail \subseteq AuditRecord
    /\ answered \subseteq Answer
    /\ verified \in [Challenges -> Nat]

\* The seed leaves orders with an authorised payment; its returns and approvals are as
\* the handlers below make them.
DeskInit ==
    /\ order \in [Orders -> {"none", "payment_authorized"}]
    /\ return = [t \in Returns |-> NoReturn]
    /\ approval = [a \in Approvals |-> "none"]
    /\ decisions = [a \in Approvals |-> <<>>]
    /\ challenge = [c \in Challenges |-> "none"]
    /\ handler = [r \in Requests |-> Idle]
    /\ trail = {}
    /\ answered = {}
    /\ verified = [c \in Challenges |-> 0]

-----------------------------------------------------------------------------
(* A request comes in.                                                     *)

Ask(r, query) ==
    /\ handler[r] = Idle
    /\ handler' = [handler EXCEPT ![r] = [state |-> "sent", query |-> query]]
    /\ UNCHANGED <<tables, trail, answered, verified>>

CreateOrder(r, safeDev) == Ask(r, [kind |-> "order.create", safeDev |-> safeDev])

ConfirmOrder(r, o) == Ask(r, [kind |-> "order.confirm", order |-> o])

\* POST /returns with an order and a reason; without them it is refused at once.
RequestReturn(r, o) == Ask(r, [kind |-> "return.create", order |-> o])

\* The text must be a value of the enum; which status the return has is not asked.
UpdateReturn(r, t, status) ==
    /\ status \in ReturnStatus
    /\ Ask(r, [kind |-> "return.update", id |-> t, status |-> status])

RequestApproval(r) == Ask(r, [kind |-> "approval.create"])

\* A decision that is left out is an approval, as that of a refund always is; one
\* that is no verdict is answered as ignored.
Decide(r, a, approver, verdict) ==
    /\ verdict \in Verdicts \cup {"omitted"}
    /\ Ask(r, [kind |-> "approval.decide", id |-> a, approver |-> approver,
               verdict |-> IF verdict = "omitted" THEN "approved" ELSE verdict])

BeginTwoFactorSetup(r) == Ask(r, [kind |-> "challenge.create"])

\* Mutant: the where clause forgets the status.
FoundWhenKept(c) == challenge[c] # "none"

\* The where clause of verifyTwoFactor.
Found(c) == challenge[c] = "pending"

\* The right code: findFirst and then an update by id.
VerifyTwoFactor(r, c) ==
    /\ Found(c)
    /\ Ask(r, [kind |-> "challenge.update", id |-> c])

-----------------------------------------------------------------------------
(* The database.                                                           *)

Executes(r, kind) == handler[r].state \in {"sent", "orphan"} /\ handler[r].query.kind = kind

\* The result is on its way, unless nobody waits for it.
Executed(r, id) ==
    /\ handler' = [handler EXCEPT ![r] = IF @.state = "orphan" THEN Idle
                                         ELSE [state |-> "executed", query |-> @.query, id |-> id]]
    /\ UNCHANGED <<trail, answered, verified>>

\* Mutant: an upsert in place of the insert.
UpsertOrder(r, o) ==
    /\ Executes(r, "order.create")
    /\ order' = [order EXCEPT ![o] = "draft"]
    /\ Executed(r, o)
    /\ UNCHANGED <<return, approval, decisions, challenge>>

InsertOrder(r, o) ==
    /\ Executes(r, "order.create")
    /\ order[o] = "none"
    /\ order' = [order EXCEPT ![o] = "draft"]
    /\ Executed(r, o)
    /\ UNCHANGED <<return, approval, decisions, challenge>>

\* Whatever status the order has: one whose payment is authorised goes back to booked.
UpdateOrder(r) ==
    /\ Executes(r, "order.confirm")
    /\ LET o == handler[r].query.order
       IN  /\ order[o] # "none"
           /\ order' = [order EXCEPT ![o] = "booked"]
           /\ Executed(r, o)
    /\ UNCHANGED <<return, approval, decisions, challenge>>

InsertReturn(r, t) ==
    /\ Executes(r, "return.create")
    /\ return[t] = NoReturn
    /\ order[handler[r].query.order] # "none"
    /\ return' = [return EXCEPT ![t] = [order |-> handler[r].query.order,
                                        status |-> "return_requested"]]
    /\ Executed(r, t)
    /\ UNCHANGED <<order, approval, decisions, challenge>>

UpdateReturnRow(r) ==
    /\ Executes(r, "return.update")
    /\ LET t == handler[r].query.id
       IN  /\ return[t] # NoReturn
           /\ return' = [return EXCEPT ![t].status = handler[r].query.status]
           /\ Executed(r, t)
    /\ UNCHANGED <<order, approval, decisions, challenge>>

InsertApproval(r, a) ==
    /\ Executes(r, "approval.create")
    /\ approval[a] = "none"
    /\ approval' = [approval EXCEPT ![a] = "pending"]
    /\ Executed(r, a)
    /\ UNCHANGED <<order, return, decisions, challenge>>

\* Mutant: only a pending request is updated, the decision is recorded all the same.
DecideIfPending(r) ==
    /\ Executes(r, "approval.decide")
    /\ LET q == handler[r].query
       IN  /\ approval[q.id] # "none"
           /\ q.approver \in Users
           /\ decisions' = [decisions EXCEPT ![q.id] =
                               Append(@, [approver |-> q.approver, verdict |-> q.verdict])]
           /\ approval' = [approval EXCEPT ![q.id] = IF @ = "pending" THEN q.verdict ELSE @]
           /\ Executed(r, q.id)
    /\ UNCHANGED <<order, return, challenge>>

\* Mutant: decisions refer to no user.
DecideByAnyone(r) ==
    /\ Executes(r, "approval.decide")
    /\ LET q == handler[r].query
       IN  /\ approval[q.id] # "none"
           /\ decisions' = [decisions EXCEPT ![q.id] =
                               Append(@, [approver |-> q.approver, verdict |-> q.verdict])]
           /\ approval' = [approval EXCEPT ![q.id] = q.verdict]
           /\ Executed(r, q.id)
    /\ UNCHANGED <<order, return, challenge>>

\* The transaction: the decision of a user, and the status, whatever it was.
DecideTransaction(r) ==
    /\ Executes(r, "approval.decide")
    /\ LET q == handler[r].query
       IN  /\ approval[q.id] # "none"
           /\ q.approver \in Users
           /\ decisions' = [decisions EXCEPT ![q.id] =
                               Append(@, [approver |-> q.approver, verdict |-> q.verdict])]
           /\ approval' = [approval EXCEPT ![q.id] = q.verdict]
           /\ Executed(r, q.id)
    /\ UNCHANGED <<order, return, challenge>>

InsertChallenge(r, c) ==
    /\ Executes(r, "challenge.create")
    /\ challenge[c] = "none"
    /\ challenge' = [challenge EXCEPT ![c] = "pending"]
    /\ Executed(r, c)
    /\ UNCHANGED <<order, return, approval, decisions>>

\* By id: the status is not looked at again.
UpdateChallenge(r) ==
    /\ Executes(r, "challenge.update")
    /\ challenge' = [challenge EXCEPT ![handler[r].query.id] = "verified"]
    /\ Executed(r, handler[r].query.id)
    /\ UNCHANGED <<order, return, approval, decisions>>

Execute(r) ==
    \/ \E o \in Orders : InsertOrder(r, o)
    \/ UpdateOrder(r)
    \/ \E t \in Returns : InsertReturn(r, t)
    \/ UpdateReturnRow(r)
    \/ \E a \in Approvals : InsertApproval(r, a)
    \/ DecideTransaction(r)
    \/ \E c \in Challenges : InsertChallenge(r, c)
    \/ UpdateChallenge(r)

ChallengeExpires(c) ==
    /\ challenge[c] = "pending"
    /\ challenge' = [challenge EXCEPT ![c] = "expired"]
    /\ UNCHANGED <<order, return, approval, decisions, handler, trail, answered, verified>>

-----------------------------------------------------------------------------
(* The end of a request.                                                   *)

\* The order handlers hand their entry to the audit log when the query is over.
Audit(action, target) == trail' = trail \cup {[action |-> action, target |-> target]}

Respond(r) ==
    /\ handler[r].state = "executed"
    /\ LET h == handler[r]
       IN  /\ IF h.query.kind \in {"order.create", "order.confirm"}
              THEN Audit(h.query.kind, h.id) ELSE UNCHANGED trail
           /\ answered' = answered \cup {[query |-> h.query, id |-> h.id]}
           /\ verified' = IF h.query.kind = "challenge.update"
                          THEN [verified EXCEPT ![h.id] = @ + 1] ELSE verified
    /\ handler' = [handler EXCEPT ![r] = Idle]
    /\ UNCHANGED tables

\* Mutant: the catch answers with what was asked for, without the mark.
FailUnmarked(r) ==
    /\ handler[r].state \in {"sent", "executed"}
    /\ answered' = IF handler[r].query.kind \in {"order.confirm"}
                   THEN answered \cup {[query |-> handler[r].query, id |-> handler[r].query.order]}
                   ELSE answered
    /\ handler' = [handler EXCEPT ![r] = Idle]
    /\ UNCHANGED <<tables, trail, verified>>

\* The error of a query, which may have taken effect: an exception, or an answer
\* with the fallback mark, which the order handlers audit all the same.
Fail(r) ==
    /\ handler[r].state \in {"sent", "executed"}
    /\ LET q == handler[r].query
       IN  CASE q.kind = "order.create" /\ q.safeDev -> Audit(q.kind, DevOrder)
             [] q.kind = "order.confirm" -> Audit(q.kind, q.order)
             [] OTHER -> UNCHANGED trail
    /\ handler' = [handler EXCEPT ![r] = Idle]
    /\ UNCHANGED <<tables, answered, verified>>

\* A query of a process that ended is lost.
Lapse(r) ==
    /\ handler[r].state = "orphan"
    /\ handler' = [handler EXCEPT ![r] = Idle]
    /\ UNCHANGED <<tables, trail, answered, verified>>

\* The process ends.
AbandonRequests ==
    /\ handler' = [r \in Requests |->
                      IF handler[r].state \in {"sent", "orphan"}
                      THEN [state |-> "orphan", query |-> handler[r].query] ELSE Idle]
    /\ UNCHANGED <<tables, trail, answered, verified>>

-----------------------------------------------------------------------------
(* Properties.                                                             *)

\* Decisions of several approvers overwrite each other, in any order and also
\* those of a process that has ended; the status of a request for approval is
\* always the verdict of the last one on file, and pending if there is none.
StatusIsLastDecision ==
    \A a \in Approvals :
        approval[a] \in IF decisions[a] = <<>> THEN {"none", "pending"}
                       ELSE {decisions[a][Len(decisions[a])].verdict}

\* What a client was told without the fallback mark is on file and stays there,
\* whatever other requests, failures and restarts come after; and an order it was
\* told about is in the audit log.
AnsweredIsStored ==
    \A x \in answered :
        LET kind == x.query.kind
        IN  /\ kind = "order.create" => order[x.id] # "none"
            /\ kind = "order.confirm" => order[x.id] = "booked"
            /\ kind \in {"return.create", "return.update"} => return[x.id] # NoReturn
            /\ kind = "approval.decide" =>
                   \E n \in DOMAIN decisions[x.id] :
                       decisions[x.id][n] = [approver |-> x.query.approver,
                                             verdict |-> x.query.verdict]
            /\ kind = "challenge.update" => challenge[x.id] = "verified"
            /\ kind \in {"order.create", "order.confirm"} =>
                   [action |-> kind, target |-> x.id] \in trail

\* The requests that found a challenge and may still answer for it.
Verifying(c) ==
    {r \in Requests : /\ handler[r].state \in {"sent", "executed"}
                      /\ handler[r].query.kind = "challenge.update"
                      /\ handler[r].query.id = c}

\* A challenge answers for at most as many verifications as requests are served
\* at the same time: those that found it before the first of them updated it.
TwoFactorFanOut ==
    \A c \in Challenges : verified[c] + Cardinality(Verifying(c)) <= Cardinality(Requests)

\* What is on file stays there, whichever queries execute late, twice or for a process
\* that has ended: no row is lost, no booking is undone by another statement, no
\* decision is changed or moved, and no verification expires.
Grows ==
    /\ \A o \in Orders : /\ order[o] # "none" => order'[o] # "none"
                         /\ order[o] = "booked" => order'[o] = "booked"
    /\ \A t \in Returns : return[t] # NoReturn => return'[t] # NoReturn
    /\ \A a \in Approvals : \A n \in DOMAIN decisions[a] :
           n \in DOMAIN decisions'[a] /\ decisions'[a][n] = decisions[a][n]
    /\ \A c \in Challenges : challenge[c] = "verified" => challenge'[c] = "verified"

NothingTakenBack == [][Grows]_deskVars

=============================================================================
