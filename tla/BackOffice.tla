----------------------------- MODULE BackOffice -----------------------------
(***************************************************************************)
(* CaseDesk and ProcessLists in one process: the error of an insert that   *)
(* nobody handles, of a notification say, ends the process under the order,*)
(* return, approval and two-factor requests that are being served.         *)
(***************************************************************************)
EXTENDS CaseDesk, ProcessLists

CONSTANT MaxCalls   \* bound: requests ever served, of the desk and of the lists

ASSUME MaxCallsAssumption == MaxCalls \in Nat

VARIABLE served     \* number of requests that came in at the desk

vars == <<deskVars, listVars, served>>

TypeOK == DeskTypeOK /\ ListsTypeOK /\ served \in 0 .. MaxCalls

Init == DeskInit /\ ListsInit /\ served = 0

\* A handler of the desk is called.
Serve(r) ==
    /\ served + accepted < MaxCalls
    /\ served' = served + 1
    /\ \/ \E safeDev \in BOOLEAN : CreateOrder(r, safeDev)
       \/ \E o \in Orders : ConfirmOrder(r, o) \/ RequestReturn(r, o)
       \/ \E t \in Returns, status \in ReturnTexts : UpdateReturn(r, t, status)
       \/ RequestApproval(r)
       \/ \E a \in Approvals, approver \in Approvers, verdict \in Verdicts \cup {"omitted", "text"} :
            Decide(r, a, approver, verdict)
       \/ BeginTwoFactorSetup(r)
       \/ \E c \in Challenges : VerifyTwoFactor(r, c)

DeskStep ==
    /\ \/ \E r \in Requests : Execute(r) \/ Respond(r) \/ Fail(r) \/ Lapse(r)
       \/ \E c \in Challenges : ChallengeExpires(c)
    /\ UNCHANGED served

ListStep ==
    \/ /\ served + accepted < MaxCalls
       /\ \/ \E list \in Lists : AddItem(list)
          \/ \E d \in Drivers, namesShipment \in BOOLEAN : CheckIn(d, namesShipment)
    \/ \E item \in sent : InsertItem(item) \/ RejectHandled(item)

\* The process ends, and starts again with empty lists: it is stopped, or an insert
\* is rejected that nobody handles.
EndProcess ==
    /\ AbandonRequests
    /\ ForgetLists
    /\ \/ UNCHANGED sent
       \/ \E item \in sent : ~Handled(item) /\ Settle(item)
    /\ UNCHANGED served

Next ==
    \/ \E r \in Requests : Serve(r) /\ UNCHANGED listVars
    \/ DeskStep /\ UNCHANGED listVars
    \/ ListStep /\ UNCHANGED <<deskVars, served>>
    \/ EndProcess

Spec == Init /\ [][Next]_vars

=============================================================================
