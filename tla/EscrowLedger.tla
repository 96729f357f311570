---------------------------- MODULE EscrowLedger ----------------------------
(***************************************************************************)
(* The money side of OperationsService (modules/shipments), LedgerService  *)
(* (modules/ledger) and DisputeWorkflowService (modules/disputes).         *)
(*                                                                         *)
(* The three work on arrays and Maps in the memory of one process.  Their  *)
(* queries are neither awaited nor caught: a database client that starts a *)
(* query when it is asked for its result never sends them, one that starts *)
(* it at once sends them, and then an error of the database is a rejection *)
(* that nobody handles and that ends the process.                          *)
(***************************************************************************)
EXTENDS Naturals, Sequences, FiniteSets

CONSTANTS
    Accounts, References,   \* what entries name: accounts, shipments and payments
    DevIds,                 \* those of them that isSafeDevId recognises
    Amounts,
    Releases,               \* bodies of POST /escrow/release that clients send
    Disputes,
    Decisions,              \* texts that clients send as a decision
    DisputeStatus,          \* the values of the enum of the column
    MaxEntries,             \* bound: entries ever appended
    MaxInFlight             \* bound: queries under way at the same time

\* dispute: none, closed, or active for every status in between; payment: held for
\* held_in_escrow, partial for partially_released.
ReleaseInput ==
    [account: Accounts, shipment: References, amount: Amounts, proofAccepted: BOOLEAN,
     dispute: {"none", "active", "closed"}, windowPassed: BOOLEAN,
     payment: {"held", "partial", "notRequired", "other"}]

ASSUME AmountsAssumption == Amounts \subseteq Nat
ASSUME ReleasesAssumption == Releases \subseteq ReleaseInput
ASSUME DisputeStatusAssumption == "opened" \in DisputeStatus /\ "missing" \notin DisputeStatus
ASSUME BoundAssumption == MaxEntries \in Nat /\ MaxInFlight \in Nat

VARIABLES
    sendsUnawaited, \* whether the client sends a query nobody waits for; it never changes
    entries,        \* LedgerService.entries
    audit,          \* the records handed to AuditLogService, in every run: memoryLogs has
                    \* those of the run that goes on, audit_logs some of them all
    evidence,       \* the disputes with evidence in DisputeWorkflowService.evidence
    pending,        \* queries sent and not yet settled
    stored,         \* rows of ledger_entries and dispute_evidence
    dispute,        \* disputes.status
    book,           \* history: the entries appended by every run of the process
    began,          \* history: for each of them, how many the book had when its run began
    submitted       \* history: the disputes evidence was given for, in every run

vars == <<sendsUnawaited, entries, audit, evidence, pending, stored, dispute, book, began,
          submitted>>

ledger == <<entries, audit, book, began>>

\* The reference of a reversal is the number in the id of the entry it reverses.
Entry ==
    [type: {"correction", "release", "refund", "reversal"}, account: Accounts, amount: Amounts,
     reference: References \cup 1..MaxEntries]

\* entry is the number in ledgerEntryId; position, a history, its place in the book.
AuditRecord ==
    [action: {"escrow.released", "refund.created"}, target: References,
     entry: Nat, position: Nat]

LedgerRow == [table: {"ledger"}, position: Nat]
EvidenceRow == [table: {"evidence"}, dispute: Disputes]
DecisionUpdate == [table: {"disputes"}, dispute: Disputes, decision: Decisions]

TypeOK ==
    /\ sendsUnawaited \in BOOLEAN
    /\ entries \in Seq(Entry)
    /\ audit \subseteq AuditRecord
    /\ evidence \subseteq Disputes
    /\ pending \subseteq LedgerRow \cup EvidenceRow \cup DecisionUpdate
    /\ stored \subseteq LedgerRow \cup EvidenceRow
    /\ dispute \in [Disputes -> DisputeStatus \cup {"missing"}]
    /\ book \in Seq(Entry)
    /\ began \in Seq(Nat)
    /\ submitted \subseteq Disputes

Init ==
    /\ sendsUnawaited \in BOOLEAN
    /\ entries = <<>>
    /\ audit = {}
    /\ evidence = {}
    /\ pending = {}
    /\ stored = {}
    /\ dispute = [d \in Disputes |-> "missing"]
    /\ book = <<>>
    /\ began = <<>>
    /\ submitted = {}

-----------------------------------------------------------------------------
\* A query whose promise is dropped.
Send(query) ==
    /\ Cardinality(pending) < MaxInFlight
    /\ pending' = IF sendsUnawaited THEN pending \cup {query} ELSE pending

\* LedgerService.append, and then the answer.
AppendEntry(entry) ==
    /\ entry.amount > 0
    /\ Len(book) < MaxEntries
    /\ entries' = Append(entries, entry)
    /\ book' = Append(book, entry)
    /\ began' = Append(began, Len(book) - Len(entries))
    /\ Send([table |-> "ledger", position |-> Len(book) + 1])
    /\ UNCHANGED <<sendsUnawaited, evidence, stored, dispute, submitted>>

\* Mutant: the number of the entry before it was added.
AuditLastEntry(action, target) ==
    audit' = audit \cup {[action |-> action, target |-> target, entry |-> Len(entries),
                          position |-> Len(book) + 1]}

\* The audit record of an entry that is being appended: its id is the new length.
AuditEntry(action, target) ==
    audit' = audit \cup {[action |-> action, target |-> target, entry |-> Len(entries) + 1,
                          position |-> Len(book) + 1]}

-----------------------------------------------------------------------------
(* Escrow, refunds and corrections.                                        *)

\* normalizeSafeDevEscrow: development ids have every condition but the dispute.
Normalized(input) ==
    IF input.account \in DevIds \/ input.shipment \in DevIds
    THEN [input EXCEPT !.proofAccepted = TRUE, !.windowPassed = TRUE,
                       !.payment = IF @ = "notRequired" THEN "held" ELSE @]
    ELSE input

\* assertEscrowRelease, on what the request says.
EscrowReleasable(input) ==
    /\ input.proofAccepted
    /\ input.dispute \in {"none", "closed"}
    /\ input.windowPassed
    /\ input.payment \in {"held", "partial"}

\* Nothing remembers that the escrow of a shipment was released.
ReleaseEscrow(request) ==
    LET input == Normalized(request)
    IN  /\ EscrowReleasable(input)
        /\ AppendEntry([type |-> "release", account |-> input.account, amount |-> input.amount,
                        reference |-> input.shipment])
        /\ AuditEntry("escrow.released", input.shipment)

Refund(account, payment, amount) ==
    /\ AppendEntry([type |-> "refund", account |-> account, amount |-> amount,
                    reference |-> payment])
    /\ AuditEntry("refund.created", payment)

\* POST /ledger/entries.
Correct(account, reference, amount) ==
    /\ AppendEntry([type |-> "correction", account |-> account, amount |-> amount,
                    reference |-> reference])
    /\ UNCHANGED audit

\* Mutant: the entry itself is turned into its reversal.
ReverseInPlace(id) ==
    /\ id \in DOMAIN entries
    /\ entries' = [entries EXCEPT ![id].type = "reversal"]
    /\ book' = [book EXCEPT ![Len(book) - Len(entries) + id].type = "reversal"]
    /\ UNCHANGED <<sendsUnawaited, audit, began, evidence, pending, stored, dispute, submitted>>

\* Mutant: the reversal refers to itself.
ReverseNamesItself(id) ==
    /\ id \in DOMAIN entries
    /\ AppendEntry([type |-> "reversal", account |-> entries[id].account,
                    amount |-> entries[id].amount, reference |-> Len(entries) + 1])
    /\ UNCHANGED audit

\* LedgerService.reverse: an entry of this run of the process, as often as asked.
Reverse(id) ==
    /\ id \in DOMAIN entries
    /\ AppendEntry([type |-> "reversal", account |-> entries[id].account,
                    amount |-> entries[id].amount, reference |-> id])
    /\ UNCHANGED audit

-----------------------------------------------------------------------------
(* Disputes.                                                               *)

\* No handler creates a row of disputes; another program does, with the default status.
OpenDispute(d) ==
    /\ dispute[d] = "missing"
    /\ dispute' = [dispute EXCEPT ![d] = "opened"]
    /\ UNCHANGED <<sendsUnawaited, ledger, evidence, pending, stored, submitted>>

AddEvidence(d) ==
    /\ evidence' = evidence \cup {d}
    /\ submitted' = submitted \cup {d}
    /\ Send([table |-> "evidence", dispute |-> d])
    /\ UNCHANGED <<sendsUnawaited, ledger, stored, dispute>>

\* Mutant: the length of the list is not looked at, a missing list passes.
CanResolveWithoutList(d) == d \in Disputes

\* assertCanResolve: evidence given to this run of the process.
CanResolve(d) == d \in evidence

\* Neither the status of the dispute nor the decision is looked at.
Resolve(d, decision) ==
    /\ CanResolve(d)
    /\ Send([table |-> "disputes", dispute |-> d, decision |-> decision])
    /\ UNCHANGED <<sendsUnawaited, ledger, evidence, stored, dispute, submitted>>

-----------------------------------------------------------------------------
(* The database and the process.                                           *)

Settle(query) ==
    /\ query \in pending
    /\ pending' = pending \ {query}

CommitInsert(query) ==
    /\ Settle(query)
    /\ query.table \in {"ledger", "evidence"}
    /\ stored' = stored \cup {query}
    /\ UNCHANGED <<sendsUnawaited, ledger, evidence, dispute, submitted>>

\* Mutant: the column takes any text.
CommitAnyDecision(query) ==
    /\ Settle(query)
    /\ query.table = "disputes"
    /\ dispute' = [dispute EXCEPT ![query.dispute] = query.decision]
    /\ UNCHANGED <<sendsUnawaited, ledger, evidence, stored, submitted>>

\* A decision is any value of the enum, "opened" and "under_review" among them: it can take
\* a decided dispute back.  What is no value of the enum is rejected.
CommitDecision(query) ==
    /\ Settle(query)
    /\ query.table = "disputes"
    /\ dispute[query.dispute] # "missing"
    /\ query.decision \in DisputeStatus
    /\ dispute' = [dispute EXCEPT ![query.dispute] = query.decision]
    /\ UNCHANGED <<sendsUnawaited, ledger, evidence, stored, submitted>>

\* None of the services reads its state back from the database.
Forget ==
    /\ entries' = <<>>
    /\ evidence' = {}

\* An error of the database, of whatever kind, is an unhandled rejection.
RejectQuery(query) ==
    /\ Settle(query)
    /\ Forget
    /\ UNCHANGED <<sendsUnawaited, audit, stored, dispute, book, began, submitted>>

Restart ==
    /\ Forget
    /\ UNCHANGED <<sendsUnawaited, audit, pending, stored, dispute, book, began, submitted>>

Next ==
    \/ \E request \in Releases : ReleaseEscrow(request)
    \/ \E account \in Accounts, reference \in References, amount \in Amounts :
         \/ Refund(account, reference, amount)
         \/ Correct(account, reference, amount)
    \/ \E id \in DOMAIN entries : Reverse(id)
    \/ \E d \in Disputes :
         \/ OpenDispute(d)
         \/ AddEvidence(d)
         \/ \E decision \in Decisions : Resolve(d, decision)
    \/ \E query \in pending : CommitInsert(query) \/ CommitDecision(query) \/ RejectQuery(query)
    \/ Restart

Spec == Init /\ [][Next]_vars

-----------------------------------------------------------------------------
(* Properties.                                                             *)

\* The ids of entries are reused by every run of the process.  A record of the audit
\* log, of whatever run, names the entry it was written for if it is read as of the run
\* that wrote it, with the type and the target of its action; while that run goes on,
\* the id is the place of the entry in the memory.
AuditNamesEntry ==
    \A a \in audit :
        /\ a.position \in DOMAIN book
        /\ a.position = began[a.position] + a.entry
        /\ book[a.position].reference = a.target
        /\ book[a.position].type = IF a.action = "refund.created" THEN "refund" ELSE "release"
        /\ a.position > Len(book) - Len(entries) => entries[a.entry] = book[a.position]

\* A reversal moves what an earlier entry of the same account moved, and that entry is
\* of the same run: read as of another run, its id would name another entry.
ReversalsMatch ==
    \A p \in DOMAIN book :
        book[p].type = "reversal" =>
            LET o == began[p] + book[p].reference
            IN  /\ o \in began[p] + 1 .. p - 1
                /\ book[o].amount = book[p].amount
                /\ book[o].account = book[p].account

\* A dispute whose status a decision has set, or for which a decision is on its way, had
\* evidence, though the evidence is checked in a memory that restarts lose and
\* decisions arrive late and in any order.
DecisionBacked ==
    /\ \A d \in Disputes : dispute[d] \in {"missing", "opened"} \/ d \in submitted
    /\ \A query \in pending : query.table = "disputes" => query.dispute \in submitted

\* The ledger keeps the promises of LedgerBook.
Book ==
    INSTANCE LedgerBook WITH
        Entries <- Entry,
        written <- book,
        kept <- {n \in 1 .. Len(book) : [table |-> "ledger", position |-> n] \in stored}

ImplementsBook == Book!BookSpec

\* "No refund without ledger entry" (docs/STATE_MACHINES.md:57): once nothing is
\* under way, a refund that was made is in the memory or in the table.
RefundOnLedger ==
    pending = {} =>
        \A n \in DOMAIN book :
            book[n].type = "refund" =>
                \/ n > Len(book) - Len(entries)
                \/ [table |-> "ledger", position |-> n] \in stored

=============================================================================
