------------------------ MODULE EscrowLedger_proofs ------------------------
(***************************************************************************)
(* Proofs about EscrowLedger, for every set of accounts, references,       *)
(* requests and disputes, every bound, and both kinds of database client.  *)
(***************************************************************************)
EXTENDS EscrowLedger, SequenceTheorems, TLAPS

\* The memory holds the last entries of the book, in their order: those of the run that
\* goes on, which began with the entries before them.
MemoryIsSuffix ==
    /\ Len(entries) <= Len(book)
    /\ Len(book) <= MaxEntries
    /\ Len(began) = Len(book)
    /\ \A n \in 1 .. Len(entries) :
         /\ entries[n] = book[Len(book) - Len(entries) + n]
         /\ began[Len(book) - Len(entries) + n] = Len(book) - Len(entries)

\* What is stored or on its way is in the book.
RowsInBook ==
    \A query \in pending \cup stored :
        query.table = "ledger" => query.position \in 1 .. Len(book)

IInv ==
    /\ TypeOK
    /\ MemoryIsSuffix
    /\ RowsInBook
    /\ AuditNamesEntry
    /\ ReversalsMatch
    /\ evidence \subseteq submitted
    /\ DecisionBacked

-----------------------------------------------------------------------------
LEMMA QueryKind ==
    ASSUME NEW query \in LedgerRow \cup EvidenceRow \cup DecisionUpdate
    PROVE  /\ query.table = "ledger" => query \in LedgerRow
           /\ query.table = "evidence" => query \in EvidenceRow
           /\ query.table = "disputes" => /\ query \in DecisionUpdate
                                          /\ query.dispute \in Disputes
           /\ query \in LedgerRow => query.table = "ledger"
           /\ query \in EvidenceRow => query.table = "evidence"
BY DEF LedgerRow, EvidenceRow, DecisionUpdate

LEMMA InitIInv == Init => IInv
<1> SUFFICES ASSUME Init PROVE IInv
    OBVIOUS
<1>1. TypeOK
    BY DEF Init, TypeOK
<1>2. MemoryIsSuffix
    BY BoundAssumption DEF Init, MemoryIsSuffix
<1>3. RowsInBook /\ AuditNamesEntry /\ ReversalsMatch
    BY DEF Init, RowsInBook, AuditNamesEntry, ReversalsMatch
<1>4. evidence \subseteq submitted /\ DecisionBacked
    BY DisputeStatusAssumption DEF Init, DecisionBacked
<1>5. QED
    BY <1>1, <1>2, <1>3, <1>4 DEF IInv

\* Positions of the last part of a book.
LEMMA LastPart ==
    ASSUME NEW length \in Nat, NEW m \in Nat, m <= length,
           NEW p \in 1 .. length, p > length - m
    PROVE  \E n \in 1 .. m : p = length - m + n
<1>1. p - (length - m) \in 1 .. m /\ p = length - m + (p - (length - m))
    OBVIOUS
<1>2. QED
    BY <1>1

\* An entry is appended, with a record of the audit log or without one.
LEMMA AppendIInv ==
    ASSUME IInv, NEW e \in Entry, AppendEntry(e),
           \/ UNCHANGED audit
           \/ \E action \in {"escrow.released", "refund.created"}, target \in References :
                /\ AuditEntry(action, target)
                /\ e.reference = target
                /\ e.type = IF action = "refund.created" THEN "refund" ELSE "release",
           e.type = "reversal" => /\ e.reference \in DOMAIN entries
                                  /\ e.account = entries[e.reference].account
                                  /\ e.amount = entries[e.reference].amount
    PROVE  IInv'
<1> DEFINE here == Len(entries) + 1
           place == Len(book) + 1
           gap == Len(book) - Len(entries)
<1>1. /\ entries \in Seq(Entry) /\ book \in Seq(Entry) /\ began \in Seq(Nat)
      /\ Len(entries) \in Nat /\ Len(book) \in Nat /\ Len(began) = Len(book)
      /\ Len(entries) <= Len(book) /\ gap \in Nat
      /\ entries' = Append(entries, e) /\ book' = Append(book, e)
      /\ began' = Append(began, gap)
      /\ Len(book) < MaxEntries
      /\ UNCHANGED <<sendsUnawaited, evidence, stored, dispute, submitted>>
    BY DEF IInv, TypeOK, AppendEntry, MemoryIsSuffix
<1>2. /\ entries' \in Seq(Entry) /\ book' \in Seq(Entry)
      /\ Len(entries') = here /\ Len(book') = place
      /\ entries'[here] = e /\ book'[place] = e
      /\ \A n \in 1 .. Len(entries) : entries'[n] = entries[n]
      /\ \A n \in 1 .. Len(book) : book'[n] = book[n]
    BY <1>1, AppendProperties
<1>3. /\ began' \in Seq(Nat) /\ Len(began') = place
      /\ began'[place] = gap
      /\ \A n \in 1 .. Len(book) : began'[n] = began[n] /\ began[n] \in Nat
      /\ Len(book') - Len(entries') = gap
    BY <1>1, <1>2, AppendProperties
<1>4. /\ DOMAIN entries = 1 .. Len(entries) /\ DOMAIN entries' = 1 .. here
      /\ DOMAIN book = 1 .. Len(book) /\ DOMAIN book' = 1 .. place
    BY <1>1, <1>2
<1>5. pending' \subseteq pending \cup {[table |-> "ledger", position |-> place]}
    BY DEF AppendEntry, Send
<1>6. TypeOK'
  <2>1. pending' \subseteq LedgerRow \cup EvidenceRow \cup DecisionUpdate
      BY <1>1, <1>5 DEF IInv, TypeOK, LedgerRow
  <2>2. CASE UNCHANGED audit
      BY <1>1, <1>2, <1>3, <2>1, <2>2 DEF IInv, TypeOK
  <2>3. CASE \E action \in {"escrow.released", "refund.created"}, target \in References :
                 AuditEntry(action, target)
    <3>1. audit' \subseteq AuditRecord
        BY <1>1, <2>3 DEF IInv, TypeOK, AuditEntry, AuditRecord
    <3>2. QED
        BY <1>1, <1>2, <1>3, <2>1, <3>1 DEF IInv, TypeOK
  <2>4. QED
      BY <2>2, <2>3
<1>7. MemoryIsSuffix'
  <2>1. ASSUME NEW n \in 1 .. Len(entries')
        PROVE  entries'[n] = book'[gap + n] /\ began'[gap + n] = gap
    <3>1. CASE n = here
      <4>1. gap + n = place
          BY <1>1, <3>1
      <4>2. QED
          BY <1>2, <1>3, <3>1, <4>1
    <3>2. CASE n # here
      <4>1. n \in 1 .. Len(entries) /\ gap + n \in 1 .. Len(book)
          BY <1>1, <1>2, <3>2
      <4>2. entries[n] = book[gap + n] /\ began[gap + n] = gap
          BY <4>1 DEF IInv, MemoryIsSuffix
      <4>3. QED
          BY <1>2, <1>3, <4>1, <4>2
    <3>3. QED
        BY <3>1, <3>2
  <2>2. Len(entries') <= Len(book') /\ Len(book') <= MaxEntries
      BY <1>1, <1>2, BoundAssumption
  <2>3. QED
      BY <1>2, <1>3, <2>1, <2>2 DEF MemoryIsSuffix
<1>8. RowsInBook'
    BY <1>1, <1>2, <1>5 DEF IInv, RowsInBook
<1>9. AuditNamesEntry'
  <2> SUFFICES ASSUME NEW a \in audit'
               PROVE  /\ a.position \in 1 .. place
                      /\ a.position = began'[a.position] + a.entry
                      /\ book'[a.position].reference = a.target
                      /\ book'[a.position].type =
                             IF a.action = "refund.created" THEN "refund" ELSE "release"
                      /\ a.position > gap => entries'[a.entry] = book'[a.position]
      BY <1>3, <1>4 DEF AuditNamesEntry
  <2>1. CASE a \in audit
    <3>1. /\ a.position \in 1 .. Len(book)
          /\ a.position = began[a.position] + a.entry
          /\ book[a.position].reference = a.target
          /\ book[a.position].type =
                 IF a.action = "refund.created" THEN "refund" ELSE "release"
          /\ a.position > gap => entries[a.entry] = book[a.position]
          /\ a.entry \in Nat
        BY <1>4, <2>1 DEF IInv, AuditNamesEntry, TypeOK, AuditRecord
    <3>2. /\ book'[a.position] = book[a.position]
          /\ began'[a.position] = began[a.position]
        BY <1>2, <1>3, <3>1
    <3>3. ASSUME a.position > gap PROVE a.entry \in 1 .. Len(entries)
      <4>1. PICK n \in 1 .. Len(entries) : a.position = gap + n
          BY <1>1, <3>1, <3>3, LastPart
      <4>2. began[a.position] = gap
          BY <4>1 DEF IInv, MemoryIsSuffix
      <4>3. gap + a.entry = gap + n
          BY <3>1, <4>1, <4>2
      <4>4. QED
          BY <1>1, <3>1, <4>3
    <3>4. QED
        BY <1>1, <1>2, <3>1, <3>2, <3>3
  <2>2. CASE a \notin audit
    <3>1. PICK action \in {"escrow.released", "refund.created"}, target \in References :
              /\ AuditEntry(action, target)
              /\ e.reference = target
              /\ e.type = IF action = "refund.created" THEN "refund" ELSE "release"
        BY <2>2
    <3>2. a.action = action /\ a.target = target /\ a.entry = here /\ a.position = place
        BY <2>2, <3>1 DEF AuditEntry
    <3>3. place \in 1 .. place /\ gap + here = place
        BY <1>1
    <3>4. QED
        BY <1>2, <1>3, <3>1, <3>2, <3>3
  <2>3. QED
      BY <2>1, <2>2
<1>10. ReversalsMatch'
  <2> DEFINE origin(p) == began[p] + book[p].reference
  <2> SUFFICES ASSUME NEW p \in 1 .. place, book'[p].type = "reversal"
               PROVE  /\ origin(p)' \in began'[p] + 1 .. p - 1
                      /\ book'[origin(p)'].amount = book'[p].amount
                      /\ book'[origin(p)'].account = book'[p].account
      BY <1>4 DEF ReversalsMatch
  <2>1. CASE p = place
    <3>1. /\ e.type = "reversal" /\ origin(p)' = gap + e.reference /\ began'[p] = gap
          /\ book'[p] = e
        BY <1>2, <1>3, <2>1
    <3>2. /\ e.reference \in 1 .. Len(entries)
          /\ e.account = entries[e.reference].account
          /\ e.amount = entries[e.reference].amount
        BY <1>4, <3>1
    <3>3. /\ gap + e.reference \in gap + 1 .. place - 1
          /\ gap + e.reference \in 1 .. Len(book)
        BY <1>1, <3>2
    <3>4. book[gap + e.reference] = entries[e.reference]
        BY <3>2 DEF IInv, MemoryIsSuffix
    <3>5. book'[gap + e.reference] = entries[e.reference]
        BY <1>2, <3>3, <3>4
    <3>6. QED
        BY <2>1, <3>1, <3>2, <3>3, <3>5
  <2>2. CASE p # place
    <3>1. p \in 1 .. Len(book) /\ book'[p] = book[p] /\ began'[p] = began[p] /\ began[p] \in Nat
        BY <1>1, <1>2, <1>3, <2>2
    <3>2. /\ origin(p) \in began[p] + 1 .. p - 1
          /\ book[origin(p)].amount = book[p].amount
          /\ book[origin(p)].account = book[p].account
        BY <1>4, <3>1 DEF IInv, ReversalsMatch
    <3>3. origin(p)' = origin(p)
        BY <3>1
    <3>4. origin(p) \in 1 .. Len(book)
        BY <1>1, <3>1, <3>2
    <3>5. QED
        BY <1>2, <3>1, <3>2, <3>3, <3>4
  <2>3. QED
      BY <2>1, <2>2
<1>11. (evidence \subseteq submitted)' /\ DecisionBacked'
    BY <1>1, <1>5 DEF IInv, DecisionBacked
<1>12. QED
    BY <1>6, <1>7, <1>8, <1>9, <1>10, <1>11 DEF IInv

\* The requests that append an entry, and the entry each of them appends.
LEMMA RequestEntry ==
    ASSUME IInv,
           \/ \E request \in Releases : ReleaseEscrow(request)
           \/ \E account \in Accounts, reference \in References, amount \in Amounts :
                Refund(account, reference, amount) \/ Correct(account, reference, amount)
           \/ \E id \in DOMAIN entries : Reverse(id)
    PROVE  \E e \in Entry :
             /\ AppendEntry(e)
             /\ \/ UNCHANGED audit
                \/ \E action \in {"escrow.released", "refund.created"}, target \in References :
                     /\ AuditEntry(action, target)
                     /\ e.reference = target
                     /\ e.type = IF action = "refund.created" THEN "refund" ELSE "release"
             /\ e.type = "reversal" => /\ e.reference \in DOMAIN entries
                                       /\ e.account = entries[e.reference].account
                                       /\ e.amount = entries[e.reference].amount
<1>1. ASSUME NEW request \in Releases, ReleaseEscrow(request)
      PROVE  \E e \in Entry :
               /\ AppendEntry(e)
               /\ AuditEntry("escrow.released", e.reference)
               /\ e.reference \in References
               /\ e.type = "release"
  <2> DEFINE input == Normalized(request)
             e == [type |-> "release", account |-> input.account, amount |-> input.amount,
                   reference |-> input.shipment]
  <2>1. request \in ReleaseInput
      BY ReleasesAssumption
  <2>2. /\ input.account \in Accounts /\ input.amount \in Amounts
        /\ input.shipment \in References
      BY <2>1 DEF Normalized, ReleaseInput
  <2>3. AppendEntry(e) /\ AuditEntry("escrow.released", input.shipment)
      BY <1>1 DEF ReleaseEscrow
  <2> HIDE DEF input
  <2>4. e \in Entry /\ e.reference = input.shipment /\ e.type = "release"
      BY <2>2 DEF Entry
  <2> HIDE DEF e
  <2>5. QED
      BY <2>2, <2>3, <2>4
<1>2. ASSUME NEW account \in Accounts, NEW reference \in References, NEW amount \in Amounts,
             Refund(account, reference, amount)
      PROVE  \E e \in Entry :
               /\ AppendEntry(e)
               /\ AuditEntry("refund.created", e.reference)
               /\ e.reference \in References
               /\ e.type = "refund"
  <2> DEFINE e == [type |-> "refund", account |-> account, amount |-> amount,
                   reference |-> reference]
  <2>1. e \in Entry /\ e.reference = reference /\ e.type = "refund"
      BY DEF Entry
  <2>2. AppendEntry(e) /\ AuditEntry("refund.created", reference)
      BY <1>2 DEF Refund
  <2> HIDE DEF e
  <2>3. QED
      BY <2>1, <2>2
<1>3. ASSUME NEW account \in Accounts, NEW reference \in References, NEW amount \in Amounts,
             Correct(account, reference, amount)
      PROVE  \E e \in Entry : AppendEntry(e) /\ UNCHANGED audit /\ e.type = "correction"
  <2> DEFINE e == [type |-> "correction", account |-> account, amount |-> amount,
                   reference |-> reference]
  <2>1. e \in Entry /\ e.type = "correction"
      BY DEF Entry
  <2>2. AppendEntry(e) /\ UNCHANGED audit
      BY <1>3 DEF Correct
  <2> HIDE DEF e
  <2>3. QED
      BY <2>1, <2>2
<1>4. ASSUME NEW id \in DOMAIN entries, Reverse(id)
      PROVE  \E e \in Entry : /\ AppendEntry(e) /\ UNCHANGED audit
                              /\ e.reference = id
                              /\ e.account = entries[id].account
                              /\ e.amount = entries[id].amount
  <2> DEFINE e == [type |-> "reversal", account |-> entries[id].account,
                   amount |-> entries[id].amount, reference |-> id]
  <2>1. entries[id] \in Entry /\ id \in 1 .. MaxEntries
    <3>1. entries \in Seq(Entry) /\ Len(entries) \in Nat /\ Len(book) \in Nat
        BY DEF IInv, TypeOK
    <3>2. Len(entries) <= MaxEntries
        BY <3>1, BoundAssumption DEF IInv, MemoryIsSuffix
    <3>3. QED
        BY <3>1, <3>2, BoundAssumption
  <2>2. e \in Entry
      BY <2>1 DEF Entry
  <2>3. AppendEntry(e) /\ UNCHANGED audit
      BY <1>4 DEF Reverse
  <2>4. /\ e.reference = id
        /\ e.account = entries[id].account
        /\ e.amount = entries[id].amount
      OBVIOUS
  <2> HIDE DEF e
  <2>5. QED
      BY <2>2, <2>3, <2>4
<1>5. CASE \E request \in Releases : ReleaseEscrow(request)
    BY <1>1, <1>5
<1>6. CASE \E account \in Accounts, reference \in References, amount \in Amounts :
               Refund(account, reference, amount) \/ Correct(account, reference, amount)
  <2>1. CASE \E account \in Accounts, reference \in References, amount \in Amounts :
                 Refund(account, reference, amount)
      BY <1>2, <2>1
  <2>2. CASE \E account \in Accounts, reference \in References, amount \in Amounts :
                 Correct(account, reference, amount)
      BY <1>3, <2>2
  <2>3. QED
      BY <1>6, <2>1, <2>2
<1>7. CASE \E id \in DOMAIN entries : Reverse(id)
    BY <1>4, <1>7
<1>8. QED
    BY <1>5, <1>6, <1>7

\* Steps that leave the ledger and its audit records alone.
LEMMA SameLedger ==
    ASSUME IInv, UNCHANGED ledger
    PROVE  MemoryIsSuffix' /\ AuditNamesEntry' /\ ReversalsMatch'
<1>1. MemoryIsSuffix'
    BY DEF ledger, IInv, MemoryIsSuffix
<1>2. AuditNamesEntry'
    BY DEF ledger, IInv, AuditNamesEntry
<1>3. ReversalsMatch'
    BY DEF ledger, IInv, ReversalsMatch
<1>4. QED
    BY <1>1, <1>2, <1>3

LEMMA DisputeIInv ==
    ASSUME IInv, NEW d \in Disputes,
           \/ OpenDispute(d)
           \/ AddEvidence(d)
           \/ \E decision \in Decisions : Resolve(d, decision)
    PROVE  IInv'
<1>1. CASE OpenDispute(d)
  <2>1. TypeOK' /\ RowsInBook'
      BY <1>1, DisputeStatusAssumption DEF OpenDispute, ledger, IInv, TypeOK, RowsInBook
  <2>2. (evidence \subseteq submitted)' /\ DecisionBacked'
      BY <1>1, DisputeStatusAssumption DEF OpenDispute, ledger, IInv, TypeOK, DecisionBacked
  <2>3. QED
      BY <1>1, <2>1, <2>2, SameLedger DEF OpenDispute, ledger, IInv
<1>2. CASE AddEvidence(d)
  <2> DEFINE query == [table |-> "evidence", dispute |-> d]
  <2>1. query \in EvidenceRow /\ query.table = "evidence"
      BY DEF EvidenceRow
  <2>2. /\ pending' \subseteq pending \cup {query}
        /\ evidence' = evidence \cup {d} /\ submitted' = submitted \cup {d}
        /\ UNCHANGED <<sendsUnawaited, ledger, stored, dispute>>
      BY <1>2 DEF AddEvidence, Send
  <2> HIDE DEF query
  <2>3. TypeOK' /\ RowsInBook'
      BY <2>1, <2>2 DEF IInv, TypeOK, RowsInBook, ledger
  <2>4. (evidence \subseteq submitted)' /\ DecisionBacked'
      BY <2>1, <2>2 DEF IInv, DecisionBacked
  <2>5. QED
      BY <2>2, <2>3, <2>4, SameLedger DEF IInv
<1>3. ASSUME NEW decision \in Decisions, Resolve(d, decision)
      PROVE  IInv'
  <2> DEFINE query == [table |-> "disputes", dispute |-> d, decision |-> decision]
  <2>1. query \in DecisionUpdate /\ query.table = "disputes" /\ query.dispute = d
      BY DEF DecisionUpdate
  <2>2. /\ pending' \subseteq pending \cup {query}
        /\ d \in evidence
        /\ UNCHANGED <<sendsUnawaited, ledger, evidence, stored, dispute, submitted>>
      BY <1>3 DEF Resolve, Send, CanResolve
  <2> HIDE DEF query
  <2>3. TypeOK' /\ RowsInBook'
      BY <2>1, <2>2 DEF IInv, TypeOK, RowsInBook, ledger
  <2>4. (evidence \subseteq submitted)' /\ DecisionBacked'
      BY <2>1, <2>2 DEF IInv, DecisionBacked, ledger
  <2>5. QED
      BY <2>2, <2>3, <2>4, SameLedger DEF IInv, ledger
<1>4. QED
    BY <1>1, <1>2, <1>3

\* A process that forgets starts with an empty suffix of the book.
LEMMA ForgetIInv ==
    ASSUME IInv, Forget, pending' \subseteq pending,
           UNCHANGED <<sendsUnawaited, audit, stored, dispute, book, began, submitted>>
    PROVE  IInv'
<1>1. entries' = <<>> /\ evidence' = {}
    BY DEF Forget
<1>2. TypeOK' /\ RowsInBook'
    BY <1>1 DEF IInv, TypeOK, RowsInBook
<1>3. MemoryIsSuffix'
    BY <1>1 DEF IInv, TypeOK, MemoryIsSuffix
<1>4. AuditNamesEntry'
    BY <1>1 DEF IInv, TypeOK, AuditNamesEntry
<1>5. ReversalsMatch'
    BY DEF IInv, ReversalsMatch
<1>6. (evidence \subseteq submitted)' /\ DecisionBacked'
    BY <1>1 DEF IInv, DecisionBacked
<1>7. QED
    BY <1>2, <1>3, <1>4, <1>5, <1>6 DEF IInv

LEMMA QueryIInv ==
    ASSUME IInv, NEW query \in pending,
           CommitInsert(query) \/ CommitDecision(query) \/ RejectQuery(query)
    PROVE  IInv'
<1>1. query \in LedgerRow \cup EvidenceRow \cup DecisionUpdate
    BY DEF IInv, TypeOK
<1>2. CASE CommitInsert(query)
  <2>1. /\ pending' = pending \ {query} /\ stored' = stored \cup {query}
        /\ query \in LedgerRow \cup EvidenceRow
        /\ UNCHANGED <<sendsUnawaited, ledger, evidence, dispute, submitted>>
      BY <1>1, <1>2, QueryKind DEF CommitInsert, Settle
  <2>2. TypeOK' /\ RowsInBook'
      BY <2>1 DEF IInv, TypeOK, RowsInBook, ledger
  <2>3. (evidence \subseteq submitted)' /\ DecisionBacked'
      BY <2>1 DEF IInv, DecisionBacked, ledger
  <2>4. QED
      BY <2>1, <2>2, <2>3, SameLedger DEF IInv, ledger
<1>3. CASE CommitDecision(query)
  <2>1. /\ pending' = pending \ {query}
        /\ query.table = "disputes" /\ query.dispute \in Disputes
        /\ query.decision \in DisputeStatus
        /\ dispute' = [dispute EXCEPT ![query.dispute] = query.decision]
        /\ UNCHANGED <<sendsUnawaited, ledger, evidence, stored, submitted>>
      BY <1>1, <1>3, QueryKind DEF CommitDecision, Settle
  <2>2. TypeOK' /\ RowsInBook'
      BY <2>1 DEF IInv, TypeOK, RowsInBook, ledger
  <2>3. query.dispute \in submitted
      BY <2>1 DEF IInv, DecisionBacked
  <2>4. (evidence \subseteq submitted)' /\ DecisionBacked'
      BY <2>1, <2>3 DEF IInv, TypeOK, DecisionBacked, ledger
  <2>5. QED
      BY <2>1, <2>2, <2>4, SameLedger DEF IInv, ledger
<1>4. CASE RejectQuery(query)
    BY <1>4, ForgetIInv DEF RejectQuery, Settle
<1>5. QED
    BY <1>2, <1>3, <1>4

-----------------------------------------------------------------------------
(* The theorems.                                                           *)

LEMMA NextIInv == IInv /\ [Next]_vars => IInv'
<1> SUFFICES ASSUME IInv, [Next]_vars PROVE IInv'
    OBVIOUS
<1>1. CASE \/ \E request \in Releases : ReleaseEscrow(request)
           \/ \E account \in Accounts, reference \in References, amount \in Amounts :
                Refund(account, reference, amount) \/ Correct(account, reference, amount)
           \/ \E id \in DOMAIN entries : Reverse(id)
    BY <1>1, RequestEntry, AppendIInv
<1>2. ASSUME NEW d \in Disputes,
             \/ OpenDispute(d)
             \/ AddEvidence(d)
             \/ \E decision \in Decisions : Resolve(d, decision)
      PROVE  IInv'
    BY <1>2, DisputeIInv
<1>3. ASSUME NEW query \in pending,
             CommitInsert(query) \/ CommitDecision(query) \/ RejectQuery(query)
      PROVE  IInv'
    BY <1>3, QueryIInv
<1>4. CASE Restart
    BY <1>4, ForgetIInv DEF Restart
<1>5. CASE UNCHANGED vars
  <2>1. TypeOK' /\ RowsInBook' /\ (evidence \subseteq submitted)' /\ DecisionBacked'
      BY <1>5 DEF IInv, TypeOK, RowsInBook, DecisionBacked, vars
  <2>2. QED
      BY <1>5, <2>1, SameLedger DEF IInv, vars, ledger
<1>6. QED
    BY <1>1, <1>2, <1>3, <1>4, <1>5 DEF Next

\* The inductive invariant: the memory is the end of the book and all that is on
\* its way to the database is in the book.
THEOREM InvariantHolds == Spec => []IInv
BY InitIInv, NextIInv, PTL DEF Spec

\* Memory and tables keep their types, whichever way the queries end.
THEOREM TypeCorrect == Spec => []TypeOK
<1>1. IInv => TypeOK
    BY DEF IInv
<1>2. QED
    BY <1>1, InvariantHolds, PTL

\* An audit record names its entry among those of the run that wrote it, whatever runs
\* came after.
THEOREM AuditNamesEntryHolds == Spec => []AuditNamesEntry
<1>1. IInv => AuditNamesEntry
    BY DEF IInv
<1>2. QED
    BY <1>1, InvariantHolds, PTL

\* A reversal moves what an earlier entry of its run moved.
THEOREM ReversalsMatchHolds == Spec => []ReversalsMatch
<1>1. IInv => ReversalsMatch
    BY DEF IInv
<1>2. QED
    BY <1>1, InvariantHolds, PTL

\* No decision sets the status of a dispute that never had evidence.
THEOREM DecisionBackedHolds == Spec => []DecisionBacked
<1>1. IInv => DecisionBacked
    BY DEF IInv
<1>2. QED
    BY <1>1, InvariantHolds, PTL

-----------------------------------------------------------------------------
(* The refinement.                                                         *)

InTable(n) == [table |-> "ledger", position |-> n] \in stored

LEMMA BookStutters ==
    ASSUME UNCHANGED book,
           \A n \in 1 .. Len(book) : InTable(n)' <=> InTable(n)
    PROVE  UNCHANGED Book!bookVars
BY DEF Book!bookVars, InTable

LEMMA AppendMaps ==
    ASSUME IInv, NEW e \in Entry, AppendEntry(e)
    PROVE  Book!BookNext
<1>1. book \in Seq(Entry) /\ Len(book) \in Nat
    BY DEF IInv, TypeOK
<1>2. book' = Append(book, e) /\ UNCHANGED stored /\ Len(book') = Len(book) + 1
    BY <1>1, AppendProperties DEF AppendEntry
<1>3. ~ InTable(Len(book) + 1)
  <2> DEFINE query == [table |-> "ledger", position |-> Len(book) + 1]
  <2>1. query.table = "ledger" /\ query.position \notin 1 .. Len(book)
      BY <1>1
  <2> HIDE DEF query
  <2>2. query \notin stored
      BY <2>1 DEF IInv, RowsInBook
  <2>3. QED
      BY <2>2 DEF InTable, query
<1>4. {n \in 1 .. Len(book') : InTable(n)'} = {n \in 1 .. Len(book) : InTable(n)}
    BY <1>1, <1>2, <1>3 DEF InTable
<1>5. Book!Write(e)
    BY <1>2, <1>4 DEF Book!Write, InTable
<1>6. QED
    BY <1>5 DEF Book!BookNext

LEMMA InsertMaps ==
    ASSUME IInv, NEW query \in pending, CommitInsert(query)
    PROVE  Book!BookNext \/ UNCHANGED Book!bookVars
<1>1. /\ query \in LedgerRow \cup EvidenceRow
      /\ stored' = stored \cup {query} /\ UNCHANGED book
    BY QueryKind DEF CommitInsert, Settle, ledger, IInv, TypeOK
<1>2. CASE query \in LedgerRow
  <2>1. query.table = "ledger" /\ query.position \in 1 .. Len(book)
      BY <1>2, QueryKind DEF IInv, RowsInBook
  <2>2. query = [table |-> "ledger", position |-> query.position]
      BY <1>2 DEF LedgerRow
  <2>3. \A n \in 1 .. Len(book) : InTable(n)' <=> (InTable(n) \/ n = query.position)
      BY <1>1, <2>2 DEF InTable
  <2>4. {n \in 1 .. Len(book) : InTable(n)'}
            = {n \in 1 .. Len(book) : InTable(n)} \cup {query.position}
      BY <2>1, <2>3
  <2>5. Book!Keep(query.position)
      BY <1>1, <2>1, <2>4 DEF Book!Keep, InTable
  <2>6. QED
      BY <2>1, <2>5 DEF Book!BookNext
<1>3. CASE query \in EvidenceRow
  <2>1. \A n \in 1 .. Len(book) : query # [table |-> "ledger", position |-> n]
      BY <1>3 DEF EvidenceRow
  <2>2. \A n \in 1 .. Len(book) : InTable(n)' <=> InTable(n)
      BY <1>1, <2>1 DEF InTable
  <2>3. QED
      BY <1>1, <2>2, BookStutters
<1>4. QED
    BY <1>1, <1>2, <1>3

LEMMA NextMaps == IInv /\ [Next]_vars => [Book!BookNext]_(Book!bookVars)
<1> SUFFICES ASSUME IInv, [Next]_vars
             PROVE  Book!BookNext \/ UNCHANGED Book!bookVars
    OBVIOUS
<1>1. CASE \/ \E request \in Releases : ReleaseEscrow(request)
           \/ \E account \in Accounts, reference \in References, amount \in Amounts :
                Refund(account, reference, amount) \/ Correct(account, reference, amount)
           \/ \E id \in DOMAIN entries : Reverse(id)
    BY <1>1, RequestEntry, AppendMaps
<1>2. ASSUME NEW query \in pending, CommitInsert(query)
      PROVE  Book!BookNext \/ UNCHANGED Book!bookVars
    BY <1>2, InsertMaps
<1>3. ASSUME UNCHANGED <<book, stored>>
      PROVE  UNCHANGED Book!bookVars
    BY <1>3, BookStutters DEF InTable
<1>4. ASSUME NEW d \in Disputes,
             \/ OpenDispute(d)
             \/ AddEvidence(d)
             \/ \E decision \in Decisions : Resolve(d, decision)
      PROVE  UNCHANGED <<book, stored>>
    BY <1>4 DEF OpenDispute, AddEvidence, Resolve, ledger
<1>5. ASSUME NEW query \in pending, CommitDecision(query) \/ RejectQuery(query)
      PROVE  UNCHANGED <<book, stored>>
    BY <1>5 DEF CommitDecision, RejectQuery, ledger
<1>6. CASE Restart \/ UNCHANGED vars
    BY <1>3, <1>6 DEF Restart, vars
<1>7. QED
    BY <1>1, <1>2, <1>3, <1>4, <1>5, <1>6 DEF Next

\* The ledger implements the book: entries are only added, and the table holds
\* entries of the book, though processes end and queries are lost.
THEOREM Implementation == Spec => ImplementsBook
<1>1. Init => Book!BookInit
    BY DEF Init, Book!BookInit
<1>2. IInv /\ [Next]_vars => [Book!BookNext]_(Book!bookVars)
    BY NextMaps
<1>3. QED
    BY <1>1, <1>2, InvariantHolds, PTL DEF Spec, ImplementsBook, Book!BookSpec

=============================================================================
