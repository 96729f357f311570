---------------------- MODULE RequestAdmission_proofs ----------------------
(***************************************************************************)
(* Proofs about RequestAdmission, for every set of requests and sessions,  *)
(* every policy of the limiter and every lifetime of a token.              *)
(***************************************************************************)
EXTENDS RequestAdmission, FiniteSetTheorems, TLAPS

\* The three Maps have an entry for every key.
MapsTotal ==
    /\ bucket \in [Keys -> [count: Nat, left: Nat]]
    /\ promise \in [Keys -> Nat \cup {NoPromise}]
    /\ DOMAIN recent = Keys

\* The last window of a key.  While it is open the bucket counts what passed in
\* it, among it the request that opened it; of all the windows before, what is
\* still recent came from one, whose first request is not recent any more.  When
\* it is over, it is itself the one of those.
LastWindow(k) ==
    IF bucket[k].left = 0
    THEN /\ bucket[k].count = 0
         /\ Now(k) = {}
         /\ Cardinality(recent[k]) <= Limit[k] - 1
    ELSE /\ bucket[k].count = Cardinality(Since(k))
         /\ \E q \in Since(k) : q.age = Window[k] - bucket[k].left
         /\ Cardinality(recent[k] \ Since(k)) <= Limit[k] - 1

\* LimiterInv for one key: most steps change the entries of one key only.
LimiterAt(k) ==
    /\ bucket[k] \in [count: 0..Limit[k], left: 0..Window[k]]
    /\ recent[k] \subseteq Passed(k) /\ IsFiniteSet(recent[k])
    /\ promise[k] \in Nat \cup {NoPromise}
    /\ \A q \in Now(k) : q.nth <= Cardinality(Now(k))
    /\ LastWindow(k)
    /\ promise[k] # NoPromise => bucket[k].left <= promise[k]

LimiterInv == MapsTotal /\ \A k \in Keys : LimiterAt(k)

\* The token of an ended session was signed before the end; the others have an
\* end still before them.
TokensWearOff ==
    \A s \in SessionIds :
        IF phase[s] = "ended" THEN left[s] + ago[s] <= Lifetime ELSE ago[s] = 0

-----------------------------------------------------------------------------
(* The limiter.                                                            *)

\* Rounding up to whole seconds promises nothing too early.
LEMMA CeilCovers ==
    ASSUME NEW n \in Nat, NEW d \in Nat \ {0}
    PROVE  /\ d * ((n + d - 1) \div d) \in Nat
           /\ d * ((n + d - 1) \div d) >= n
<1> DEFINE m == n + d - 1
           q == m \div d
<1>1. m \in Nat /\ q \in Int /\ q >= 0
    OBVIOUS
<1>2. d * q + (m % d) = m /\ 0 <= m % d /\ m % d < d
    OBVIOUS
<1>3. QED
    BY <1>1, <1>2

LEMMA Policies ==
    ASSUME NEW k \in Keys
    PROVE  Limit[k] \in Nat \ {0} /\ Window[k] \in Nat \ {0} /\ 0 \in Ages(k)
BY LimitAssumption, WindowAssumption DEF Ages

\* The parts of a finite set.
LEMMA Counting ==
    ASSUME NEW S, IsFiniteSet(S), NEW T \in SUBSET S
    PROVE  /\ IsFiniteSet(T) /\ IsFiniteSet(S \ T)
           /\ Cardinality(S) \in Nat /\ Cardinality(T) \in Nat /\ Cardinality(S \ T) \in Nat
           /\ Cardinality(T) <= Cardinality(S)
           /\ Cardinality(S) = Cardinality(T) + Cardinality(S \ T)
           /\ T # S => Cardinality(T) <= Cardinality(S) - 1
<1>1. IsFiniteSet(T) /\ IsFiniteSet(S \ T) /\ Cardinality(T) <= Cardinality(S)
      /\ (Cardinality(S) = Cardinality(T) => S = T)
    BY FS_Subset
<1>2. Cardinality(S) \in Nat /\ Cardinality(T) \in Nat /\ Cardinality(S \ T) \in Nat
    BY <1>1, FS_CardinalityType
<1>3. T \cup (S \ T) = S /\ T \cap (S \ T) = {}
    OBVIOUS
<1>4. Cardinality(S) = Cardinality(T) + Cardinality(S \ T) - 0
    BY <1>1, <1>3, FS_Union, FS_EmptySet
<1>5. QED
    BY <1>1, <1>2, <1>4

\* Growing older, requests stay as many as they are.
LEMMA AsManyWhenOlder ==
    ASSUME NEW S, IsFiniteSet(S), \A q \in S : q \in [age: Nat, nth: Nat]
    PROVE  /\ IsFiniteSet({Older(q) : q \in S})
           /\ Cardinality({Older(q) : q \in S}) = Cardinality(S)
<1> DEFINE T == {Older(q) : q \in S}
           f == [q \in S |-> Older(q)]
<1>1. \A p, q \in S : Older(p) = Older(q) => p = q
    BY DEF Older
<1>2. f \in Bijection(S, T)
  <2>1. f \in [S -> T] /\ \A q \in S : f[q] = Older(q)
      OBVIOUS
  <2>2. \A p, q \in S : f[p] = f[q] => p = q
      BY <1>1, <2>1
  <2>3. \A t \in T : \E q \in S : f[q] = t
      BY <2>1
  <2> HIDE DEF f, T
  <2>4. QED
      BY <2>1, <2>2, <2>3 DEF Bijection, Injection, Surjection, IsInjective
<1>3. ExistsBijection(S, T)
    BY <1>2 DEF ExistsBijection
<1>4. QED
    BY <1>3, FS_Bijection

LEMMA PassedFields ==
    ASSUME NEW k \in Keys
    PROVE  \A q \in Passed(k) : /\ q \in [age: Nat, nth: Nat]
                                  /\ q.age < Window[k] /\ q.nth <= Limit[k]
BY Policies DEF Passed, Ages

LEMMA InitLimiter == Init => LimiterInv
<1> SUFFICES ASSUME Init PROVE LimiterInv
    OBVIOUS
<1>1. MapsTotal
    BY DEF Init, MapsTotal, Expired, NoPromise
<1>2. ASSUME NEW k \in Keys PROVE LimiterAt(k)
    BY Policies, FS_EmptySet
    DEF Init, LimiterAt, LastWindow, Now, Expired, NoPromise
<1>3. QED
    BY <1>1, <1>2 DEF LimiterInv

\* A step on one key leaves the others as they are.
LEMMA OneKey ==
    ASSUME LimiterInv, NEW k \in Keys, MapsTotal', LimiterAt(k)',
           \A j \in Keys : j # k => /\ bucket'[j] = bucket[j]
                                    /\ recent'[j] = recent[j]
                                    /\ promise'[j] = promise[j]
    PROVE  LimiterInv'
<1>1. ASSUME NEW j \in Keys, j # k PROVE LimiterAt(j)'
  <2>1. /\ bucket'[j] = bucket[j] /\ recent'[j] = recent[j] /\ promise'[j] = promise[j]
        /\ LimiterAt(j)
      BY <1>1 DEF LimiterInv
  <2>2. Now(j)' = Now(j) /\ Since(j)' = Since(j)
      BY <2>1 DEF Now, Since
  <2>3. LastWindow(j)'
      BY <2>1, <2>2 DEF LimiterAt, LastWindow
  <2>4. QED
      BY <2>1, <2>2, <2>3 DEF LimiterAt, Passed, Ages
<1>2. QED
    BY <1>1 DEF LimiterInv

\* The request that opens a window: what was recent before is that of one window.
LEMMA OpenLimiter ==
    ASSUME LimiterInv, NEW k \in Keys, OpenWindow(k)
    PROVE  LimiterInv'
<1> DEFINE e == [age |-> 0, nth |-> Cardinality(Now(k)) + 1]
<1>1. LimiterAt(k) /\ MapsTotal /\ bucket[k].left = 0
    BY DEF LimiterInv, OpenWindow
<1>2. Now(k) = {} /\ Cardinality(recent[k]) <= Limit[k] - 1
    BY <1>1 DEF LimiterAt, LastWindow
<1>3. e = [age |-> 0, nth |-> 1]
    BY <1>2, FS_EmptySet
<1>4. /\ bucket' = [bucket EXCEPT ![k] = [count |-> 1, left |-> Window[k]]]
      /\ promise' = [promise EXCEPT ![k] = NoPromise]
      /\ recent' = [recent EXCEPT ![k] = @ \cup {e}]
    BY DEF OpenWindow, LetThrough
<1> HIDE DEF e
<1>5. /\ bucket'[k] = [count |-> 1, left |-> Window[k]] /\ promise'[k] = NoPromise
      /\ recent'[k] = recent[k] \cup {e}
      /\ MapsTotal'
    BY <1>1, <1>4, Policies DEF MapsTotal
<1>6. recent'[k] \subseteq Passed(k) /\ IsFiniteSet(recent'[k])
    BY <1>1, <1>3, <1>5, Policies, FS_AddElement DEF LimiterAt, Passed
<1>7. Now(k)' = {e} /\ Since(k)' = {e}
  <2>1. \A q \in recent[k] : q.age \in Nat /\ q.age # 0
      BY <1>1, <1>2, PassedFields DEF LimiterAt, Now
  <2>2. QED
      BY <1>3, <1>5, <2>1, Policies DEF Now, Since
<1>8. recent'[k] \ Since(k)' = recent[k]
    BY <1>2, <1>3, <1>5, <1>7 DEF Now
<1>9. LastWindow(k)'
  <2>1. bucket'[k].left = Window[k] /\ bucket'[k].left # 0 /\ bucket'[k].count = 1
      BY <1>5, Policies
  <2>2. bucket'[k].count = Cardinality(Since(k)')
      BY <1>7, <2>1, FS_Singleton
  <2>3. e \in Since(k)' /\ e.age = Window[k] - bucket'[k].left
      BY <1>3, <1>7, <2>1, Policies
  <2>4. Cardinality(recent'[k] \ Since(k)') <= Limit[k] - 1
      BY <1>2, <1>8
  <2>5. QED
      BY <2>1, <2>2, <2>3, <2>4 DEF LastWindow
<1>10. \A q \in Now(k)' : q.nth <= Cardinality(Now(k)')
  <2>1. Cardinality({e}) = 1 /\ e.nth = 1
      BY <1>3, FS_Singleton
  <2>2. QED
      BY <1>7, <2>1
<1>11. /\ bucket'[k] \in [count: 0..Limit[k], left: 0..Window[k]]
       /\ promise'[k] \in Nat \cup {NoPromise}
       /\ promise'[k] # NoPromise => bucket'[k].left <= promise'[k]
    BY <1>5, Policies
<1>12. LimiterAt(k)'
    BY <1>6, <1>9, <1>10, <1>11 DEF LimiterAt, Passed, Ages
<1>13. QED
    BY <1>1, <1>4, <1>5, <1>12, OneKey DEF MapsTotal

\* A request that finds room: one more in the window, and one more in its tick.
LEMMA CountLimiter ==
    ASSUME LimiterInv, NEW k \in Keys, Count(k)
    PROVE  LimiterInv'
<1> DEFINE n == Cardinality(Now(k))
           e == [age |-> 0, nth |-> n + 1]
<1>1. LimiterAt(k) /\ MapsTotal /\ bucket[k].left > 0 /\ bucket[k].count < Limit[k]
    BY DEF LimiterInv, Count
<1>2. /\ bucket[k].left \in 1..Window[k] /\ bucket[k].count \in Nat
      /\ bucket[k].count = Cardinality(Since(k))
      /\ Cardinality(recent[k] \ Since(k)) <= Limit[k] - 1
      /\ \E q \in Since(k) : q.age = Window[k] - bucket[k].left
      /\ IsFiniteSet(recent[k])
      /\ \A q \in recent[k] : q \in [age: Nat, nth: Nat]
    BY <1>1, Policies, PassedFields DEF LimiterAt, LastWindow
<1>3. Now(k) \in SUBSET Since(k) /\ Since(k) \in SUBSET recent[k]
    BY <1>2, Policies DEF Now, Since
<1>4. /\ IsFiniteSet(Since(k)) /\ IsFiniteSet(Now(k))
      /\ n \in Nat /\ n <= bucket[k].count
    BY <1>2, <1>3, Counting
<1>5. \A q \in Now(k) : q.nth <= n
    BY <1>1 DEF LimiterAt
<1>6. /\ bucket' = [bucket EXCEPT ![k].count = @ + 1]
      /\ recent' = [recent EXCEPT ![k] = @ \cup {e}]
      /\ UNCHANGED promise
    BY DEF Count, LetThrough
<1> HIDE DEF n
<1>7. e \notin recent[k] /\ e.age = 0 /\ e.nth = n + 1
    BY <1>4, <1>5 DEF Now
<1>8. e \in Passed(k)
    BY <1>1, <1>2, <1>4, Policies DEF Passed
<1> HIDE DEF e
<1>9. /\ bucket'[k].left = bucket[k].left /\ bucket'[k].count = bucket[k].count + 1
      /\ bucket'[k] \in [count: 0..Limit[k], left: 0..Window[k]]
      /\ recent'[k] = recent[k] \cup {e}
      /\ MapsTotal'
    BY <1>1, <1>2, <1>6, Policies DEF MapsTotal
<1>10. recent'[k] \subseteq Passed(k) /\ IsFiniteSet(recent'[k])
    BY <1>1, <1>2, <1>8, <1>9, FS_AddElement DEF LimiterAt
<1>11. /\ Now(k)' = Now(k) \cup {e}
       /\ Since(k)' = Since(k) \cup {e}
       /\ recent'[k] \ Since(k)' = recent[k] \ Since(k)
    BY <1>2, <1>7, <1>9, Policies DEF Now, Since
<1>12. /\ Cardinality(Now(k)') = n + 1
       /\ Cardinality(Since(k)') = Cardinality(Since(k)) + 1
  <2>1. e \notin Now(k) /\ e \notin Since(k)
      BY <1>3, <1>7
  <2>2. /\ Cardinality(Now(k) \cup {e}) = Cardinality(Now(k)) + 1
        /\ Cardinality(Since(k) \cup {e}) = Cardinality(Since(k)) + 1
      BY <1>4, <2>1, FS_AddElement
  <2>3. QED
      BY <1>11, <2>2 DEF n
<1>13. \A q \in Now(k)' : q.nth <= Cardinality(Now(k)')
  <2>1. \A q \in Now(k) : q.nth \in Nat
      BY <1>2, <1>3
  <2>2. QED
      BY <1>4, <1>5, <1>7, <1>11, <1>12, <2>1
<1>14. LastWindow(k)'
  <2>1. bucket'[k].left # 0 /\ bucket'[k].count = Cardinality(Since(k)')
      BY <1>2, <1>9, <1>12
  <2>2. \E q \in Since(k)' : q.age = Window[k] - bucket'[k].left
      BY <1>2, <1>9, <1>11
  <2>3. QED
      BY <1>2, <1>11, <2>1, <2>2 DEF LastWindow
<1>15. LimiterAt(k)'
    BY <1>1, <1>6, <1>9, <1>10, <1>13, <1>14 DEF LimiterAt, Passed, Ages
<1>16. QED
    BY <1>1, <1>6, <1>9, <1>15, OneKey DEF MapsTotal

\* A refusal names a moment at which the window is over.
LEMMA RefuseLimiter ==
    ASSUME LimiterInv, NEW k \in Keys, Refuse(k)
    PROVE  LimiterInv'
<1> DEFINE told == Second * RetryAfterSeconds(bucket[k].left)
<1>1. MapsTotal /\ LimiterAt(k)
    BY DEF LimiterInv
<1>2. told \in Nat /\ told >= bucket[k].left
    BY <1>1, SecondAssumption, CeilCovers DEF RetryAfterSeconds, MapsTotal
<1>3. promise' = [promise EXCEPT ![k] = told] /\ UNCHANGED <<bucket, recent>>
    BY DEF Refuse
<1> HIDE DEF told
<1>4. promise'[k] = told /\ MapsTotal'
    BY <1>1, <1>2, <1>3 DEF MapsTotal
<1>5. LimiterAt(k)'
    BY <1>1, <1>2, <1>3, <1>4 DEF LimiterAt, LastWindow, Now, Since, Passed, Ages
<1>6. QED
    BY <1>1, <1>3, <1>4, <1>5, OneKey DEF MapsTotal

\* A tick takes from what is recent only the oldest, and with the last tick of a
\* window the request that opened it.
LEMMA TickWindow ==
    ASSUME LimiterInv, Tick, NEW k \in Keys
    PROVE  /\ recent'[k] \subseteq Passed(k) /\ IsFiniteSet(recent'[k])
           /\ Now(k)' = {}
           /\ LastWindow(k)'
<1> DEFINE S == recent[k]
           kept == {p \in S : p.age + 1 < Window[k]}
<1>1. LimiterAt(k) /\ MapsTotal
    BY DEF LimiterInv
<1>2. /\ bucket'[k] = IF bucket[k].left <= 1 THEN Expired
                      ELSE [bucket[k] EXCEPT !.left = @ - 1]
      /\ recent'[k] = {Older(q) : q \in kept}
    BY DEF Tick
<1>3. /\ IsFiniteSet(S) /\ bucket[k].left \in 0..Window[k] /\ bucket[k].count \in 0..Limit[k]
      /\ \A q \in S : q \in Passed(k) /\ q \in [age: Nat, nth: Nat] /\ q.age < Window[k]
      /\ Window[k] \in Nat \ {0} /\ Limit[k] \in Nat \ {0}
    BY <1>1, Policies, PassedFields DEF LimiterAt
<1>4. \A q \in S : /\ Older(q) \in [age: Nat, nth: Nat]
                   /\ Older(q).age = q.age + 1 /\ Older(q).nth = q.nth
    BY <1>3 DEF Older
<1>5. kept \in SUBSET S /\ IsFiniteSet(kept)
    BY <1>3, FS_Subset
<1>6. IsFiniteSet(recent'[k]) /\ Cardinality(recent'[k]) = Cardinality(kept)
    BY <1>2, <1>3, <1>5, AsManyWhenOlder
<1>7. recent'[k] \subseteq Passed(k)
    BY <1>2, <1>3, <1>4 DEF Passed, Ages, Older
<1>8. Now(k)' = {}
    BY <1>2, <1>3, <1>4 DEF Now
<1>9. CASE bucket[k].left <= 1
  <2>1. bucket'[k].left = 0 /\ bucket'[k].count = 0
      BY <1>2, <1>9 DEF Expired
  <2>2. Cardinality(kept) <= Limit[k] - 1
    <3> HIDE DEF kept
    <3> /\ Cardinality(S) \in Nat /\ Cardinality(kept) \in Nat
        /\ Cardinality(kept) <= Cardinality(S)
        /\ kept # S => Cardinality(kept) <= Cardinality(S) - 1
        BY <1>3, <1>5, Counting
    <3>1. CASE bucket[k].left = 0
      <4>1. Cardinality(S) <= Limit[k] - 1
          BY <1>1, <3>1 DEF LimiterAt, LastWindow
      <4>2. QED
          BY <1>3, <4>1
    <3>2. CASE bucket[k].left # 0
      <4>1. bucket[k].left = 1
          BY <1>3, <1>9, <3>2
      <4>2. /\ bucket[k].count = Cardinality(Since(k))
            /\ \E q \in Since(k) : q.age = Window[k] - bucket[k].left
          BY <1>1, <3>2 DEF LimiterAt, LastWindow
      <4>3. Since(k) = S /\ kept # S
          BY <1>3, <4>1, <4>2 DEF Since, kept
      <4>4. QED
          BY <1>3, <4>2, <4>3
    <3>3. QED
        BY <3>1, <3>2
  <2>3. QED
      BY <1>6, <1>7, <1>8, <2>1, <2>2 DEF LastWindow
<1>10. CASE bucket[k].left > 1
  <2> DEFINE O == {q \in kept : q \notin Since(k)}
  <2>1. /\ bucket'[k].left = bucket[k].left - 1 /\ bucket'[k].count = bucket[k].count
        /\ bucket'[k].left # 0
      BY <1>1, <1>2, <1>3, <1>10 DEF MapsTotal
  <2>2. /\ bucket[k].count = Cardinality(Since(k))
        /\ \E q \in Since(k) : q.age = Window[k] - bucket[k].left
        /\ Cardinality(S \ Since(k)) <= Limit[k] - 1
      BY <1>1, <1>10 DEF LimiterAt, LastWindow
  <2>3. Since(k) \in SUBSET S /\ Since(k) \subseteq kept
      BY <1>3, <1>10 DEF Since
  <2>4. /\ IsFiniteSet(Since(k)) /\ IsFiniteSet(S \ Since(k))
        /\ Cardinality(S \ Since(k)) \in Nat
      BY <1>3, <2>3, Counting
  <2>5. O \in SUBSET (S \ Since(k)) /\ IsFiniteSet(O) /\ Cardinality(O) \in Nat
        /\ Cardinality(O) <= Cardinality(S \ Since(k))
    <3>1. O \in SUBSET (S \ Since(k))
        BY <1>5
    <3> HIDE DEF O
    <3>2. QED
        BY <2>4, <3>1, Counting
  <2>6. Since(k)' = {Older(q) : q \in Since(k)}
      BY <1>2, <1>3, <1>4, <2>1, <2>3 DEF Since
  <2>7. recent'[k] \ Since(k)' = {Older(q) : q \in O}
      BY <1>2, <1>3, <1>4, <2>1, <2>6 DEF Since
  <2>8. /\ Cardinality(Since(k)') = Cardinality(Since(k))
        /\ Cardinality(recent'[k] \ Since(k)') = Cardinality(O)
      BY <1>3, <2>3, <2>4, <2>5, <2>6, <2>7, AsManyWhenOlder
  <2>9. \E q \in Since(k)' : q.age = Window[k] - bucket'[k].left
    <3>1. PICK q \in Since(k) : q.age = Window[k] - bucket[k].left
        BY <2>2
    <3>2. Older(q) \in Since(k)' /\ Older(q).age = Window[k] - bucket'[k].left
        BY <1>3, <1>4, <2>1, <2>3, <2>6, <3>1
    <3>3. QED
        BY <3>2
  <2>10. Cardinality(recent'[k] \ Since(k)') <= Limit[k] - 1
      BY <1>3, <2>2, <2>4, <2>5, <2>8
  <2>11. QED
      BY <1>6, <1>7, <1>8, <2>1, <2>2, <2>8, <2>9, <2>10 DEF LastWindow
<1>11. QED
    BY <1>3, <1>9, <1>10

LEMMA TickLimiter == ASSUME LimiterInv, Tick PROVE LimiterInv'
<1>1. ASSUME NEW k \in Keys PROVE LimiterAt(k)'
  <2>1. LimiterAt(k)
      BY DEF LimiterInv
  <2>2. /\ bucket'[k] = IF bucket[k].left <= 1 THEN Expired
                        ELSE [bucket[k] EXCEPT !.left = @ - 1]
        /\ promise'[k] = IF promise[k] > 0 THEN promise[k] - 1 ELSE promise[k]
      BY DEF Tick
  <2>3. /\ bucket'[k] \in [count: 0..Limit[k], left: 0..Window[k]]
        /\ bucket'[k].left = IF bucket[k].left <= 1 THEN 0 ELSE bucket[k].left - 1
      BY <2>1, <2>2, Policies DEF LimiterAt, Expired
  <2>4. /\ promise'[k] \in Nat \cup {NoPromise}
        /\ promise'[k] # NoPromise => bucket'[k].left <= promise'[k]
      BY <2>1, <2>2, <2>3, Policies DEF LimiterAt, NoPromise
  <2>5. QED
      BY <2>3, <2>4, TickWindow DEF LimiterAt, Passed, Ages
<1>2. MapsTotal'
  <2>1. \A k \in Keys : /\ bucket'[k] \in [count: Nat, left: Nat]
                         /\ promise'[k] \in Nat \cup {NoPromise}
      BY <1>1, Policies DEF LimiterAt
  <2>2. QED
      BY <2>1 DEF Tick, MapsTotal
<1>3. QED
    BY <1>1, <1>2 DEF LimiterInv

LEMMA RestartLimiter == ASSUME Restart PROVE LimiterInv'
<1>1. MapsTotal'
    BY DEF Restart, MapsTotal, Expired, NoPromise
<1>2. ASSUME NEW k \in Keys PROVE LimiterAt(k)'
    BY Policies, FS_EmptySet DEF Restart, LimiterAt, LastWindow, Now, Expired, NoPromise
<1>3. QED
    BY <1>1, <1>2 DEF LimiterInv

LEMMA StepLimiter == LimiterInv /\ [Next]_vars => LimiterInv'
<1> SUFFICES ASSUME LimiterInv, [Next]_vars PROVE LimiterInv'
    OBVIOUS
<1>1. CASE \E k \in Keys : OpenWindow(k) \/ Count(k) \/ Refuse(k)
    BY <1>1, OpenLimiter, CountLimiter, RefuseLimiter
<1>2. CASE UNCHANGED vars
    BY <1>2 DEF vars, LimiterInv, LimiterAt, LastWindow, Now, Since, Passed, Ages, MapsTotal
<1>3. QED
    BY <1>1, <1>2, TickLimiter, RestartLimiter DEF Next

\* However requests, refusals and ticks fall together: at most one less than twice
\* the limit in any interval as long as a window.
LEMMA LimiterProperties ==
    LimiterInv => SlidingBound /\ BucketAccounts /\ RetryAfterHonest /\ TypeOK
<1> SUFFICES ASSUME LimiterInv, NEW k \in Keys
             PROVE  /\ Cardinality(recent[k]) <= 2 * Limit[k] - 1
                    /\ bucket[k].left > 0 => bucket[k].count = Cardinality(Since(k))
    BY DEF LimiterInv, LimiterAt, SlidingBound, BucketAccounts, RetryAfterHonest, TypeOK
<1>1. /\ LastWindow(k) /\ IsFiniteSet(recent[k])
      /\ bucket[k] \in [count: 0..Limit[k], left: 0..Window[k]]
      /\ Limit[k] \in Nat \ {0} /\ Window[k] \in Nat \ {0}
    BY Policies DEF LimiterInv, LimiterAt
<1>2. Since(k) \in SUBSET recent[k]
    BY DEF Since
<1>3. /\ Cardinality(recent[k]) \in Nat
      /\ Cardinality(recent[k]) = Cardinality(Since(k)) + Cardinality(recent[k] \ Since(k))
      /\ Cardinality(Since(k)) \in Nat /\ Cardinality(recent[k] \ Since(k)) \in Nat
    BY <1>1, <1>2, Counting
<1>4. QED
    BY <1>1, <1>3 DEF LastWindow

-----------------------------------------------------------------------------
(* The sessions and their tokens.                                          *)

SessionTypeOK ==
    /\ phase \in [SessionIds -> {"unused", "found", "signed", "live", "ended"}]
    /\ replaces \in [SessionIds -> SessionIds \cup {NoSession}]
    /\ left \in [SessionIds -> 0 .. Lifetime]
    /\ ago \in [SessionIds -> 0 .. Lifetime]

SessionInv == SessionTypeOK /\ TokensWearOff

LEMMA SessionsEnd ==
    ASSUME SessionInv, UNCHANGED <<left, ago>>,
           phase' \in [SessionIds -> {"unused", "found", "signed", "live", "ended"}],
           replaces' \in [SessionIds -> SessionIds \cup {NoSession}],
           \A s \in SessionIds : \/ phase'[s] = phase[s]
                                 \/ phase[s] # "ended" /\ phase'[s] # "ended"
                                 \/ phase[s] = "live" /\ phase'[s] = "ended"
    PROVE  SessionInv'
<1>1. SessionTypeOK'
    BY DEF SessionInv, SessionTypeOK
<1>2. TokensWearOff'
    BY LifetimeAssumption DEF SessionInv, SessionTypeOK, TokensWearOff
<1>3. QED
    BY <1>1, <1>2 DEF SessionInv

LEMMA ArrivalSessions ==
    ASSUME SessionInv, NEW a \in Arrivals, TurnAway(a) \/ TooMany(a) \/ Serve(a)
    PROVE  SessionInv'
<1>1. CASE UNCHANGED sessionVars
    BY <1>1 DEF sessionVars, SessionInv, SessionTypeOK, TokensWearOff
<1>2. CASE \E s \in SessionIds, old \in SessionIds \cup {NoSession} : Find(s, old)
    BY <1>2, SessionsEnd DEF Find, SessionInv, SessionTypeOK
<1>3. CASE End(a.names) /\ UNCHANGED <<replaces, left, ago>>
    BY <1>3, SessionsEnd DEF End, SessionInv, SessionTypeOK
<1>4. a.names \in SessionIds \cup {NoSession}
    BY ArrivalsAssumption
<1>5. QED
    BY <1>1, <1>2, <1>3, <1>4 DEF TurnAway, TooMany, Serve, Handle

\* A token is signed for a session that is not there yet.
LEMMA SignTokenSessions ==
    ASSUME SessionInv, NEW s \in SessionIds, SignToken(s)
    PROVE  SessionInv'
<1>1. SessionTypeOK'
    BY LifetimeAssumption DEF SignToken, SessionInv, SessionTypeOK
<1>2. ASSUME NEW t \in SessionIds
      PROVE  IF phase'[t] = "ended" THEN left'[t] + ago'[t] <= Lifetime ELSE ago'[t] = 0
  <2>1. CASE t = s
      BY <2>1 DEF SignToken, SessionInv, SessionTypeOK, TokensWearOff
  <2>2. CASE t # s
      BY <2>2, LifetimeAssumption DEF SignToken, SessionInv, SessionTypeOK, TokensWearOff
  <2>3. QED
      BY <2>1, <2>2
<1>3. QED
    BY <1>1, <1>2 DEF SessionInv, TokensWearOff

LEMMA HandlerSessions ==
    ASSUME SessionInv, NEW s \in SessionIds, CreateSession(s) \/ HandlerFails(s)
    PROVE  SessionInv'
<1>1. CASE CreateSession(s)
    BY <1>1, SessionsEnd DEF CreateSession, SessionInv, SessionTypeOK
<1>2. CASE HandlerFails(s)
  <2>1. SessionTypeOK'
      BY <1>2, LifetimeAssumption DEF HandlerFails, SessionInv, SessionTypeOK
  <2>2. TokensWearOff'
      BY <1>2 DEF HandlerFails, SessionInv, SessionTypeOK, TokensWearOff
  <2>3. QED
      BY <2>1, <2>2 DEF SessionInv
<1>3. QED
    BY <1>1, <1>2

\* A tick takes from the token what it adds to the age of the end.
LEMMA TickSessions == ASSUME SessionInv, AdmissionTick PROVE SessionInv'
<1>1. SessionTypeOK'
    BY LifetimeAssumption DEF AdmissionTick, TokensAge, SessionInv, SessionTypeOK
<1>2. TokensWearOff'
    BY LifetimeAssumption
    DEF AdmissionTick, TokensAge, SessionInv, SessionTypeOK, TokensWearOff
<1>3. QED
    BY <1>1, <1>2 DEF SessionInv

LEMMA RestartSessions == ASSUME SessionInv, AdmissionRestart PROVE SessionInv'
<1>1. SessionTypeOK'
    BY LifetimeAssumption DEF AdmissionRestart, SessionInv, SessionTypeOK
<1>2. TokensWearOff'
    BY DEF AdmissionRestart, SessionInv, SessionTypeOK, TokensWearOff
<1>3. QED
    BY <1>1, <1>2 DEF SessionInv

-----------------------------------------------------------------------------
(* The invariant and the properties.                                       *)

IInv == LimiterInv /\ SessionInv

\* Whatever becomes of a request, it changes the Map only as the limiter does.
LEMMA LimiterSteps == [AdmissionNext]_admissionVars => [Next]_vars
<1> SUFFICES ASSUME [AdmissionNext]_admissionVars PROVE [Next]_vars
    OBVIOUS
<1>1. CASE \E a \in Arrivals : TurnAway(a) \/ TooMany(a) \/ Serve(a)
  <2>1. PICK a \in Arrivals : TurnAway(a) \/ TooMany(a) \/ Serve(a)
      BY <1>1
  <2>2. CASE RateLimitPasses(a)
      BY <2>2, KeysAssumption DEF RateLimitPasses, Next
  <2>3. CASE TooMany(a)
      BY <2>3, KeysAssumption DEF TooMany, Next
  <2>4. QED
      BY <2>1, <2>2, <2>3 DEF TurnAway, Serve
<1>2. CASE \E s \in SessionIds : SignToken(s) \/ CreateSession(s) \/ HandlerFails(s)
    BY <1>2 DEF SignToken, CreateSession, HandlerFails
<1>3. CASE AdmissionTick \/ AdmissionRestart
    BY <1>3 DEF AdmissionTick, AdmissionRestart, Next
<1>4. CASE UNCHANGED admissionVars
    BY <1>4 DEF admissionVars
<1>5. QED
    BY <1>1, <1>2, <1>3, <1>4 DEF AdmissionNext

LEMMA InitIInv == AdmissionInit => IInv
<1>1. AdmissionInit => SessionInv
    BY LifetimeAssumption DEF AdmissionInit, SessionInv, SessionTypeOK, TokensWearOff
<1>2. QED
    BY <1>1, InitLimiter DEF AdmissionInit, IInv

LEMMA StepIInv == IInv /\ [AdmissionNext]_admissionVars => IInv'
<1> SUFFICES ASSUME IInv, [AdmissionNext]_admissionVars PROVE IInv'
    OBVIOUS
<1> USE DEF IInv
<1>1. LimiterInv'
    BY LimiterSteps, StepLimiter
<1>2. CASE UNCHANGED admissionVars
    BY <1>1, <1>2 DEF admissionVars, sessionVars, SessionInv, SessionTypeOK, TokensWearOff
<1>3. CASE \E a \in Arrivals : TurnAway(a) \/ TooMany(a) \/ Serve(a)
    BY <1>1, <1>3, ArrivalSessions
<1>4. CASE \E s \in SessionIds : SignToken(s) \/ CreateSession(s) \/ HandlerFails(s)
    BY <1>1, <1>4, SignTokenSessions, HandlerSessions
<1>5. CASE AdmissionTick \/ AdmissionRestart
    BY <1>1, <1>5, TickSessions, RestartSessions
<1>6. QED
    BY <1>2, <1>3, <1>4, <1>5 DEF AdmissionNext

\* The inductive invariant of the guards and the tokens.
THEOREM InvariantHolds == AdmissionSpec => []IInv
BY InitIInv, StepIInv, PTL DEF AdmissionSpec

\* The Map of the limiter, the counts and the tokens keep their ranges: no count
\* is above its limit, whatever clients send.
THEOREM AdmissionTypeCorrect == AdmissionSpec => []AdmissionTypeOK
<1>1. IInv => AdmissionTypeOK
    BY LimiterProperties DEF IInv, SessionInv, SessionTypeOK, AdmissionTypeOK
<1>2. QED
    BY <1>1, InvariantHolds, PTL

\* With the other guards, the handlers and the clock of the tokens around it, the
\* limiter still behaves as RateLimiter says.
THEOREM AdmissionRunsLimiter == AdmissionSpec => Init /\ [][Next]_vars
<1>1. AdmissionInit => Init
    BY DEF AdmissionInit
<1>2. QED
    BY <1>1, LimiterSteps, PTL DEF AdmissionSpec

\* Less than twice the limit in any interval as long as a window, for every
\* limit and every window.
THEOREM SlidingBoundHolds == AdmissionSpec => []SlidingBound
<1>1. IInv => SlidingBound
    BY LimiterProperties DEF IInv
<1>2. QED
    BY <1>1, InvariantHolds, PTL

\* The count of an open window is the number of the requests it let through.
THEOREM BucketAccountsHolds == AdmissionSpec => []BucketAccounts
<1>1. IInv => BucketAccounts
    BY LimiterProperties DEF IInv
<1>2. QED
    BY <1>1, InvariantHolds, PTL

\* A client that waits as long as it was told does not meet the same window again,
\* for every window and every length of a second.
THEOREM RetryAfterHonestHolds == AdmissionSpec => []RetryAfterHonest
<1>1. IInv => RetryAfterHonest
    BY LimiterProperties DEF IInv
<1>2. QED
    BY <1>1, InvariantHolds, PTL

\* An access token outlives its session by less than its lifetime.
THEOREM AccessBoundedHolds == AdmissionSpec => []AccessBounded
<1>1. IInv => AccessBounded
    BY LifetimeAssumption
    DEF IInv, SessionInv, SessionTypeOK, TokensWearOff, AccessBounded, Usable
<1>2. QED
    BY <1>1, InvariantHolds, PTL

\* No request lengthens a window that is open, and every tick shortens it.
WindowsRunDown ==
    \A k \in Keys : bucket[k].left > 0 =>
        /\ bucket'[k].left <= bucket[k].left
        /\ AdmissionTick => bucket'[k].left < bucket[k].left

\* Whatever clients send, no step gives an open window more time: with the fairness
\* of the clock this is why FullWindowEnds.
THEOREM WindowsEndInTime == AdmissionSpec => [][WindowsRunDown]_admissionVars
<1>1. IInv /\ [AdmissionNext]_admissionVars => [WindowsRunDown]_admissionVars
  <2> SUFFICES ASSUME IInv, [AdmissionNext]_admissionVars,
                      NEW k \in Keys, bucket[k].left > 0
               PROVE  /\ bucket'[k].left <= bucket[k].left
                      /\ AdmissionTick => bucket'[k].left < bucket[k].left
      BY DEF WindowsRunDown
  <2>1. /\ bucket \in [Keys -> [count: Nat, left: Nat]]
        /\ [Next]_vars
        /\ AdmissionTick => Tick
      BY LimiterSteps DEF IInv, LimiterInv, MapsTotal, AdmissionTick
  <2>2. CASE Tick
      BY <2>1, <2>2 DEF Tick, Expired
  <2>3. CASE ~Tick
    <3>1. CASE \E l \in Keys : OpenWindow(l) \/ Count(l) \/ Refuse(l)
      <4>1. bucket'[k].left = bucket[k].left
        <5>1. PICK l \in Keys : OpenWindow(l) \/ Count(l) \/ Refuse(l)
            BY <3>1
        <5>2. CASE OpenWindow(l)
            BY <2>1, <5>2 DEF OpenWindow
        <5>3. CASE Count(l)
            BY <2>1, <5>3 DEF Count
        <5>4. CASE Refuse(l)
            BY <5>4 DEF Refuse
        <5>5. QED
            BY <5>1, <5>2, <5>3, <5>4
      <4>2. bucket[k].left \in Nat
          BY <2>1
      <4>3. QED
          BY <2>1, <2>3, <4>1, <4>2
    <3>2. CASE Restart \/ UNCHANGED vars
        BY <2>1, <2>3, <3>2 DEF Restart, Expired, vars
    <3>3. QED
        BY <2>1, <2>3, <3>1, <3>2 DEF Next
  <2>4. QED
      BY <2>1, <2>2, <2>3
<1>2. QED
    BY <1>1, InvariantHolds, PTL DEF AdmissionSpec

-----------------------------------------------------------------------------
(* The permissions.                                                        *)

\* FurtherRolesOnlyAdd without its bound: for any sets of roles and any permission,
\* further roles take nothing away but the exclusions of the disponent.
THEOREM RolesOnlyAdd ==
    /\ FurtherRolesOnlyAdd
    /\ \A roles, more \in SUBSET RoleCode : \A p :
          HasPermission(roles, p) /\ ~HasPermission(roles \cup more, p)
              => "logistic_disponent" \in more /\ p \in DISPONENT_FORBIDDEN_PERMISSIONS
<1>1. ASSUME NEW roles \in SUBSET RoleCode, NEW more \in SUBSET RoleCode, NEW p,
             HasPermission(roles, p), ~HasPermission(roles \cup more, p)
      PROVE  "logistic_disponent" \in more /\ p \in DISPONENT_FORBIDDEN_PERMISSIONS
  <2>1. \E role \in roles \cup more : {Everything, p} \cap ROLE_PERMISSIONS[role] # {}
      BY <1>1 DEF HasPermission
  <2>2. "logistic_disponent" \in roles \cup more /\ p \in DISPONENT_FORBIDDEN_PERMISSIONS
      BY <1>1, <2>1 DEF HasPermission
  <2>3. "logistic_disponent" \notin roles
      BY <1>1, <2>2 DEF HasPermission
  <2>4. QED
      BY <2>2, <2>3
<1>2. FurtherRolesOnlyAdd
  <2> SUFFICES ASSUME NEW roles \in RoleSets, NEW role \in RoleCode, NEW p \in AllPermissions,
                      HasPermission(roles, p), ~HasPermission(roles \cup {role}, p)
               PROVE  role = "logistic_disponent" /\ p \in DISPONENT_FORBIDDEN_PERMISSIONS
      BY DEF FurtherRolesOnlyAdd
  <2>1. roles \in SUBSET RoleCode /\ {role} \in SUBSET RoleCode
      BY DEF RoleSets
  <2>2. QED
      BY <1>1, <2>1
<1>3. QED
    BY <1>1, <1>2

\* The texts that are read as super_admin.
SuperTexts ==
    {"admin", "superadmin", "super", "platform_admin", "platformadmin", "super_admin"}

LEMMA SuperSpelled ==
    ASSUME NEW text
    PROVE  NormalizeRole(text) = "super_admin" <=> text \in SuperTexts
BY DEF NormalizeRole, SuperTexts, RoleCode, NoRole

\* Whatever a client writes in the headers, it passes a route for super_admin alone
\* by one of the spellings of this role or by the bare "*": no other role, no area
\* and no number of named permissions amounts to it.
THEOREM SuperAdminRoutes ==
    \A texts, permissions :
        RolesGuardPasses({"super_admin"}, ParseRoles(texts), permissions)
            <=> texts \cap SuperTexts # {} \/ Everything \in permissions
<1>1. ROLE_PERMISSIONS["super_admin"] = {Everything}
    BY DEF ROLE_PERMISSIONS, RoleCode
<1>2. \A permissions : PermissionsSatisfyRole(permissions, "super_admin")
                          <=> Everything \in permissions
    BY <1>1 DEF PermissionsSatisfyRole
<1>3. \A texts : "super_admin" \in ParseRoles(texts) <=> texts \cap SuperTexts # {}
    BY SuperSpelled DEF ParseRoles, NoRole
<1>4. QED
    BY <1>2, <1>3 DEF RolesGuardPasses

=============================================================================
