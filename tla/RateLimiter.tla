---------------------------- MODULE RateLimiter ----------------------------
(***************************************************************************)
(* RateLimitGuard (common/rate-limit.guard.ts): a fixed window per key,    *)
(* counted in a Map in the memory of the process.                          *)
(*                                                                         *)
(* Time is counted in ticks and kept relative: left is resetAt - now, and  *)
(* 0 stands for every resetAt <= now.  canActivate has no await, so that a *)
(* call is one step.                                                       *)
(***************************************************************************)
EXTENDS Integers, FiniteSets

CONSTANTS
    Keys,       \* keys of the Map: a policy's prefix or route, and an identity
    Limit,      \* Limit[k], Window[k]: the policy a request with this key has
    Window,
    Second      \* ticks of one second, the unit of retryAfterSeconds

ASSUME LimitAssumption == Limit \in [Keys -> Nat \ {0}]
ASSUME WindowAssumption == Window \in [Keys -> Nat \ {0}]
ASSUME SecondAssumption == Second \in Nat \ {0}

VARIABLES
    bucket,     \* the Map
    recent,     \* history: the requests let through in the last Window[k] ticks
    promise     \* history: ticks until the moment the last refusal of the window named

vars == <<bucket, recent, promise>>

Ages(k) == 0 .. Window[k] - 1

\* The nth request let through in a tick, age ticks ago.
Passed(k) == [age: Ages(k), nth: 1..Limit[k]]

\* No bucket and a bucket whose resetAt is past take the same branch.
Expired == [count |-> 0, left |-> 0]

NoPromise == -1

TypeOK ==
    \A k \in Keys :
        /\ bucket[k] \in [count: 0..Limit[k], left: 0..Window[k]]
        /\ recent[k] \subseteq Passed(k)
        /\ promise[k] \in Nat \cup {NoPromise}

Init ==
    /\ bucket = [k \in Keys |-> Expired]
    /\ recent = [k \in Keys |-> {}]
    /\ promise = [k \in Keys |-> NoPromise]

Now(k) == {q \in recent[k] : q.age = 0}

LetThrough(k) ==
    recent' = [recent EXCEPT ![k] = @ \cup {[age |-> 0, nth |-> Cardinality(Now(k)) + 1]}]

\* Mutant: the request that opens a window is not counted.
OpenWindowUncounted(k) ==
    /\ bucket[k].left = 0
    /\ bucket' = [bucket EXCEPT ![k] = [count |-> 0, left |-> Window[k]]]
    /\ promise' = [promise EXCEPT ![k] = NoPromise]
    /\ LetThrough(k)

OpenWindow(k) ==
    /\ bucket[k].left = 0
    /\ bucket' = [bucket EXCEPT ![k] = [count |-> 1, left |-> Window[k]]]
    /\ promise' = [promise EXCEPT ![k] = NoPromise]
    /\ LetThrough(k)

\* Mutant: the limit is compared with <=.
CountToLimitPlusOne(k) ==
    /\ bucket[k].left > 0
    /\ bucket[k].count <= Limit[k]
    /\ bucket' = [bucket EXCEPT ![k].count = @ + 1]
    /\ LetThrough(k)
    /\ UNCHANGED promise

Count(k) ==
    /\ bucket[k].left > 0
    /\ bucket[k].count < Limit[k]
    /\ bucket' = [bucket EXCEPT ![k].count = @ + 1]
    /\ LetThrough(k)
    /\ UNCHANGED promise

\* Mutant: seconds are rounded down.
SecondsRoundedDown(ticks) == ticks \div Second

\* Math.ceil of retryAfterSeconds.
RetryAfterSeconds(ticks) == (ticks + Second - 1) \div Second

\* Mutant: a refusal restarts the window.
RefuseAndExtend(k) ==
    /\ bucket[k].left > 0
    /\ bucket[k].count >= Limit[k]
    /\ bucket' = [bucket EXCEPT ![k].left = Window[k]]
    /\ promise' = [promise EXCEPT ![k] = Second * RetryAfterSeconds(bucket[k].left)]
    /\ UNCHANGED recent

\* The exception carries the seconds until the window ends.
Refuse(k) ==
    /\ bucket[k].left > 0
    /\ bucket[k].count >= Limit[k]
    /\ promise' = [promise EXCEPT ![k] = Second * RetryAfterSeconds(bucket[k].left)]
    /\ UNCHANGED <<bucket, recent>>

-----------------------------------------------------------------------------
Older(q) == [q EXCEPT !.age = @ + 1]

\* One tick of the clock, for all keys.
Tick ==
    /\ bucket' = [k \in Keys |->
                     IF bucket[k].left <= 1 THEN Expired ELSE [bucket[k] EXCEPT !.left = @ - 1]]
    /\ recent' = [k \in Keys |-> {Older(q) : q \in {p \in recent[k] : p.age + 1 < Window[k]}}]
    /\ promise' = [k \in Keys |-> IF promise[k] > 0 THEN promise[k] - 1 ELSE promise[k]]

\* The Map is lost; the history restarts with the process.
Restart ==
    /\ bucket' = [k \in Keys |-> Expired]
    /\ recent' = [k \in Keys |-> {}]
    /\ promise' = [k \in Keys |-> NoPromise]

Next ==
    \/ \E k \in Keys : OpenWindow(k) \/ Count(k) \/ Refuse(k)
    \/ Tick
    \/ Restart

\* Time passes; nothing is assumed of the clients.
Spec == Init /\ [][Next]_vars /\ WF_vars(Tick)

-----------------------------------------------------------------------------
(* Properties.                                                             *)

\* A fixed window does not keep its limit over every interval of its length: up
\* to one less than twice the limit pass around the end of a window, which
\* starts with a request of its own.  Never more, while the process runs.
SlidingBound ==
    \A k \in Keys : Cardinality(recent[k]) <= 2 * Limit[k] - 1

\* The requests let through since the window was opened.
Since(k) == {q \in recent[k] : q.age <= Window[k] - bucket[k].left}

\* The bucket counts the requests let through since its window was opened, all
\* of them and no others, however the end of the last window and the requests
\* fell together.
BucketAccounts ==
    \A k \in Keys : bucket[k].left > 0 => bucket[k].count = Cardinality(Since(k))

\* A client that waits as long as retryAfterSeconds told it does not meet the
\* window that refused it again.
RetryAfterHonest ==
    \A k \in Keys : promise[k] # NoPromise => bucket[k].left <= promise[k]

\* However a client keeps calling, a window that is full ends.
FullWindowEnds ==
    \A k \in Keys : bucket[k].count = Limit[k] ~> bucket[k].left = 0

=============================================================================
