------------------------ MODULE ReferenceRetryProofs ------------------------
(***************************************************************************)
(* Theorems about the delays before a retry and about the requests that    *)
(* wait for a reference.                                                   *)
(*                                                                         *)
(* The delays are recursive functions.  Each is shown to exist, and what   *)
(* it computes to have a property, by the least argument at which it would *)
(* not.                                                                    *)
(*                                                                         *)
(* The inductive invariant says when the next attempt of a waiting request *)
(* is due at the earliest and at the latest (Scheduled), that what a       *)
(* worker has written follows from a row that it alone holds (Follows),    *)
(* and, for as long as nothing fails, that some worker wakes up for every  *)
(* request in time (Prompt).                                               *)
(***************************************************************************)
EXTENDS ReferenceRetry, ArithmeticCalls, TLAPS, SequenceTheorems, WellFoundedInduction

\* Since a request began to wait, the times before and after which its attempt
\* n + 1 is not due.
Earliest(n) == Delays(n) - n * Skew
Latest(n)   == Least(TTL + RetryMax + 2 * Skew, Delays(n) + n * (Poll + Skew))

\* The next attempt of a row that waits.
Scheduled(row) ==
    row.status = "PENDING_REFERENCE" =>
        /\ row.attempts < MaxAttempts
        /\ row.pendingAt # None /\ row.nextAt # None
        /\ row.nextAt >= row.pendingAt + Earliest(row.attempts)
        /\ faults = 0 => row.nextAt <= row.pendingAt + Latest(row.attempts)

\* A row as the open transaction that holds r has written it.
Follows(r, row) ==
    /\ row.status # "ABSENT"
    /\ row.pendingAt = rows[r].pendingAt
    /\ row.attempts = rows[r].attempts + IF row.status = "SETTLED" THEN 0 ELSE 1
    /\ row.status = "REFERENCE_NOT_FOUND" =>
         /\ ~found[r]
         /\ row.attempts = MaxAttempts \/ now >= row.pendingAt + TTL - Skew

\* A worker outside of a transaction holds nothing; a row it holds is due, comes
\* once in its batch, and is written once.
HoldsRight(w) ==
    /\ pc[w] # "process" => batch[w] = << >> /\ writes[w] = {}
    /\ IsInjective(batch[w])
    /\ ToSet(batch[w]) \cap Written(w) = {}
    /\ \A r \in Held(w) : Waiting(r) /\ rows[r].nextAt <= now
    /\ \A u \in writes[w] :
         /\ Scheduled(u.row) /\ Follows(u.id, u.row)
         /\ \A v \in writes[w] : u.id = v.id => u = v

WorkersRight ==
    /\ \A w \in Workers : HoldsRight(w)
    /\ \A v, w \in Workers : v # w => Held(v) \cap Held(w) = {}

\* A request has an end exactly when it is answered.
RowRight(r) ==
    /\ Scheduled(rows[r])
    /\ rows[r].status # "ABSENT" => rows[r].pendingAt # None
    /\ endedAt[r] = None <=> rows[r].status \in {"ABSENT", "PENDING_REFERENCE"}

RowsRight == \A r \in Requests : RowRight(r)

\* A worker that is awake before the request has waited for its latest time and
\* a poll.
Wakes(w, r) ==
    \/ pc[w] \in {"poll", "process"}
    \/ wake[w] <= rows[r].pendingAt + Latest(rows[r].attempts) + Poll

\* Without failures no worker is down or oversleeps, and no request is overdue.
Prompt ==
    faults = 0 =>
        /\ \A w \in Workers :
             pc[w] # "down" /\ (pc[w] = "sleep" => wake[w] <= now + Poll)
        /\ \A r \in Requests : Waiting(r) =>
             /\ now <= rows[r].pendingAt + Latest(rows[r].attempts) + Poll
             /\ \E w \in Workers : Wakes(w, r)

RetryInv == TypeOK /\ RowsRight /\ WorkersRight /\ Prompt /\ Patience /\ WaitBounded

-----------------------------------------------------------------------------
(* Recursion on the natural numbers.                                       *)

LEMMA LeastNumber ==
    ASSUME NEW T, T \subseteq Nat, T # {}
    PROVE  \E least \in T : \A k \in T : least <= k
<1> DEFINE less == OpToRel(<, Nat)
<1>1. IsWellFoundedOn(less, Nat)
  BY NatLessThanWellFounded
<1>2. \A i, j \in Nat : i < j => <<i, j>> \in less
  BY DEF OpToRel
<1> HIDE DEF less
<1>3. \E least \in T : \A k \in T : ~ (<<k, least>> \in less)
  BY <1>1, WFMin, Zenon
<1>4. PICK least \in T : \A k \in T : ~ (<<k, least>> \in less)
  BY <1>3
<1>5. ASSUME NEW k \in T PROVE least <= k
  <2>1. k \in Nat /\ least \in Nat /\ ~ (k < least)
    BY <1>2, <1>4
  <2>2. QED
    BY <2>1
<1>6. QED
  BY <1>5

\* f is given at 0 and, from each argument to the next, by a step.
Recurs(f, n, first, step) ==
    \A i \in 0..n : f[i] = IF i = 0 THEN first ELSE step[i][f[i - 1]]

LEMMA RecursionExists ==
    ASSUME NEW n \in Nat, NEW S, NEW first \in S, NEW step \in [1..n -> [S -> S]]
    PROVE  \E f \in [0..n -> S] : Recurs(f, n, first, step)
<1> USE DEF Recurs
<1> DEFINE Missing == {k \in 0..n : ~ \E f \in [0..k -> S] : Recurs(f, k, first, step)}
<1> SUFFICES ASSUME Missing # {} PROVE FALSE
  <2>1. n \in 0..n
    OBVIOUS
  <2>2. QED
    BY <2>1
<1>1. PICK least \in Missing : \A k \in Missing : least <= k
  <2>1. Missing \subseteq Nat
    OBVIOUS
  <2>2. QED
    BY <2>1, LeastNumber
<1>2. least \in 0..n /\ ~ \E f \in [0..least -> S] : Recurs(f, least, first, step)
  BY <1>1
<1>3. CASE least = 0
  <2> DEFINE f == [i \in 0..0 |-> first]
  <2>1. f \in [0..least -> S] /\ Recurs(f, least, first, step)
    BY <1>3
  <2>2. QED
    BY <1>2, <2>1
<1>4. CASE least # 0
  <2>1. least - 1 \in 0..n /\ ~ (least <= least - 1)
    BY <1>2, <1>4
  <2>2. PICK f \in [0..(least - 1) -> S] : Recurs(f, least - 1, first, step)
    BY <1>1, <2>1
  <2> DEFINE g == [i \in 0..least |-> IF i = least THEN step[i][f[i - 1]] ELSE f[i]]
  <2>3. \A i \in 0..least : i # least => i \in 0..(least - 1)
    BY <1>2
  <2>4. least - 1 \in 0..(least - 1) /\ least \in 1..n
    BY <1>2, <1>4
  <2>5. f[least - 1] \in S /\ step[least] \in [S -> S]
    BY <2>2, <2>4
  <2>6. g \in [0..least -> S]
    BY <2>2, <2>3, <2>5
  <2>7. ASSUME NEW i \in 0..least
        PROVE  g[i] = IF i = 0 THEN first ELSE step[i][g[i - 1]]
    <3>1. i = 0 \/ (i - 1 \in 0..least /\ i - 1 # least)
      BY <1>2
    <3>2. QED
      BY <1>4, <2>2, <2>3, <3>1
  <2>8. QED
    BY <1>2, <2>6, <2>7
<1>5. QED
  BY <1>3, <1>4

-----------------------------------------------------------------------------
(* The delays.                                                             *)

\* A non-negative number that fits is its own machine integer.
LEMMA SignedFits ==
    ASSUME NEW d \in 0..MaxInt
    PROVE  Signed(d) = d
<1>1. 2 ^ (Word - 1) \in Int
  BY WordAssumption
<1> DEFINE m == MaxInt - MinInt + 1
<1>2. m \in Int /\ MaxInt \in Int /\ MinInt \in Int /\ MinInt = -(MaxInt + 1)
  BY <1>1 DEF MaxInt, MinInt
<1>3. d - MinInt \in 0..(m - 1)
  BY <1>2
<1>4. (d - MinInt) % m = d - MinInt
  <2> HIDE DEF m
  <2>1. QED
    BY <1>2, <1>3
<1>5. QED
  BY <1>2, <1>4 DEF Signed


\* However many steps there are, no doubling overflows and the maximum is kept.
LEMMA GrownBounded ==
    ASSUME NEW base \in 1..MaxInt, NEW maximum \in base..MaxInt, NEW n \in Nat
    PROVE  Grown(base, maximum, n) \in base..maximum
<1> DEFINE S == base..maximum
           doubled(d) == IF d > maximum \div 2 THEN maximum ELSE Signed(2 * d)
           step == [i \in 1..n |-> [d \in S |-> doubled(d)]]
           next(f) == [i \in 0..n |-> IF i = 0 THEN base
                         ELSE IF f[i - 1] > maximum \div 2 THEN maximum ELSE Signed(2 * f[i - 1])]
           delay == CHOOSE f : f = next(f)
<1>0. base \in Int /\ maximum \in Int /\ MaxInt \in Int /\ 1 <= base /\ base <= maximum /\ maximum <= MaxInt
  <2>1. MaxInt \in Int
    BY WordAssumption DEF MaxInt
  <2>2. QED
    BY <2>1
<1>1. ASSUME NEW d \in S PROVE doubled(d) \in S
  <2>1. CASE d > maximum \div 2
    BY <1>0, <2>1
  <2>2. CASE ~ (d > maximum \div 2)
    <3>1. 2 * d <= maximum /\ d <= 2 * d /\ 2 * d \in Int
      BY <1>0, <2>2
    <3>2. 2 * d \in 0..MaxInt
      BY <1>0, <3>1
    <3>3. Signed(2 * d) = 2 * d
      BY <3>2, SignedFits
    <3>4. QED
      BY <1>0, <2>2, <3>1, <3>3
  <2>3. QED
    BY <2>1, <2>2
<1>2. step \in [1..n -> [S -> S]] /\ base \in S
  BY <1>0, <1>1
<1>3. PICK f \in [0..n -> S] : Recurs(f, n, base, step)
  <2> HIDE DEF S, step
  <2>1. QED
    BY <1>2, RecursionExists
<1>4. f = next(f)
  <2>1. ASSUME NEW i \in 0..n, i # 0
        PROVE  f[i] = doubled(f[i - 1])
    <3>1. i \in 1..n /\ i - 1 \in 0..n
      BY <2>1
    <3>2. f[i - 1] \in S
      BY <1>3, <3>1
    <3>3. step[i][f[i - 1]] = doubled(f[i - 1])
      BY <3>1, <3>2
    <3>4. QED
      BY <1>3, <2>1, <3>3 DEF Recurs
  <2>2. \A i \in 0..n : f[i] = next(f)[i]
    BY <1>3, <2>1 DEF Recurs
  <2>3. QED
    BY <1>3, <2>2
<1>5. delay = next(delay)
  <2> HIDE DEF next
  <2>1. QED
    BY <1>4
<1>6. \A i \in 0..n : delay[i] \in S
  <2> DEFINE Wrong == {i \in 0..n : delay[i] \notin S}
  <2> SUFFICES ASSUME Wrong # {} PROVE FALSE
    OBVIOUS
  <2>1. PICK least \in Wrong : \A i \in Wrong : least <= i
    <3>1. Wrong \subseteq Nat
      OBVIOUS
    <3> HIDE DEF Wrong
    <3>2. QED
      BY <3>1, LeastNumber
  <2>2. least \in 0..n /\ delay[least] = next(delay)[least]
    BY <1>5, <2>1
  <2>3. CASE least = 0
    BY <1>0, <2>1, <2>2, <2>3
  <2>4. CASE least # 0
    <3>1. least - 1 \in 0..n /\ ~ (least <= least - 1)
      BY <2>2, <2>4
    <3>2. delay[least - 1] \in S
      BY <2>1, <3>1
    <3>3. delay[least] = doubled(delay[least - 1])
      BY <2>2, <2>4
    <3>4. QED
      BY <1>1, <2>1, <3>2, <3>3
  <2>5. QED
    BY <2>3, <2>4
<1>7. Grown(base, maximum, n) = delay[n]
  BY DEF Grown
<1>8. QED
  BY <1>6, <1>7


\* For every configuration and every number of attempts the three processes
\* wait for at least their base and at most their maximum: no delay is negative,
\* which would be due at once, and none grows without bound.
THEOREM DelaysBounded ==
    ASSUME NEW base \in MachineIntegers, NEW maximum \in MachineIntegers, NEW n \in Int
    PROVE  /\ ReferenceRetryDelay(base, maximum, n) \in Base(base)..Maximum(base, maximum)
           /\ PublisherRetryDelay(base, maximum, n) \in Base(base)..Maximum(base, maximum)
           /\ ConsumerRetryDelay(base, maximum, n) \in Base(base)..Maximum(base, maximum)
<1>1. MaxInt \in Int /\ MinInt \in Int
  BY WordAssumption DEF MaxInt, MinInt
<1>2. Base(base) \in 1..MaxInt
  BY <1>1, BackoffAssumption DEF Base, MachineIntegers
<1>3. Maximum(base, maximum) \in Base(base)..MaxInt
  BY <1>1, <1>2 DEF Maximum, MachineIntegers
<1>4. Clamp(n - 1) \in Nat /\ Clamp(n) \in Nat /\ (IF n < 1 THEN 0 ELSE n - 1) \in Nat
  BY BackoffAssumption DEF Clamp
<1>5. QED
  BY <1>2, <1>3, <1>4, GrownBounded
     DEF ReferenceRetryDelay, PublisherRetryDelay, ConsumerRetryDelay

\* The delay after the attempt n.
DelayAfter(n) == ReferenceRetryDelay(RetryBase, RetryMax, n)

LEMMA DelayType ==
    ASSUME NEW n \in Int
    PROVE  DelayAfter(n) \in 1..RetryMax
<1>1. MaxInt \in Int /\ MinInt \in Int
  BY WordAssumption DEF MaxInt, MinInt
<1>2. RetryBase \in Nat \ {0} /\ RetryMax \in RetryBase..MaxInt
  BY ReferenceRetryAssumption
<1>3. MinInt = -(MaxInt + 1)
  BY <1>1, WordAssumption DEF MaxInt, MinInt
<1>4. RetryBase \in MachineIntegers /\ RetryMax \in MachineIntegers
  BY <1>1, <1>2, <1>3 DEF MachineIntegers
<1>5. Base(RetryBase) = RetryBase /\ Maximum(RetryBase, RetryMax) = RetryMax
  BY <1>1, <1>2 DEF Base, Maximum
<1>6. DelayAfter(n) \in RetryBase..RetryMax
  BY <1>4, <1>5, DelaysBounded DEF DelayAfter
<1>7. QED
  BY <1>1, <1>2, <1>6

Sums(f, n) ==
    /\ f \in [0..n -> Nat]
    /\ \A i \in 0..n : f[i] = IF i = 0 THEN 0 ELSE f[i - 1] + DelayAfter(i)

LEMMA DelaysAreSums ==
    ASSUME NEW n \in Nat
    PROVE  \E f : Sums(f, n) /\ Delays(n) = f[n]
<1> DEFINE step == [i \in 1..n |-> [d \in Nat |-> d + DelayAfter(i)]]
           next(f) == [i \in 0..n |-> IF i = 0 THEN 0
                         ELSE f[i - 1] + ReferenceRetryDelay(RetryBase, RetryMax, i)]
           total == CHOOSE f : f = next(f)
<1>1. step \in [1..n -> [Nat -> Nat]]
  <2>1. \A i \in 1..n : DelayAfter(i) \in Nat
    BY DelayType, ReferenceRetryAssumption
  <2>2. QED
    BY <2>1
<1>2. PICK f \in [0..n -> Nat] : Recurs(f, n, 0, step)
  <2> HIDE DEF step
  <2>1. QED
    BY <1>1, RecursionExists
<1>3. ASSUME NEW i \in 0..n
      PROVE  f[i] = IF i = 0 THEN 0 ELSE f[i - 1] + DelayAfter(i)
  <2>1. i # 0 => i \in 1..n /\ i - 1 \in 0..n
    OBVIOUS
  <2>2. i # 0 => step[i][f[i - 1]] = f[i - 1] + DelayAfter(i)
    BY <1>2, <2>1
  <2>3. QED
    BY <1>2, <2>2 DEF Recurs
<1>4. f = next(f)
  BY <1>2, <1>3 DEF DelayAfter
<1>5. total = next(total)
  <2> HIDE DEF next
  <2>1. QED
    BY <1>4
<1>6. \A i \in 0..n : total[i] \in Nat
  <2> DEFINE Wrong == {i \in 0..n : total[i] \notin Nat}
  <2> SUFFICES ASSUME Wrong # {} PROVE FALSE
    OBVIOUS
  <2>1. PICK least \in Wrong : \A i \in Wrong : least <= i
    <3>1. Wrong \subseteq Nat
      OBVIOUS
    <3> HIDE DEF Wrong
    <3>2. QED
      BY <3>1, LeastNumber
  <2>2. least \in 0..n /\ total[least] = next(total)[least]
    BY <1>5, <2>1
  <2>3. CASE least = 0
    BY <2>1, <2>2, <2>3
  <2>4. CASE least # 0
    <3>1. least - 1 \in 0..n /\ ~ (least <= least - 1)
      BY <2>2, <2>4
    <3>2. total[least - 1] \in Nat
      BY <2>1, <3>1
    <3>3. total[least] = total[least - 1] + DelayAfter(least)
      BY <2>2, <2>4 DEF DelayAfter
    <3>4. DelayAfter(least) \in Nat
      <4>1. least \in Int /\ 1..RetryMax \subseteq Nat
        BY <2>2
      <4>2. QED
        BY <4>1, DelayType
    <3>5. QED
      BY <2>1, <3>2, <3>3, <3>4
  <2>5. QED
    BY <2>3, <2>4
<1>7. Sums(total, n)
  <2>1. total \in [0..n -> Nat]
    BY <1>5, <1>6
  <2>2. \A i \in 0..n : total[i] = next(total)[i]
    BY <1>5
  <2>3. QED
    BY <2>1, <2>2 DEF Sums, DelayAfter
<1>8. Delays(n) = total[n]
  BY DEF Delays
<1>9. QED
  BY <1>7, <1>8

LEMMA SumsAgree ==
    ASSUME NEW m \in Nat, NEW n \in Nat, m <= n, NEW f, NEW g, Sums(f, m), Sums(g, n)
    PROVE  f[m] = g[m]
<1> DEFINE Wrong == {i \in 0..m : f[i] # g[i]}
<1> SUFFICES ASSUME Wrong # {} PROVE FALSE
  OBVIOUS
<1>1. PICK least \in Wrong : \A i \in Wrong : least <= i
  <2>1. Wrong \subseteq Nat
    OBVIOUS
  <2> HIDE DEF Wrong
  <2>2. QED
    BY <2>1, LeastNumber
<1>2. least \in 0..m /\ least \in 0..n
  OBVIOUS
<1>3. least # 0
  BY <1>1, <1>2 DEF Sums
<1>4. least - 1 \in 0..m /\ ~ (least <= least - 1)
  BY <1>2, <1>3
<1>5. f[least - 1] = g[least - 1]
  BY <1>1, <1>4
<1>6. f[least] = g[least]
  BY <1>2, <1>3, <1>5 DEF Sums
<1>7. QED
  BY <1>1, <1>6

LEMMA DelaysSteps ==
    ASSUME NEW n \in Nat
    PROVE  /\ Delays(n) \in Nat
           /\ Delays(0) = 0
           /\ Delays(n + 1) = Delays(n) + DelayAfter(n + 1)
<1>1. PICK f : Sums(f, n) /\ Delays(n) = f[n]
  BY DelaysAreSums
<1>2. PICK g : Sums(g, n + 1) /\ Delays(n + 1) = g[n + 1]
  <2>1. n + 1 \in Nat
    OBVIOUS
  <2>2. QED
    BY <2>1, DelaysAreSums
<1>3. PICK h : Sums(h, 0) /\ Delays(0) = h[0]
  BY DelaysAreSums
<1>4. f[n] = g[n]
  BY <1>1, <1>2, SumsAgree
<1>5. QED
  BY <1>1, <1>2, <1>3, <1>4 DEF Sums

LEMMA DelaysGrow ==
    ASSUME NEW m \in Nat, NEW n \in Nat, m <= n
    PROVE  Delays(m) <= Delays(n)
<1> DEFINE Wrong == {i \in Nat : m <= i /\ ~ (Delays(m) <= Delays(i))}
<1> SUFFICES ASSUME Wrong # {} PROVE FALSE
  OBVIOUS
<1>1. PICK least \in Wrong : \A i \in Wrong : least <= i
  <2>1. Wrong \subseteq Nat
    OBVIOUS
  <2> HIDE DEF Wrong
  <2>2. QED
    BY <2>1, LeastNumber
<1>2. least # m
  BY DelaysSteps
<1>3. least - 1 \in Nat /\ m <= least - 1 /\ ~ (least <= least - 1)
  BY <1>2
<1>4. Delays(m) <= Delays(least - 1)
  BY <1>1, <1>3
<1>5. Delays(least) = Delays(least - 1) + DelayAfter(least)
  BY <1>3, DelaysSteps
<1>6. Delays(m) \in Nat /\ Delays(least - 1) \in Nat /\ DelayAfter(least) \in Nat
  BY <1>3, DelaysSteps, DelayType, ReferenceRetryAssumption
<1>7. QED
  BY <1>1, <1>4, <1>5, <1>6


-----------------------------------------------------------------------------
(* The times of a request.                                                 *)

LEMMA Constants ==
    /\ {BatchSize, Poll, RetryBase, TTL, MaxAttempts} \subseteq Nat \ {0}
    /\ {RetryMax, Skew, MaxFaults, MaxTime} \subseteq Nat
    /\ None \notin Requests /\ None \notin Int /\ Workers # {}
    /\ Times \subseteq Int
<1>1. MaxInt \in Int
  BY WordAssumption DEF MaxInt
<1>2. RetryMax \in Nat
  BY <1>1, ReferenceRetryAssumption
<1>3. QED
  BY <1>2, ReferenceRetryAssumption DEF Times

LEMMA TimesOfAttempts ==
    ASSUME NEW n \in Nat
    PROVE  /\ Earliest(n) \in Int /\ Latest(n) \in Int
           /\ Earliest(0) = 0 /\ Latest(0) = 0
           /\ Earliest(n + 1) = Earliest(n) + DelayAfter(n + 1) - Skew
           /\ Latest(n) <= Latest(n + 1)
           /\ \A time \in Int :
                time <= Latest(n) + Poll /\ time < TTL + Skew =>
                    time + Skew + DelayAfter(n + 1) <= Latest(n + 1)
<1> DEFINE d == DelayAfter(n + 1)
<1>1. /\ Delays(n) \in Nat /\ Delays(n + 1) = Delays(n) + d
      /\ Delays(0) = 0 /\ d \in 1..RetryMax
  <2>1. n + 1 \in Int
    OBVIOUS
  <2>2. QED
    BY <2>1, DelaysSteps, DelayType
<1>2. Poll \in Nat /\ Skew \in Nat /\ TTL \in Nat /\ RetryMax \in Nat
  BY Constants
<1>3. /\ n * Skew \in Nat /\ (n + 1) * Skew = n * Skew + Skew /\ 0 * Skew = 0
      /\ n * (Poll + Skew) \in Nat /\ (n + 1) * (Poll + Skew) = n * (Poll + Skew) + (Poll + Skew)
      /\ 0 * (Poll + Skew) = 0
  BY <1>2
<1> HIDE DEF d
<1>4. /\ Earliest(n) \in Int /\ Earliest(0) = 0
      /\ Earliest(n + 1) = Earliest(n) + d - Skew
  BY <1>1, <1>2, <1>3 DEF Earliest
<1>5. /\ Latest(n) \in Int /\ Latest(0) = 0 /\ Latest(n) <= Latest(n + 1)
  BY <1>1, <1>2, <1>3 DEF Latest, Least
<1>6. ASSUME NEW time \in Int, time <= Latest(n) + Poll, time < TTL + Skew
      PROVE  time + Skew + d <= Latest(n + 1)
  BY <1>1, <1>2, <1>3, <1>6 DEF Latest, Least
<1>7. QED
  BY <1>4, <1>5, <1>6 DEF d

\* The bound of WaitBounded is the latest time of the last attempt.
LEMMA LatestGrows ==
    ASSUME NEW n \in 0..(MaxAttempts - 1)
    PROVE  /\ Latest(n) <= Latest(MaxAttempts - 1)
           /\ Latest(MaxAttempts - 1) \in Int
<1>1. MaxAttempts - 1 \in Nat /\ n \in Nat /\ n <= MaxAttempts - 1
  BY Constants
<1> DEFINE k == MaxAttempts - 1
<1>2. Delays(n) <= Delays(k) /\ Delays(n) \in Nat /\ Delays(k) \in Nat
  BY <1>1, DelaysGrow, DelaysSteps
<1>3. Poll + Skew \in Nat /\ TTL + RetryMax + 2 * Skew \in Nat
  BY Constants
<1>4. n * (Poll + Skew) <= k * (Poll + Skew)
  <2>1. k - n \in Nat /\ (k - n) * (Poll + Skew) \in Nat
    BY <1>1, <1>3
  <2>2. k * (Poll + Skew) = n * (Poll + Skew) + (k - n) * (Poll + Skew)
    BY <1>1, <1>3
  <2>3. n * (Poll + Skew) \in Nat /\ k * (Poll + Skew) \in Nat
    BY <1>1, <1>3
  <2>4. QED
    BY <2>1, <2>2, <2>3
<1>5. n * (Poll + Skew) \in Nat /\ k * (Poll + Skew) \in Nat
  BY <1>1, <1>3
<1> HIDE DEF k
<1>6. Latest(n) <= Latest(k) /\ Latest(k) \in Int
  BY <1>2, <1>3, <1>4, <1>5 DEF Latest, Least
<1>7. QED
  BY <1>6 DEF k

-----------------------------------------------------------------------------
(* Batches.                                                                *)

LEMMA SplitBatch ==
    ASSUME NEW R, NEW s \in Seq(R), s # << >>, IsInjective(s)
    PROVE  /\ Head(s) \in R /\ Tail(s) \in Seq(R)
           /\ IsInjective(Tail(s))
           /\ ToSet(s) = {Head(s)} \cup ToSet(Tail(s))
           /\ Head(s) \notin ToSet(Tail(s))
<1>1. /\ Len(s) \in Nat \ {0} /\ DOMAIN s = 1..Len(s) /\ Head(s) = s[1]
      /\ Tail(s) \in Seq(R) /\ Len(Tail(s)) = Len(s) - 1
      /\ DOMAIN Tail(s) = 1..Len(Tail(s))
      /\ \A i \in 1..Len(Tail(s)) : Tail(s)[i] = s[i + 1]
  BY HeadTailProperties
<1>2. \A i \in DOMAIN Tail(s) : i + 1 \in DOMAIN s /\ Tail(s)[i] = s[i + 1] /\ i + 1 # 1
  BY <1>1
<1>3. \A i \in DOMAIN s : i = 1 \/ (i - 1 \in DOMAIN Tail(s) /\ s[i] = Tail(s)[i - 1])
  BY <1>1
<1>4. 1 \in DOMAIN s /\ Head(s) \in R
  BY <1>1
<1>5. IsInjective(Tail(s))
  BY <1>1, <1>2 DEF IsInjective
<1>6. ToSet(s) = {Head(s)} \cup ToSet(Tail(s))
  <2> DEFINE tail == Tail(s)
             first == Head(s)
  <2>1. /\ \A i \in DOMAIN tail : i + 1 \in DOMAIN s /\ tail[i] = s[i + 1]
        /\ \A i \in DOMAIN s : i = 1 \/ (i - 1 \in DOMAIN tail /\ s[i] = tail[i - 1])
        /\ 1 \in DOMAIN s /\ first = s[1]
    BY <1>1, <1>2, <1>3, <1>4
  <2> HIDE DEF tail, first
  <2>2. ToSet(s) \subseteq {first} \cup ToSet(tail)
    BY <2>1 DEF ToSet
  <2>3. {first} \cup ToSet(tail) \subseteq ToSet(s)
    BY <2>1 DEF ToSet
  <2>4. QED
    BY <2>2, <2>3 DEF tail, first
<1>7. Head(s) \notin ToSet(Tail(s))
  BY <1>1, <1>2, <1>4 DEF ToSet, IsInjective
<1>8. QED
  BY <1>1, <1>4, <1>5, <1>6, <1>7

LEMMA ClaimedBatch ==
    ASSUME NEW b \in Batches
    PROVE  b \in Seq(Requests) /\ IsInjective(b) /\ ToSet(b) \subseteq Due
<1>1. b \in SeqOf(Due, BatchSize) /\ IsInjective(b)
  BY DEF Batches
<1>2. PICK m \in 0..BatchSize : b \in [1..m -> Due]
  BY <1>1 DEF SeqOf
<1>3. m \in Nat /\ Due \subseteq Requests
  BY <1>2, Constants DEF Due
<1>4. b \in Seq(Requests) /\ ToSet(b) \subseteq Due
  BY <1>2, <1>3 DEF ToSet
<1>5. QED
  BY <1>1, <1>4


-----------------------------------------------------------------------------
(* Type correctness.                                                       *)

LEMMA InitRetry == Init => RetryInv
<1> SUFFICES ASSUME Init PROVE RetryInv
  OBVIOUS
<1>1. /\ 0 \in 0..MaxTime /\ 0 \in 0..MaxFaults /\ 0 \in 0..MaxAttempts
      /\ {-Skew, Skew} \subseteq -Skew..Skew /\ << >> \in Seq(Requests)
  BY Constants
<1>2. \A r \in Requests : rows[r].status = "ABSENT" /\ rows[r] \in Row /\ endedAt[r] = None
  BY <1>1 DEF Init, Row, Statuses
<1>3. TypeOK
  BY <1>1, <1>2 DEF Init, TypeOK, Waiting
<1>4. RowsRight
  BY <1>2 DEF RowsRight, RowRight, Scheduled
<1>5. \A w \in Workers : Held(w) = {} /\ Written(w) = {} /\ batch[w] = << >> /\ writes[w] = {}
  BY DEF Init, Held, Written, ToSet
<1>6. WorkersRight
  BY <1>5 DEF WorkersRight, HoldsRight, IsInjective
<1>7. Prompt
  BY <1>2 DEF Prompt, Waiting, Init
<1>8. Patience /\ WaitBounded
  BY <1>2 DEF Patience, WaitBounded
<1>9. QED
  BY <1>3, <1>4, <1>6, <1>7, <1>8 DEF RetryInv

\* What a worker holds.
LEMMA HeldRows ==
    ASSUME TypeOK, WorkersRight, NEW w \in Workers
    PROVE  /\ Held(w) \subseteq Requests /\ Written(w) \subseteq Held(w)
           /\ \A r \in Held(w) : Waiting(r) /\ rows[r].nextAt <= now
           /\ Held(w) # {} => pc[w] = "process"
<1>1. HoldsRight(w) /\ batch[w] \in Seq(Requests) /\ writes[w] \subseteq [id : Requests, row : Row]
  BY DEF TypeOK, WorkersRight
<1>2. ToSet(batch[w]) \subseteq Requests
  BY <1>1 DEF ToSet
<1>3. Written(w) \subseteq Requests
  BY <1>1 DEF Written
<1>4. Held(w) # {} => pc[w] = "process"
  BY <1>1 DEF HoldsRight, Held, Written, ToSet
<1>5. QED
  BY <1>1, <1>2, <1>3, <1>4 DEF HoldsRight, Held

\* A row that waits, and its times.
LEMMA WaitingRow ==
    ASSUME TypeOK, RowsRight, NEW r \in Requests, Waiting(r)
    PROVE  /\ rows[r].attempts \in Nat /\ rows[r].attempts < MaxAttempts
           /\ rows[r].pendingAt \in Times /\ rows[r].nextAt \in Times
           /\ rows[r].pendingAt \in Int /\ rows[r].nextAt \in Int
           /\ rows[r].nextAt >= rows[r].pendingAt + Earliest(rows[r].attempts)
           /\ faults = 0 => rows[r].nextAt <= rows[r].pendingAt + Latest(rows[r].attempts)
<1> DEFINE row == rows[r]
<1>1. row \in Row /\ Scheduled(row) /\ row.status = "PENDING_REFERENCE"
  BY DEF TypeOK, RowsRight, RowRight, Waiting
<1> HIDE DEF row
<1>2. Times \subseteq Int /\ MaxAttempts \in Nat
  BY Constants
<1>3. row.attempts \in Nat /\ row.pendingAt \in Times \cup {None} /\ row.nextAt \in Times \cup {None}
  BY <1>1, <1>2 DEF Row
<1>4. /\ row.attempts < MaxAttempts /\ row.pendingAt # None /\ row.nextAt # None
      /\ row.nextAt >= row.pendingAt + Earliest(row.attempts)
      /\ faults = 0 => row.nextAt <= row.pendingAt + Latest(row.attempts)
  BY <1>1 DEF Scheduled
<1>5. QED
  BY <1>2, <1>3, <1>4 DEF row

\* What processRecord writes of the row it has come to.
LEMMA ProcessedRight ==
    ASSUME RetryInv, NEW w \in Workers, NEW r \in Held(w)
    PROVE  /\ Processed(w, r) \in Row
           /\ Scheduled(Processed(w, r)) /\ Follows(r, Processed(w, r))
<1> DEFINE a == rows[r].attempts
           p == rows[r].pendingAt
           d == DelayAfter(a + 1)
           settled == [rows[r] EXCEPT !.status = "SETTLED", !.nextAt = None]
           rejected == [rows[r] EXCEPT !.status = "REFERENCE_NOT_FOUND", !.attempts = @ + 1,
                                       !.nextAt = None]
           retried == [rows[r] EXCEPT !.attempts = @ + 1, !.nextAt = Clock(w) + d]
<1>0. TypeOK /\ RowsRight /\ WorkersRight /\ Prompt
  BY DEF RetryInv
<1>1. /\ TypeOK /\ RowsRight /\ r \in Requests /\ Waiting(r) /\ rows[r].nextAt <= now
      /\ rows[r] \in Row /\ now \in 0..MaxTime /\ skew[w] \in -Skew..Skew
  <2>1. r \in Requests /\ Waiting(r) /\ rows[r].nextAt <= now
    BY <1>0, HeldRows
  <2>2. QED
    BY <1>0, <2>1 DEF TypeOK
<1>2. /\ a \in Nat /\ a < MaxAttempts /\ a + 1 \in Int
      /\ p \in Int /\ p \in Times /\ rows[r].nextAt \in Int
      /\ rows[r].nextAt >= p + Earliest(a)
  <2>1. /\ a \in Nat /\ a < MaxAttempts /\ p \in Times /\ rows[r].nextAt \in Times
        /\ rows[r].nextAt >= p + Earliest(a)
    BY <1>1, WaitingRow
  <2>2. p \in Int /\ rows[r].nextAt \in Int
    BY <2>1, Constants
  <2>3. a + 1 \in Int
    BY <2>1
  <2>4. QED
    BY <2>1, <2>2, <2>3
<1>3. d \in 1..RetryMax
  BY <1>2, DelayType
<1>4. Clock(w) \in Int /\ now - Skew <= Clock(w) /\ Clock(w) <= now + Skew
  BY <1>1, Constants DEF Clock
<1>5. Clock(w) + d \in Times
  BY <1>1, <1>3, <1>4, Constants DEF Times
<1>6. Expired(w, r) <=> Clock(w) >= p + TTL
  BY DEF Expired
<1>7. Processed(w, r) = IF found[r] THEN settled ELSE IF GivesUp(w, r) THEN rejected ELSE retried
  BY DEF Processed, Delay, DelayAfter
<1>8. CASE found[r]
  <2>1. Processed(w, r) = settled
    BY <1>7, <1>8
  <2>2. settled \in Row /\ settled.status = "SETTLED" /\ settled.pendingAt = p /\ settled.attempts = a
    BY <1>1 DEF Row, Statuses
  <2>3. a + 0 = a
    BY <1>2
  <2>4. QED
    BY <2>1, <2>2, <2>3 DEF Scheduled, Follows
<1>9. CASE ~found[r] /\ GivesUp(w, r)
  <2>1. Processed(w, r) = rejected
    BY <1>7, <1>9
  <2>2. a + 1 \in 0..MaxAttempts
    BY <1>2, Constants
  <2>3. /\ rejected \in Row /\ rejected.status = "REFERENCE_NOT_FOUND"
        /\ rejected.pendingAt = p /\ rejected.attempts = a + 1
    BY <1>1, <2>2 DEF Row, Statuses
  <2>4. a + 1 = MaxAttempts \/ now >= p + TTL - Skew
    BY <1>1, <1>2, <1>4, <1>6, <1>9, Constants DEF GivesUp
  <2>5. QED
    BY <1>9, <2>1, <2>3, <2>4 DEF Scheduled, Follows
<1>10. CASE ~found[r] /\ ~GivesUp(w, r)
  <2>1. Processed(w, r) = retried
    BY <1>7, <1>10
  <2>2. a + 1 \in 0..MaxAttempts /\ a + 1 < MaxAttempts /\ Clock(w) < p + TTL
    BY <1>2, <1>4, <1>6, <1>10, Constants DEF GivesUp
  <2>3. /\ retried \in Row /\ retried.status = "PENDING_REFERENCE"
        /\ retried.pendingAt = p /\ retried.attempts = a + 1 /\ retried.nextAt = Clock(w) + d
    BY <1>1, <1>5, <2>2 DEF Row, Statuses, Waiting
  <2>4. Clock(w) + d >= p + Earliest(a + 1)
    <3>1. Earliest(a) \in Int /\ Earliest(a + 1) = Earliest(a) + d - Skew
      BY <1>2, TimesOfAttempts
    <3>2. QED
      BY <1>1, <1>2, <1>3, <1>4, <3>1, Constants
  <2>5. faults = 0 => Clock(w) + d <= p + Latest(a + 1)
    <3> SUFFICES ASSUME faults = 0 PROVE Clock(w) + d <= p + Latest(a + 1)
      OBVIOUS
    <3>1. now <= p + Latest(a) + Poll
      BY <1>0, <1>1 DEF Prompt
    <3>2. now < p + TTL + Skew
      BY <1>1, <1>2, <1>4, <2>2, Constants
    <3>3. Latest(a) \in Int /\ Latest(a + 1) \in Int
      <4>1. a + 1 \in Nat
        BY <1>2
      <4>2. QED
        BY <1>2, <4>1, TimesOfAttempts
    <3>4. now - p \in Int /\ now - p <= Latest(a) + Poll /\ now - p < TTL + Skew
      BY <1>1, <1>2, <3>1, <3>2, <3>3, Constants
    <3>5. now - p + Skew + d <= Latest(a + 1)
      BY <1>2, <3>4, TimesOfAttempts
    <3>6. QED
      BY <1>1, <1>2, <1>3, <1>4, <3>3, <3>5, Constants
  <2>6. p # None /\ Clock(w) + d # None
    BY <1>2, <1>5, Constants
  <2>7. QED
    BY <2>1, <2>2, <2>3, <2>4, <2>5, <2>6 DEF Scheduled, Follows
<1>11. QED
  BY <1>8, <1>9, <1>10


\* What a commit makes of a row.
Concluded(r) ==
    /\ Scheduled(rows'[r]) /\ Follows(r, rows'[r])
    /\ endedAt'[r] = IF rows'[r].status = "PENDING_REFERENCE" THEN endedAt[r] ELSE now

LEMMA Published ==
    ASSUME RetryInv, NEW w \in Workers, Publish(w)
    PROVE  /\ rows' \in [Requests -> Row]
           /\ endedAt' \in [Requests -> 0 .. MaxTime \cup {None}]
           /\ \A r \in Requests \ Written(w) : rows'[r] = rows[r] /\ endedAt'[r] = endedAt[r]
           /\ \A r \in Written(w) : Concluded(r)
<1> DEFINE last(r) == CHOOSE u \in writes[w] : u.id = r
<1>1. TypeOK /\ WorkersRight /\ HoldsRight(w)
  BY DEF RetryInv, WorkersRight
<1>2. /\ rows \in [Requests -> Row] /\ now \in 0..MaxTime
      /\ endedAt \in [Requests -> 0 .. MaxTime \cup {None}]
      /\ writes[w] \subseteq [id : Requests, row : Row]
      /\ Written(w) \subseteq Requests
  BY <1>1, HeldRows DEF TypeOK
<1>3. ASSUME NEW r \in Written(w)
      PROVE  last(r) \in writes[w] /\ last(r).id = r
  <2>1. \E u \in writes[w] : u.id = r
    BY DEF Written
  <2>2. QED
    BY <2>1
<1>4. ASSUME NEW r \in Written(w)
      PROVE  last(r).row \in Row /\ Scheduled(last(r).row) /\ Follows(r, last(r).row)
  <2> HIDE DEF last
  <2>1. last(r) \in writes[w] /\ last(r).id = r
    BY <1>3
  <2>2. QED
    BY <1>1, <1>2, <2>1 DEF HoldsRight
<1>5. /\ rows' = [r \in Requests |-> IF r \in Written(w) THEN last(r).row ELSE rows[r]]
      /\ endedAt' = [r \in Requests |->
                       IF r \in Written(w) /\ rows'[r].status # "PENDING_REFERENCE"
                       THEN now ELSE endedAt[r]]
  BY DEF Publish
<1> HIDE DEF last
<1>6. /\ rows' \in [Requests -> Row]
      /\ endedAt' \in [Requests -> 0 .. MaxTime \cup {None}]
      /\ \A r \in Requests \ Written(w) : rows'[r] = rows[r] /\ endedAt'[r] = endedAt[r]
  BY <1>2, <1>4, <1>5
<1>7. ASSUME NEW r \in Written(w) PROVE Concluded(r)
  <2>1. rows'[r] = last(r).row
    BY <1>2, <1>5
  <2>2. endedAt'[r] = IF rows'[r].status = "PENDING_REFERENCE" THEN endedAt[r] ELSE now
    BY <1>2, <1>5
  <2>3. QED
    BY <1>4, <2>1, <2>2 DEF Concluded
<1>8. QED
  BY <1>6, <1>7

\* The types but for the rows.
WorkersTyped ==
    /\ now \in 0 .. MaxTime
    /\ skew \in [Workers -> -Skew .. Skew]
    /\ found \in [Requests -> BOOLEAN]
    /\ pc \in [Workers -> {"poll", "process", "sleep", "down"}]
    /\ wake \in [Workers -> Nat]
    /\ batch \in [Workers -> Seq(Requests)]
    /\ writes \in [Workers -> SUBSET [id : Requests, row : Row]]
    /\ faults \in 0 .. MaxFaults

RowsTyped ==
    /\ rows \in [Requests -> Row]
    /\ \A r \in Requests : Waiting(r) =>
         /\ rows[r].attempts < MaxAttempts
         /\ rows[r].pendingAt # None /\ rows[r].nextAt # None
    /\ endedAt \in [Requests -> 0 .. MaxTime \cup {None}]

LEMMA PublishedType ==
    ASSUME RetryInv, NEW w \in Workers, Publish(w)
    PROVE  RowsTyped'
<1>1. TypeOK /\ WorkersRight
  BY DEF RetryInv
<1>2. \A r \in Requests \ Written(w) : rows'[r] = rows[r]
  BY Published
<1>3. \A r \in Written(w) : Scheduled(rows'[r])
  BY Published DEF Concluded
<1>4. rows' \in [Requests -> Row] /\ endedAt' \in [Requests -> 0 .. MaxTime \cup {None}]
  BY Published
<1>5. ASSUME NEW r \in Requests, rows'[r].status = "PENDING_REFERENCE"
      PROVE  /\ rows'[r].attempts < MaxAttempts
             /\ rows'[r].pendingAt # None /\ rows'[r].nextAt # None
  <2>1. CASE r \in Written(w)
    BY <1>3, <1>5, <2>1 DEF Scheduled
  <2>2. CASE r \notin Written(w)
    BY <1>1, <1>2, <1>5, <2>2 DEF TypeOK, Waiting
  <2>3. QED
    BY <2>1, <2>2
<1>6. QED
  BY <1>4, <1>5 DEF RowsTyped, Waiting

LEMMA RetryTypes == RetryInv /\ [Next]_vars => TypeOK'
<1> SUFFICES ASSUME RetryInv, [Next]_vars PROVE TypeOK'
  OBVIOUS
<1>1. /\ TypeOK /\ RowsRight /\ WorkersRight /\ RowsTyped /\ WorkersTyped
  BY DEF RetryInv, TypeOK, RowsTyped, WorkersTyped
<1>2. RowsTyped' /\ WorkersTyped' => TypeOK'
  BY DEF TypeOK, RowsTyped, WorkersTyped, Waiting
<1>3. rows' = rows /\ endedAt' = endedAt => RowsTyped'
  BY <1>1 DEF RowsTyped, Waiting
<1>4. /\ << >> \in Seq(Requests) /\ now \in Nat /\ Poll \in Nat /\ RetryBase \in Nat
      /\ MaxFaults \in Nat /\ MaxTime \in Nat
  BY <1>1, Constants DEF WorkersTyped
<1> DEFINE Labels == {"poll", "process", "sleep", "down"}
<1>a. ASSUME NEW w \in Workers, NEW time \in Nat, Sleep(w, time)
      PROVE  pc' \in [Workers -> Labels] /\ wake' \in [Workers -> Nat]
  <2>1. now + time \in Nat
    BY <1>4
  <2>2. wake' = [wake EXCEPT ![w] = now + time] /\ pc' = [pc EXCEPT ![w] = "sleep"]
    BY <1>a DEF Sleep, Goto
  <2>3. wake \in [Workers -> Nat] /\ pc \in [Workers -> Labels]
    BY <1>1 DEF WorkersTyped
  <2>4. QED
    BY <2>1, <2>2, <2>3
<1>b. ASSUME NEW w \in Workers, EndTransaction(w)
      PROVE  /\ batch' \in [Workers -> Seq(Requests)]
             /\ writes' \in [Workers -> SUBSET [id : Requests, row : Row]]
  BY <1>1, <1>4, <1>b DEF WorkersTyped, EndTransaction
<1>c. ASSUME Failure PROVE faults' \in 0..MaxFaults
  BY <1>1, <1>4, <1>c DEF WorkersTyped, Failure
<1>5. ASSUME NEW r \in Requests, Arrive(r) PROVE TypeOK'
  <2> DEFINE row == [status |-> "PENDING_REFERENCE", attempts |-> 0,
                     pendingAt |-> now, nextAt |-> now]
  <2>1. /\ row \in Row /\ row.attempts < MaxAttempts
        /\ row.pendingAt # None /\ row.nextAt # None
    <3>1. now \in 0..MaxTime
      BY <1>1 DEF WorkersTyped
    <3>2. now \in Times /\ 0 \in 0..MaxAttempts /\ 0 < MaxAttempts /\ now # None
      BY <3>1, Constants DEF Times
    <3>3. QED
      BY <3>2 DEF Row, Statuses
  <2> HIDE DEF row
  <2>2. rows' = [rows EXCEPT ![r] = row]
    BY <1>5 DEF Arrive, row
  <2>3. RowsTyped'
    BY <1>1, <1>5, <2>1, <2>2 DEF RowsTyped, Waiting, Arrive
  <2>4. WorkersTyped'
    BY <1>1, <1>5 DEF WorkersTyped, Arrive, workers
  <2>5. QED
    BY <1>2, <2>3, <2>4
<1>6. ASSUME NEW r \in Requests, ReferenceCommits(r) PROVE TypeOK'
  BY <1>1, <1>2, <1>3, <1>6 DEF WorkersTyped, ReferenceCommits, workers
<1>7. ASSUME NEW w \in Workers, Claim(w) PROVE TypeOK'
  <2>1. batch' \in [Workers -> Seq(Requests)]
    BY <1>1, <1>7, ClaimedBatch DEF WorkersTyped, Claim
  <2>2. /\ pc' \in [Workers -> {"poll", "process", "sleep", "down"}]
        /\ wake' \in [Workers -> Nat]
    <3>1. CASE Sleep(w, Poll)
      BY <1>4, <1>a, <3>1
    <3>2. CASE Goto(w, "process") /\ UNCHANGED wake
      BY <1>1, <3>2 DEF WorkersTyped, Goto
    <3>3. QED
      BY <1>7, <3>1, <3>2 DEF Claim
  <2>3. QED
    BY <1>1, <1>2, <1>3, <1>7, <2>1, <2>2 DEF WorkersTyped, Claim
<1>8. ASSUME NEW w \in Workers, Process(w) PROVE TypeOK'
  <2> DEFINE r == Head(batch[w])
  <2>1. /\ batch[w] \in Seq(Requests) /\ batch[w] # << >> /\ IsInjective(batch[w])
    BY <1>1, <1>8 DEF WorkersTyped, WorkersRight, HoldsRight, Process
  <2>2. r \in Requests /\ Tail(batch[w]) \in Seq(Requests) /\ r \in Held(w)
    BY <2>1, SplitBatch DEF Held
  <2>3. Processed(w, r) \in Row
    BY <2>2, ProcessedRight
  <2> HIDE DEF r
  <2>4. writes' = [writes EXCEPT ![w] = @ \cup {[id |-> r, row |-> Processed(w, r)]}]
    BY <1>8 DEF Process, r
  <2>5. writes' \in [Workers -> SUBSET [id : Requests, row : Row]]
    <3>1. [id |-> r, row |-> Processed(w, r)] \in [id : Requests, row : Row]
      BY <2>2, <2>3
    <3>2. QED
      BY <1>1, <2>4, <3>1 DEF WorkersTyped
  <2>6. batch' \in [Workers -> Seq(Requests)]
    BY <1>1, <1>8, <2>2 DEF WorkersTyped, Process
  <2>7. QED
    BY <1>1, <1>2, <1>3, <1>8, <2>5, <2>6 DEF WorkersTyped, Process
<1>9. ASSUME NEW w \in Workers, CommitBatch(w) \/ CommitReplyLost(w) PROVE TypeOK'
  <2>1. RowsTyped'
    BY <1>9, PublishedType DEF CommitBatch, CommitReplyLost
  <2>2. CASE CommitBatch(w)
    <3>1. pc' \in [Workers -> Labels]
      BY <1>1, <2>2 DEF WorkersTyped, CommitBatch, Goto
    <3>2. WorkersTyped'
      BY <1>1, <1>b, <2>2, <3>1 DEF WorkersTyped, CommitBatch
    <3>3. QED
      BY <1>2, <2>1, <3>2
  <2>3. CASE CommitReplyLost(w)
    <3>1. pc' \in [Workers -> Labels] /\ wake' \in [Workers -> Nat]
      BY <1>4, <1>a, <2>3 DEF CommitReplyLost
    <3>2. WorkersTyped'
      BY <1>1, <1>b, <1>c, <2>3, <3>1 DEF WorkersTyped, CommitReplyLost
    <3>3. QED
      BY <1>2, <2>1, <3>2
  <2>4. QED
    BY <1>9, <2>2, <2>3
<1>10. ASSUME NEW w \in Workers, WakeUp(w) PROVE TypeOK'
  BY <1>1, <1>2, <1>3, <1>10 DEF WorkersTyped, WakeUp, Goto
<1>11. ASSUME NEW w \in Workers, RollBack(w) \/ Crash(w) PROVE TypeOK'
  <2>1. CASE RollBack(w)
    <3>1. pc' \in [Workers -> Labels] /\ wake' \in [Workers -> Nat]
      BY <1>4, <1>a, <2>1 DEF RollBack
    <3>2. QED
      BY <1>1, <1>2, <1>3, <1>b, <1>c, <2>1, <3>1 DEF WorkersTyped, RollBack
  <2>2. CASE Crash(w)
    <3>1. pc' \in [Workers -> Labels] /\ wake' \in [Workers -> Nat]
      BY <1>1, <2>2 DEF WorkersTyped, Crash, Goto
    <3>2. QED
      BY <1>1, <1>2, <1>3, <1>b, <1>c, <2>2, <3>1 DEF WorkersTyped, Crash
  <2>3. QED
    BY <1>11, <2>1, <2>2
<1>12. ASSUME NEW w \in Workers, Restart(w) PROVE TypeOK'
  BY <1>1, <1>2, <1>3, <1>12 DEF WorkersTyped, Restart, Goto
<1>13. ASSUME Tick PROVE TypeOK'
  BY <1>1, <1>2, <1>3, <1>4, <1>13 DEF WorkersTyped, Tick, Failure, workers
<1>14. ASSUME UNCHANGED vars PROVE TypeOK'
  BY <1>1, <1>2, <1>3, <1>14 DEF WorkersTyped, vars, workers
<1>15. QED
  BY <1>5, <1>6, <1>7, <1>8, <1>9, <1>10, <1>11, <1>12, <1>13, <1>14 DEF Next


-----------------------------------------------------------------------------
(* What the workers hold.                                                  *)

LEMMA Onward ==
    ASSUME RetryInv, [Next]_vars
    PROVE  /\ now \in Nat /\ now' \in {now, now + 1}
           /\ faults \in Nat /\ faults' \in {faults, faults + 1}
<1>1. now \in Nat /\ faults \in Nat
  BY Constants DEF RetryInv, TypeOK
<1>2. now' \in {now, now + 1} /\ faults' \in {faults, faults + 1}
  BY DEF Next, Arrive, ReferenceCommits, Claim, Process, CommitBatch, WakeUp, RollBack,
         CommitReplyLost, Crash, Restart, Tick, Failure, vars
<1>3. QED
  BY <1>1, <1>2


\* A step in which every worker keeps or drops what it holds.
LEMMA WorkersKept ==
    ASSUME TypeOK, WorkersRight, RowsRight,
           faults' \in {faults, faults + 1}, now' \in {now, now + 1},
           \A w \in Workers :
             \/ batch'[w] = << >> /\ writes'[w] = {}
             \/ /\ batch'[w] = batch[w] /\ writes'[w] = writes[w]
                /\ pc'[w] = "process" \/ pc[w] # "process"
                /\ \A r \in Held(w) : rows'[r] = rows[r]
                /\ \A r \in Written(w) : found'[r] = found[r]
    PROVE  WorkersRight'
<1>1. faults \in Nat /\ now \in Nat
  BY Constants DEF TypeOK
<1> DEFINE Drops(w) == batch'[w] = << >> /\ writes'[w] = {}
<1>2. ASSUME NEW w \in Workers, Drops(w)
      PROVE  Held(w)' = {} /\ HoldsRight(w)'
  BY <1>2 DEF Held, Written, ToSet, HoldsRight, IsInjective
<1>3. ASSUME NEW w \in Workers, ~Drops(w)
      PROVE  Held(w)' = Held(w) /\ HoldsRight(w)'
  <2>1. /\ batch'[w] = batch[w] /\ writes'[w] = writes[w]
        /\ pc'[w] = "process" \/ pc[w] # "process"
        /\ \A r \in Held(w) : rows'[r] = rows[r]
        /\ \A r \in Written(w) : found'[r] = found[r]
    BY <1>3
  <2>2. Written(w)' = Written(w) /\ Held(w)' = Held(w) /\ ToSet(batch[w])' = ToSet(batch[w])
    BY <2>1 DEF Held, Written, ToSet
  <2>3. HoldsRight(w)
    BY DEF WorkersRight
  <2>4. ASSUME NEW r \in Held(w)
        PROVE  Waiting(r)' /\ rows'[r].nextAt <= now'
    <3>1. r \in Requests /\ Waiting(r) /\ rows[r].nextAt <= now
      BY HeldRows
    <3>2. rows[r].nextAt \in Int
      BY <3>1, WaitingRow, Constants
    <3>3. QED
      BY <1>1, <2>1, <3>1, <3>2 DEF Waiting
  <2>5. ASSUME NEW u \in writes[w]
        PROVE  Scheduled(u.row)' /\ Follows(u.id, u.row)'
    <3>1. Scheduled(u.row) /\ Follows(u.id, u.row)
      BY <2>3 DEF HoldsRight
    <3>2. u.id \in Held(w) /\ u.id \in Written(w)
      BY DEF Held, Written
    <3>3. rows'[u.id] = rows[u.id] /\ found'[u.id] = found[u.id]
      BY <2>1, <3>2
    <3>4. Scheduled(u.row)'
      BY <1>1, <3>1 DEF Scheduled
    <3>5. rows[u.id].pendingAt \in Int
      <4>1. u.id \in Requests /\ Waiting(u.id)
        BY <3>2, HeldRows
      <4>2. QED
        BY <4>1, WaitingRow
    <3>6. now >= u.row.pendingAt + TTL - Skew => now' >= u.row.pendingAt + TTL - Skew
      <4>1. u.row.pendingAt \in Int
        BY <3>1, <3>5 DEF Follows
      <4>2. PICK due : due = u.row.pendingAt + TTL - Skew
        OBVIOUS
      <4>3. due \in Int /\ now \in Int /\ now' \in Int /\ now <= now'
        BY <1>1, <4>1, <4>2, Constants
      <4>4. QED
        BY <4>2, <4>3
    <3>7. Follows(u.id, u.row)'
      BY <3>1, <3>3, <3>6 DEF Follows
    <3>8. QED
      BY <3>4, <3>7
  <2>6. HoldsRight(w)'
    BY <2>1, <2>2, <2>3, <2>4, <2>5 DEF HoldsRight
  <2>7. QED
    BY <2>2, <2>6
<1>4. \A v, w \in Workers : v # w => Held(v)' \cap Held(w)' = {}
  BY <1>2, <1>3 DEF WorkersRight
<1>5. \A w \in Workers : HoldsRight(w)'
  BY <1>2, <1>3
<1>6. QED
  BY <1>4, <1>5 DEF WorkersRight


\* A claim takes rows that are due and that nobody holds.
LEMMA ClaimKeeps ==
    ASSUME RetryInv, NEW w \in Workers, Claim(w)
    PROVE  WorkersRight'
<1>1. /\ TypeOK /\ RowsRight /\ WorkersRight /\ HoldsRight(w)
      /\ now' \in {now, now + 1} /\ faults' \in {faults, faults + 1}
  BY DEF RetryInv, WorkersRight, Claim
<1>2. /\ writes' = writes /\ rows' = rows /\ now' = now /\ found' = found /\ faults' = faults
      /\ batch[w] = << >> /\ writes[w] = {} /\ Held(w) = {}
  BY <1>1, HeldRows DEF Claim, HoldsRight
<1>3. \A v \in Workers : v # w => pc'[v] = pc[v]
  BY <1>1 DEF Claim, Goto, Sleep, TypeOK
<1>4. CASE batch' = batch
  <2>1. ASSUME NEW v \in Workers, v # w
        PROVE  /\ batch'[v] = batch[v] /\ writes'[v] = writes[v]
               /\ pc'[v] = "process" \/ pc[v] # "process"
               /\ \A r \in Held(v) : rows'[r] = rows[r]
               /\ \A r \in Written(v) : found'[r] = found[r]
    BY <1>2, <1>3, <1>4, <2>1
  <2>2. batch'[w] = << >> /\ writes'[w] = {}
    BY <1>2, <1>4
  <2>3. QED
    BY <1>1, <1>2, <2>1, <2>2, WorkersKept
<1>5. CASE batch' # batch
  <2>1. PICK b \in Batches : batch' = [batch EXCEPT ![w] = b]
    BY <1>5 DEF Claim
  <2>2. pc'[w] = "process"
    BY <1>1, <1>5 DEF Claim, Goto, TypeOK
  <2>3. b \in Seq(Requests) /\ IsInjective(b) /\ ToSet(b) \subseteq Due
    BY ClaimedBatch
  <2>4. batch'[w] = b /\ \A v \in Workers : v # w => batch'[v] = batch[v]
    BY <1>1, <2>1 DEF TypeOK
  <2>5. /\ \A v \in Workers : Written(v)' = Written(v)
        /\ \A v \in Workers : v # w => Held(v)' = Held(v)
        /\ Written(w)' = {} /\ Held(w)' = ToSet(b)
    BY <1>2, <2>4 DEF Written, Held, ToSet
  <2>6. HoldsRight(w)'
    BY <1>2, <2>2, <2>3, <2>4, <2>5 DEF HoldsRight, Due, Waiting
  <2>7. ASSUME NEW v \in Workers, v # w PROVE HoldsRight(v)'
    <3>1. HoldsRight(v)
      BY <1>1 DEF WorkersRight
    <3>2. ToSet(batch[v])' = ToSet(batch[v])
      BY <2>4, <2>7 DEF ToSet
    <3>3. QED
      BY <1>2, <1>3, <2>4, <2>5, <2>7, <3>1, <3>2
         DEF HoldsRight, Waiting, Scheduled, Follows
  <2>8. \A u, v \in Workers : u # v => Held(u)' \cap Held(v)' = {}
    <3>1. \A v \in Workers : ToSet(b) \cap Held(v) = {}
      BY <2>3 DEF Due
    <3>2. QED
      BY <1>1, <2>5, <3>1 DEF WorkersRight
  <2>9. QED
    BY <2>6, <2>7, <2>8 DEF WorkersRight
<1>6. QED
  BY <1>4, <1>5

\* A row that is handled moves from the batch to the writes.
LEMMA ProcessKeeps ==
    ASSUME RetryInv, NEW w \in Workers, Process(w)
    PROVE  WorkersRight'
<1> DEFINE r == Head(batch[w])
           new == [id |-> r, row |-> Processed(w, r)]
<1>1. /\ TypeOK /\ WorkersRight /\ HoldsRight(w)
      /\ batch \in [Workers -> Seq(Requests)] /\ pc[w] = "process" /\ batch[w] # << >>
      /\ writes \in [Workers -> SUBSET [id : Requests, row : Row]]
  BY DEF RetryInv, WorkersRight, TypeOK, Process
<1>2. /\ rows' = rows /\ now' = now /\ found' = found /\ faults' = faults /\ pc' = pc
      /\ batch' = [batch EXCEPT ![w] = Tail(@)]
      /\ writes' = [writes EXCEPT ![w] = @ \cup {new}]
  BY DEF Process
<1>3. /\ r \in Requests /\ IsInjective(Tail(batch[w]))
      /\ ToSet(batch[w]) = {r} \cup ToSet(Tail(batch[w])) /\ r \notin ToSet(Tail(batch[w]))
  BY <1>1, SplitBatch DEF HoldsRight
<1>4. r \in Held(w)
  BY <1>3 DEF Held
<1>5. Scheduled(new.row) /\ Follows(new.id, new.row) /\ new.id = r
  BY <1>4, ProcessedRight
<1> HIDE DEF r, new
<1>6. /\ batch'[w] = Tail(batch[w]) /\ writes'[w] = writes[w] \cup {new}
      /\ \A v \in Workers : v # w => batch'[v] = batch[v] /\ writes'[v] = writes[v]
  BY <1>1, <1>2
<1>7. /\ Written(w)' = Written(w) \cup {r}
      /\ ToSet(batch[w])' = ToSet(Tail(batch[w]))
      /\ Held(w)' = Held(w)
  <2>1. Written(w)' = Written(w) \cup {r}
    BY <1>5, <1>6 DEF Written
  <2>2. ToSet(batch[w])' = ToSet(Tail(batch[w]))
    BY <1>6 DEF ToSet
  <2>3. QED
    BY <1>3, <2>1, <2>2 DEF Held
<1>8. \A v \in Workers : v # w => /\ Written(v)' = Written(v) /\ Held(v)' = Held(v)
                                  /\ ToSet(batch[v])' = ToSet(batch[v])
  BY <1>6 DEF Written, Held, ToSet
<1>9. HoldsRight(w)'
  <2>1. r \notin Written(w)
    BY <1>1, <1>3 DEF HoldsRight
  <2>2. \A u \in writes[w] : u.id # r
    BY <2>1 DEF Written
  <2>3. ToSet(Tail(batch[w])) \cap (Written(w) \cup {r}) = {}
    BY <1>1, <1>3 DEF HoldsRight
  <2>4. ASSUME NEW u \in writes'[w]
        PROVE  /\ Scheduled(u.row)' /\ Follows(u.id, u.row)'
               /\ \A v \in writes'[w] : u.id = v.id => u = v
    <3>1. Scheduled(u.row) /\ Follows(u.id, u.row)
      BY <1>1, <1>5, <1>6 DEF HoldsRight
    <3>2. Scheduled(u.row)' /\ Follows(u.id, u.row)'
      BY <1>2, <3>1 DEF Scheduled, Follows
    <3>3. \A v \in writes'[w] : u.id = v.id => u = v
      BY <1>1, <1>5, <1>6, <2>2 DEF HoldsRight
    <3>4. QED
      BY <3>2, <3>3
  <2>5. \A x \in Held(w) : Waiting(x)' /\ rows'[x].nextAt <= now'
    BY <1>1, <1>2 DEF HoldsRight, Waiting
  <2>6. IsInjective(batch[w])'
    BY <1>3, <1>6 DEF IsInjective
  <2>7. QED
    BY <1>1, <1>2, <1>7, <2>3, <2>4, <2>5, <2>6 DEF HoldsRight
<1>10. ASSUME NEW v \in Workers, v # w PROVE HoldsRight(v)'
  <2>1. HoldsRight(v)
    BY <1>1 DEF WorkersRight
  <2>2. QED
    BY <1>2, <1>6, <1>8, <1>10, <2>1 DEF HoldsRight, Waiting, Scheduled, Follows, IsInjective
<1>11. \A u, v \in Workers : u # v => Held(u)' \cap Held(v)' = {}
  BY <1>1, <1>7, <1>8 DEF WorkersRight
<1>12. QED
  BY <1>9, <1>10, <1>11 DEF WorkersRight

\* What a transaction leaves when it ends: its own rows are free, and those of
\* the others are as they were.
LEMMA EndKeeps ==
    ASSUME RetryInv, NEW w \in Workers, EndTransaction(w), found' = found, now' = now,
           faults' \in {faults, faults + 1},
           \A v \in Workers : v # w => pc'[v] = pc[v],
           rows' = rows \/ Publish(w)
    PROVE  WorkersRight'
<1>1. /\ TypeOK /\ RowsRight /\ WorkersRight
      /\ DOMAIN batch = Workers /\ DOMAIN writes = Workers
  BY DEF RetryInv, TypeOK
<1>2. /\ batch'[w] = << >> /\ writes'[w] = {}
      /\ \A v \in Workers : v # w => batch'[v] = batch[v] /\ writes'[v] = writes[v]
  BY <1>1 DEF EndTransaction
<1>3. \A r \in Requests \ Written(w) : rows'[r] = rows[r]
  BY Published
<1>4. ASSUME NEW v \in Workers, v # w
      PROVE  \A r \in Held(v) : rows'[r] = rows[r]
  BY <1>1, <1>3, <1>4, HeldRows DEF WorkersRight
<1>5. ASSUME NEW v \in Workers
      PROVE  \/ batch'[v] = << >> /\ writes'[v] = {}
             \/ /\ batch'[v] = batch[v] /\ writes'[v] = writes[v]
                /\ pc'[v] = "process" \/ pc[v] # "process"
                /\ \A r \in Held(v) : rows'[r] = rows[r]
                /\ \A r \in Written(v) : found'[r] = found[r]
  BY <1>2, <1>4
<1>6. now' \in {now, now + 1}
  OBVIOUS
<1>7. QED
  BY <1>1, <1>5, <1>6, WorkersKept

LEMMA WorkersStayRight == RetryInv /\ [Next]_vars => WorkersRight'
<1> SUFFICES ASSUME RetryInv, [Next]_vars PROVE WorkersRight'
  OBVIOUS
<1>1. TypeOK /\ RowsRight /\ WorkersRight /\ DOMAIN pc = Workers
  BY DEF RetryInv, TypeOK
<1>2. now' \in {now, now + 1} /\ faults' \in {faults, faults + 1}
  BY Onward
<1> DEFINE Keeps(w) == /\ batch'[w] = batch[w] /\ writes'[w] = writes[w]
                       /\ pc'[w] = "process" \/ pc[w] # "process"
                       /\ \A r \in Held(w) : rows'[r] = rows[r]
                       /\ \A r \in Written(w) : found'[r] = found[r]
<1>3. (\A w \in Workers : Keeps(w)) => WorkersRight'
  BY <1>1, <1>2, WorkersKept
<1> HIDE DEF Keeps
<1>4. ASSUME NEW r \in Requests, Arrive(r) PROVE WorkersRight'
  <2>1. \A w \in Workers : r \notin Held(w)
    BY <1>1, <1>4, HeldRows DEF Arrive, Waiting
  <2>2. \A w \in Workers : Keeps(w)
    BY <1>1, <1>4, <2>1, HeldRows DEF Arrive, workers, Keeps, TypeOK
  <2>3. QED
    BY <1>3, <2>2
<1>5. ASSUME NEW r \in Requests, ReferenceCommits(r) PROVE WorkersRight'
  <2>1. \A w \in Workers : Keeps(w)
    BY <1>1, <1>5, HeldRows DEF ReferenceCommits, workers, Keeps, TypeOK
  <2>2. QED
    BY <1>3, <2>1
<1>6. ASSUME NEW w \in Workers, CommitBatch(w) PROVE WorkersRight'
  <2>1. \A v \in Workers : v # w => pc'[v] = pc[v]
    BY <1>1, <1>6 DEF CommitBatch, Goto
  <2>2. QED
    BY <1>2, <1>6, <2>1, EndKeeps DEF CommitBatch
<1>7. ASSUME NEW w \in Workers, CommitReplyLost(w) PROVE WorkersRight'
  <2>1. \A v \in Workers : v # w => pc'[v] = pc[v]
    BY <1>1, <1>7 DEF CommitReplyLost, Goto, Sleep
  <2>2. QED
    BY <1>2, <1>7, <2>1, EndKeeps DEF CommitReplyLost
<1>8. ASSUME NEW w \in Workers, RollBack(w) \/ Crash(w) PROVE WorkersRight'
  <2>1. \A v \in Workers : v # w => pc'[v] = pc[v]
    BY <1>1, <1>8 DEF RollBack, Crash, Goto, Sleep
  <2>2. EndTransaction(w) /\ found' = found /\ now' = now /\ rows' = rows
    BY <1>8 DEF RollBack, Crash
  <2>3. QED
    BY <1>2, <2>1, <2>2, EndKeeps
<1>9. ASSUME NEW w \in Workers, WakeUp(w) \/ Restart(w) PROVE WorkersRight'
  <2>1. \A v \in Workers : Keeps(v)
    BY <1>1, <1>9 DEF WakeUp, Restart, Goto, Keeps
  <2>2. QED
    BY <1>3, <2>1
<1>10. ASSUME Tick \/ UNCHANGED vars PROVE WorkersRight'
  <2>1. \A v \in Workers : Keeps(v)
    BY <1>10 DEF Tick, vars, workers, Keeps
  <2>2. QED
    BY <1>3, <2>1
<1>11. QED
  BY <1>4, <1>5, <1>6, <1>7, <1>8, <1>9, <1>10, ClaimKeeps, ProcessKeeps DEF Next


-----------------------------------------------------------------------------
(* The rows.                                                               *)

LEMMA RowsStayRight == RetryInv /\ [Next]_vars => RowsRight'
<1> SUFFICES ASSUME RetryInv, [Next]_vars PROVE RowsRight'
  OBVIOUS
<1>1. TypeOK /\ RowsRight /\ WorkersRight
  BY DEF RetryInv
<1>2. faults \in Nat /\ faults' \in {faults, faults + 1} /\ now \in Nat
  BY Onward
<1>3. ASSUME NEW r \in Requests, rows'[r] = rows[r], endedAt'[r] = endedAt[r]
      PROVE  RowRight(r)'
  BY <1>1, <1>2, <1>3 DEF RowsRight, RowRight, Scheduled
<1>4. ASSUME rows' = rows, endedAt' = endedAt PROVE RowsRight'
  BY <1>3, <1>4 DEF RowsRight
<1>5. ASSUME NEW r \in Requests, Arrive(r) PROVE RowsRight'
  <2>1. /\ rows'[r] = [status |-> "PENDING_REFERENCE", attempts |-> 0,
                       pendingAt |-> now, nextAt |-> now]
        /\ endedAt' = endedAt /\ endedAt[r] = None
        /\ \A x \in Requests : x # r => rows'[x] = rows[x]
    BY <1>1, <1>5 DEF Arrive, TypeOK, RowsRight, RowRight
  <2>2. now # None /\ 0 < MaxAttempts /\ Earliest(0) = 0 /\ Latest(0) = 0
    BY <1>2, Constants, TimesOfAttempts
  <2>3. Scheduled(rows[r])'
    BY <1>2, <2>1, <2>2 DEF Scheduled
  <2>4. RowRight(r)'
    BY <2>1, <2>2, <2>3 DEF RowRight
  <2>5. QED
    BY <1>3, <2>1, <2>4 DEF RowsRight
<1>6. ASSUME NEW w \in Workers, Publish(w) PROVE RowsRight'
  <2>1. ASSUME NEW r \in Written(w) PROVE RowRight(r)'
    <3>1. r \in Requests /\ Waiting(r)
      BY <1>1, HeldRows
    <3>2. Concluded(r)
      BY <1>6, Published
    <3>3. Scheduled(rows[r])'
      BY <1>2, <3>2 DEF Concluded, Scheduled
    <3>4. rows'[r].status # "ABSENT" /\ rows'[r].pendingAt # None
      BY <1>1, <3>1, <3>2 DEF Concluded, Follows, TypeOK
    <3>5. endedAt'[r] = None <=> rows'[r].status \in {"ABSENT", "PENDING_REFERENCE"}
      BY <1>1, <1>2, <3>1, <3>2, <3>4, Constants DEF Concluded, RowsRight, RowRight, Waiting
    <3>6. QED
      BY <3>3, <3>4, <3>5 DEF RowRight
  <2>2. ASSUME NEW r \in Requests \ Written(w) PROVE RowRight(r)'
    BY <1>3, <1>6, Published
  <2>3. QED
    BY <2>1, <2>2 DEF RowsRight
<1>7. QED
  BY <1>4, <1>5, <1>6 DEF Next, ReferenceCommits, Claim, Process, CommitBatch, WakeUp, RollBack,
     CommitReplyLost, Crash, Restart, Tick, vars

\* The rows that a step changes: one that arrives, or those of a commit.
LEMMA RowsChange ==
    ASSUME RetryInv, [Next]_vars, NEW r \in Requests, rows'[r] # rows[r] \/ endedAt'[r] # endedAt[r]
    PROVE  \/ /\ rows[r].status = "ABSENT" /\ rows'[r].status = "PENDING_REFERENCE"
              /\ rows'[r].pendingAt = now /\ rows'[r].attempts = 0
           \/ /\ Waiting(r) /\ rows[r].nextAt <= now /\ Concluded(r)
              /\ now' = now /\ found' = found
<1>1. TypeOK /\ WorkersRight
  BY DEF RetryInv
<1>2. ASSUME NEW x \in Requests, Arrive(x)
      PROVE  /\ rows[r].status = "ABSENT" /\ rows'[r].status = "PENDING_REFERENCE"
             /\ rows'[r].pendingAt = now /\ rows'[r].attempts = 0
  BY <1>1, <1>2 DEF Arrive, TypeOK
<1>3. ASSUME NEW w \in Workers, CommitBatch(w) \/ CommitReplyLost(w)
      PROVE  /\ Waiting(r) /\ rows[r].nextAt <= now /\ Concluded(r)
             /\ now' = now /\ found' = found
  <2>1. Publish(w) /\ now' = now /\ found' = found
    BY <1>3 DEF CommitBatch, CommitReplyLost
  <2>2. r \in Written(w)
    BY <2>1, Published
  <2>3. QED
    BY <1>1, <2>1, <2>2, Published, HeldRows
<1>4. QED
  BY <1>2, <1>3 DEF Next, ReferenceCommits, Claim, Process, WakeUp, RollBack, Crash, Restart,
     Tick, vars

LEMMA PatienceStays == RetryInv /\ [Next]_vars => Patience'
<1> SUFFICES ASSUME RetryInv, [Next]_vars,
                    NEW r \in Requests, rows'[r].status = "REFERENCE_NOT_FOUND"
             PROVE  \/ Age(r)' >= TTL - Skew
                    \/ /\ rows'[r].attempts = MaxAttempts
                       /\ Age(r)' >= Delays(MaxAttempts - 1) - (MaxAttempts - 1) * Skew
  BY DEF Patience
<1>1. TypeOK /\ RowsRight /\ WorkersRight /\ Patience /\ now \in Nat
  BY Onward DEF RetryInv
<1>2. CASE rows'[r] = rows[r] /\ endedAt'[r] = endedAt[r]
  <2>1. endedAt[r] # None
    BY <1>1, <1>2 DEF RowsRight, RowRight
  <2>2. Age(r)' = Age(r)
    BY <1>2, <2>1 DEF Age
  <2>3. QED
    BY <1>1, <1>2, <2>2 DEF Patience
<1>3. CASE rows'[r] # rows[r] \/ endedAt'[r] # endedAt[r]
  <2> DEFINE p == rows[r].pendingAt
  <2>1. Waiting(r) /\ rows[r].nextAt <= now /\ Concluded(r)
    BY <1>3, RowsChange
  <2>2. /\ rows'[r].pendingAt = p /\ rows'[r].attempts = rows[r].attempts + 1 /\ endedAt'[r] = now
        /\ rows'[r].attempts = MaxAttempts \/ now >= p + TTL - Skew
    BY <2>1 DEF Concluded, Follows
  <2>3. now # None /\ TTL \in Int /\ Skew \in Int
    BY <1>1, Constants
  <2>4. Age(r)' = now - p
    BY <2>2, <2>3 DEF Age
  <2>5. /\ p \in Int /\ rows[r].nextAt \in Int /\ rows[r].attempts \in Nat
        /\ rows[r].nextAt >= p + Earliest(rows[r].attempts)
    BY <1>1, <2>1, WaitingRow
  <2>6. CASE now >= p + TTL - Skew
    BY <1>1, <2>3, <2>4, <2>5, <2>6
  <2>7. CASE rows'[r].attempts = MaxAttempts
    <3>1. rows[r].attempts = MaxAttempts - 1
      BY <2>2, <2>5, <2>7, Constants
    <3>2. Earliest(MaxAttempts - 1) = Delays(MaxAttempts - 1) - (MaxAttempts - 1) * Skew
      BY DEF Earliest
    <3>3. Earliest(MaxAttempts - 1) \in Int
      BY <2>5, <3>1, TimesOfAttempts
    <3>4. now - p >= Earliest(MaxAttempts - 1)
      BY <1>1, <2>1, <2>5, <3>1, <3>3
    <3>5. QED
      BY <2>4, <2>7, <3>2, <3>4
  <2>8. QED
    BY <2>2, <2>6, <2>7
<1>4. QED
  BY <1>2, <1>3


-----------------------------------------------------------------------------
(* Nothing is late unless something fails.                                 *)

\* By when a request is attempted again.
Deadline(r) == rows[r].pendingAt + Latest(rows[r].attempts) + Poll

LEMMA WaitingDeadline ==
    ASSUME TypeOK, RowsRight, NEW r \in Requests, Waiting(r)
    PROVE  /\ Deadline(r) \in Int
           /\ faults = 0 => rows[r].nextAt + Poll <= Deadline(r)
<1>1. /\ rows[r].attempts \in Nat
      /\ rows[r].pendingAt \in Int /\ rows[r].nextAt \in Int
      /\ faults = 0 => rows[r].nextAt <= rows[r].pendingAt + Latest(rows[r].attempts)
  BY WaitingRow
<1>2. Poll \in Int
  BY Constants
<1>3. Latest(rows[r].attempts) \in Int
  BY <1>1, TimesOfAttempts
<1>4. QED
  BY <1>1, <1>2, <1>3 DEF Deadline

\* A step gives a request a deadline or extends it.
LEMMA DeadlineMoves ==
    ASSUME RetryInv, [Next]_vars, NEW r \in Requests, Waiting(r)'
    PROVE  \/ Waiting(r) /\ Deadline(r) <= Deadline(r)' /\ Deadline(r)' \in Int
           \/ Deadline(r)' = now + Poll
<1>1. TypeOK /\ RowsRight /\ now \in Nat
  BY Onward DEF RetryInv
<1>2. CASE rows'[r] = rows[r]
  <2>1. Waiting(r) /\ Deadline(r)' = Deadline(r)
    BY <1>2 DEF Waiting, Deadline
  <2>2. QED
    BY <1>1, <2>1, WaitingDeadline
<1>3. CASE rows'[r].pendingAt = now /\ rows'[r].attempts = 0
  BY <1>1, <1>3, Constants, TimesOfAttempts DEF Deadline
<1>4. CASE Waiting(r) /\ Concluded(r)
  <2> DEFINE p == rows[r].pendingAt
             a == rows[r].attempts
  <2>1. rows'[r].pendingAt = p /\ rows'[r].attempts = a + 1
    BY <1>4 DEF Concluded, Follows, Waiting
  <2>2. a \in Nat /\ a + 1 \in Nat /\ p \in Int /\ Poll \in Int
    <3>1. a \in Nat /\ p \in Int
      BY <1>1, <1>4, WaitingRow
    <3>2. QED
      BY <3>1, Constants
  <2>3. Latest(a) \in Int /\ Latest(a) <= Latest(a + 1)
    BY <2>2, TimesOfAttempts
  <2>4. Latest(a + 1) \in Int
    BY <2>2, TimesOfAttempts
  <2> HIDE DEF p, a
  <2>5. Deadline(r) = p + Latest(a) + Poll /\ Deadline(r)' = p + Latest(a + 1) + Poll
    BY <2>1 DEF Deadline, p, a
  <2>6. QED
    BY <1>4, <2>2, <2>3, <2>4, <2>5
<1>5. QED
  BY <1>2, <1>3, <1>4, RowsChange

LEMMA PromptStays == RetryInv /\ [Next]_vars => Prompt'
<1> DEFINE Awake(w) == pc[w] \in {"poll", "process"}
<1> SUFFICES ASSUME RetryInv, [Next]_vars, faults' = 0
             PROVE  /\ \A w \in Workers :
                         pc'[w] # "down" /\ (pc'[w] = "sleep" => wake'[w] <= now' + Poll)
                    /\ \A r \in Requests : Waiting(r)' =>
                         /\ now' <= Deadline(r)'
                         /\ \E w \in Workers : Awake(w)' \/ wake'[w] <= Deadline(r)'
  BY DEF Prompt, Wakes, Deadline
<1>1. /\ TypeOK /\ RowsRight /\ WorkersRight /\ faults = 0
      /\ now \in Nat /\ now' \in {now, now + 1} /\ Poll \in Nat
  BY Onward, Constants DEF RetryInv
<1>2. /\ \A w \in Workers : pc[w] # "down" /\ (pc[w] = "sleep" => wake[w] <= now + Poll)
      /\ \A r \in Requests : Waiting(r) =>
           now <= Deadline(r) /\ \E w \in Workers : Awake(w) \/ wake[w] <= Deadline(r)
  BY <1>1 DEF RetryInv, Prompt, Wakes, Deadline
<1>3. /\ pc \in [Workers -> {"poll", "process", "sleep", "down"}]
      /\ wake \in [Workers -> Nat]
  BY <1>1 DEF TypeOK
<1>4. ASSUME now' = now, NEW r \in Requests, Waiting(r)'
      PROVE  now' <= Deadline(r)'
  BY <1>1, <1>2, <1>4, DeadlineMoves, WaitingDeadline
<1>5. ASSUME NEW w \in Workers, Awake(w)', now' = now,
             \A v \in Workers : v # w => pc'[v] = pc[v] /\ wake'[v] = wake[v]
      PROVE  /\ \A v \in Workers :
                  pc'[v] # "down" /\ (pc'[v] = "sleep" => wake'[v] <= now' + Poll)
             /\ \E v \in Workers : Awake(v)'
  BY <1>2, <1>5
<1>6. ASSUME pc' = pc, wake' = wake, now' = now, NEW r \in Requests, Waiting(r)'
      PROVE  \E w \in Workers : Awake(w)' \/ wake'[w] <= Deadline(r)'
  <2>1. CASE Waiting(r) /\ Deadline(r) <= Deadline(r)' /\ Deadline(r)' \in Int
    <3>1. PICK w \in Workers : Awake(w) \/ wake[w] <= Deadline(r)
      BY <1>2, <2>1
    <3>2. Deadline(r) \in Int /\ wake[w] \in Int
      BY <1>1, <1>3, <2>1, WaitingDeadline
    <3>3. wake[w] <= Deadline(r) => wake[w] <= Deadline(r)'
      BY <2>1, <3>2
    <3>4. QED
      BY <1>6, <3>1, <3>3
  <2>2. CASE Deadline(r)' = now + Poll
    <3>1. PICK w \in Workers : TRUE
      BY Constants
    <3>2. Awake(w) \/ wake[w] <= now + Poll
      BY <1>2, <1>3, <3>1
    <3>3. QED
      BY <1>6, <2>2, <3>2
  <2>3. QED
    BY <1>6, <2>1, <2>2, DeadlineMoves
<1>7. CASE pc' = pc /\ wake' = wake /\ now' = now
  BY <1>2, <1>4, <1>6, <1>7
<1>8. ASSUME NEW w \in Workers, WakeUp(w) \/ CommitBatch(w)
      PROVE  /\ Awake(w)' /\ now' = now
             /\ \A v \in Workers : v # w => pc'[v] = pc[v] /\ wake'[v] = wake[v]
  BY <1>3, <1>8 DEF WakeUp, CommitBatch, Goto
<1>9. ASSUME NEW w \in Workers, Claim(w), Due # {}
      PROVE  /\ Awake(w)' /\ now' = now
             /\ \A v \in Workers : v # w => pc'[v] = pc[v] /\ wake'[v] = wake[v]
  BY <1>3, <1>9 DEF Claim, Goto
<1>10. ASSUME NEW w \in Workers, Claim(w), Due = {}
       PROVE  /\ \A v \in Workers :
                   pc'[v] # "down" /\ (pc'[v] = "sleep" => wake'[v] <= now' + Poll)
              /\ \A r \in Requests : Waiting(r)' =>
                   /\ now' <= Deadline(r)'
                   /\ \E v \in Workers : Awake(v)' \/ wake'[v] <= Deadline(r)'
  <2>1. /\ pc[w] = "poll" /\ pc'[w] = "sleep" /\ wake'[w] = now + Poll
        /\ now' = now /\ rows' = rows
        /\ \A v \in Workers : v # w => pc'[v] = pc[v] /\ wake'[v] = wake[v]
    BY <1>3, <1>10 DEF Claim, Sleep, Goto
  <2>2. \A v \in Workers :
           pc'[v] # "down" /\ (pc'[v] = "sleep" => wake'[v] <= now' + Poll)
    BY <1>1, <1>2, <2>1
  <2>3. ASSUME NEW r \in Requests, Waiting(r)'
        PROVE  \E v \in Workers : Awake(v)' \/ wake'[v] <= Deadline(r)'
    <3>1. Waiting(r) /\ Deadline(r)' = Deadline(r)
      BY <2>1, <2>3 DEF Waiting, Deadline
    <3>2. CASE \E v \in Workers : r \in Held(v)
      <4>1. PICK v \in Workers : r \in Held(v)
        BY <3>2
      <4>2. pc[v] = "process" /\ v # w
        BY <1>1, <2>1, <4>1, HeldRows
      <4>3. QED
        BY <2>1, <4>2
    <3>3. CASE ~(rows[r].nextAt <= now)
      <4>1. rows[r].nextAt \in Int
        BY <1>1, <3>1, WaitingRow
      <4>2. rows[r].nextAt + Poll <= Deadline(r) /\ Deadline(r) \in Int
        BY <1>1, <3>1, WaitingDeadline
      <4>3. wake'[w] <= Deadline(r)'
        BY <1>1, <2>1, <3>1, <3>3, <4>1, <4>2
      <4>4. QED
        BY <4>3
    <3>4. QED
      BY <1>10, <3>1, <3>2, <3>3 DEF Due
  <2>4. QED
    BY <1>4, <2>1, <2>2, <2>3
<1>11. ASSUME Tick
       PROVE  /\ \A v \in Workers :
                   pc'[v] # "down" /\ (pc'[v] = "sleep" => wake'[v] <= now' + Poll)
              /\ \A r \in Requests : Waiting(r)' =>
                   /\ now' <= Deadline(r)'
                   /\ \E v \in Workers : Awake(v)' \/ wake'[v] <= Deadline(r)'
  <2>1. Busy = {} /\ now' = now + 1 /\ rows' = rows /\ pc' = pc /\ wake' = wake
    BY <1>1, <1>11 DEF Tick, Failure, workers
  <2>2. \A w \in Workers : pc[w] = "sleep" /\ ~(wake[w] <= now) /\ ~Awake(w)
    BY <1>2, <1>3, <2>1 DEF Busy
  <2>3. \A w \in Workers : wake'[w] <= now' + Poll /\ pc'[w] # "down"
    BY <1>1, <1>2, <1>3, <2>1, <2>2
  <2>4. ASSUME NEW r \in Requests, Waiting(r)'
        PROVE  /\ now' <= Deadline(r)'
               /\ \E v \in Workers : wake'[v] <= Deadline(r)'
    <3>1. Waiting(r) /\ Deadline(r)' = Deadline(r) /\ Deadline(r) \in Int
      BY <1>1, <2>1, <2>4, WaitingDeadline DEF Waiting, Deadline
    <3>2. PICK v \in Workers : wake[v] <= Deadline(r)
      BY <1>2, <2>2, <3>1
    <3>3. now + 1 <= Deadline(r)
      BY <1>1, <1>3, <2>2, <3>1, <3>2
    <3>4. QED
      BY <2>1, <3>1, <3>2, <3>3
  <2>5. QED
    BY <2>3, <2>4
<1>12. ~ \E w \in Workers : RollBack(w) \/ CommitReplyLost(w) \/ Crash(w) \/ Restart(w)
  BY <1>1, <1>2 DEF RollBack, CommitReplyLost, Crash, Restart, Failure
<1>13. ASSUME NEW r \in Requests, Arrive(r) \/ ReferenceCommits(r)
       PROVE  pc' = pc /\ wake' = wake /\ now' = now
  BY <1>13 DEF Arrive, ReferenceCommits, workers
<1>14. ASSUME NEW w \in Workers, Process(w)
       PROVE  pc' = pc /\ wake' = wake /\ now' = now
  BY <1>14 DEF Process
<1>15. UNCHANGED vars => pc' = pc /\ wake' = wake /\ now' = now
  BY DEF vars, workers
<1>16. ASSUME NEW w \in Workers, Claim(w) \/ WakeUp(w) \/ CommitBatch(w)
       PROVE  /\ \A v \in Workers :
                   pc'[v] # "down" /\ (pc'[v] = "sleep" => wake'[v] <= now' + Poll)
              /\ \A r \in Requests : Waiting(r)' =>
                   /\ now' <= Deadline(r)'
                   /\ \E v \in Workers : Awake(v)' \/ wake'[v] <= Deadline(r)'
  BY <1>4, <1>5, <1>8, <1>9, <1>10, <1>16
<1>17. QED
  BY <1>7, <1>11, <1>12, <1>13, <1>14, <1>15, <1>16 DEF Next


\* The age of a request that waits, or has just been answered, is bounded by
\* its deadline.
LEMMA WaitStaysBounded == RetryInv /\ [Next]_vars => WaitBounded'
<1> DEFINE Longest == Least(TTL + RetryMax + 2 * Skew,
                            Delays(MaxAttempts - 1) + (MaxAttempts - 1) * (Poll + Skew)) + Poll
<1>0. Longest = Latest(MaxAttempts - 1) + Poll
  BY DEF Latest
<1> HIDE DEF Longest
<1> SUFFICES ASSUME RetryInv, [Next]_vars, faults' = 0,
                    NEW r \in Requests, rows'[r].status # "ABSENT"
             PROVE  Age(r)' <= Longest
  BY DEF WaitBounded, Longest
<1>1. /\ TypeOK /\ RowsRight /\ WorkersRight /\ Prompt /\ faults = 0
      /\ now \in Nat /\ Poll \in Nat
  BY Onward, Constants DEF RetryInv
<1>2. TypeOK' /\ RowsRight' /\ Prompt'
  BY RetryTypes, RowsStayRight, PromptStays
<1>3. ASSUME NEW n \in Nat, n < MaxAttempts
      PROVE  Latest(n) <= Latest(MaxAttempts - 1) /\ Latest(n) \in Int /\ Longest \in Int
  <2>1. n \in 0..(MaxAttempts - 1)
    BY <1>3, Constants
  <2>2. QED
    BY <1>0, <1>1, <2>1, LatestGrows, TimesOfAttempts
<1>4. CASE Waiting(r)'
  <2> DEFINE p == rows'[r].pendingAt
             a == rows'[r].attempts
  <2>1. endedAt'[r] = None /\ a < MaxAttempts /\ p # None
    BY <1>2, <1>4 DEF RowsRight, RowRight, Scheduled, Waiting
  <2>2. a \in Nat /\ p \in Times /\ now' \in Int
    BY <1>2, <2>1, Constants DEF TypeOK, Row
  <2>3. now' <= p + Latest(a) + Poll
    BY <1>2, <1>4 DEF Prompt
  <2>4. Age(r)' = now' - p
    BY <2>1 DEF Age
  <2>5. Latest(a) <= Latest(MaxAttempts - 1) /\ Latest(a) \in Int
    BY <1>3, <2>1, <2>2
  <2>6. p \in Int /\ Latest(MaxAttempts - 1) \in Int
    <3>1. 0 \in 0..(MaxAttempts - 1) /\ Times \subseteq Int
      BY Constants
    <3>2. QED
      BY <2>2, <3>1, LatestGrows
  <2> HIDE DEF p, a
  <2>7. QED
    BY <1>0, <1>1, <2>2, <2>3, <2>4, <2>5, <2>6
<1>5. CASE ~Waiting(r)' /\ rows'[r] = rows[r] /\ endedAt'[r] = endedAt[r]
  <2>1. rows[r].status \notin {"ABSENT", "PENDING_REFERENCE"} /\ endedAt[r] # None
    BY <1>1, <1>5 DEF RowsRight, RowRight, Waiting
  <2>2. Age(r)' = Age(r)
    BY <1>5, <2>1 DEF Age
  <2>3. Age(r) <= Longest
    BY <1>1, <2>1 DEF RetryInv, WaitBounded, Longest
  <2>4. QED
    BY <2>2, <2>3
<1>6. CASE ~Waiting(r)' /\ (rows'[r] # rows[r] \/ endedAt'[r] # endedAt[r])
  <2> DEFINE p == rows[r].pendingAt
             a == rows[r].attempts
  <2>1. Waiting(r) /\ Concluded(r)
    BY <1>6, RowsChange DEF Waiting
  <2>2. rows'[r].pendingAt = p /\ endedAt'[r] = now
    BY <1>6, <2>1 DEF Concluded, Follows, Waiting
  <2>3. a \in Nat /\ a < MaxAttempts /\ p \in Int
    BY <1>1, <2>1, WaitingRow
  <2>4. now <= p + Latest(a) + Poll
    BY <1>1, <2>1 DEF Prompt
  <2>5. Latest(a) <= Latest(MaxAttempts - 1) /\ Latest(a) \in Int
    BY <1>3, <2>3
  <2>6. Latest(MaxAttempts - 1) \in Int
    <3>1. 0 \in 0..(MaxAttempts - 1)
      BY Constants
    <3>2. QED
      BY <3>1, LatestGrows
  <2>7. Age(r)' = now - p
    BY <1>1, <2>2, Constants DEF Age
  <2> HIDE DEF p, a
  <2>8. QED
    BY <1>0, <1>1, <2>3, <2>4, <2>5, <2>6, <2>7
<1>7. QED
  BY <1>4, <1>5, <1>6

-----------------------------------------------------------------------------
(* The theorems.                                                           *)

LEMMA RetryStep == RetryInv /\ [Next]_vars => RetryInv'
BY RetryTypes, RowsStayRight, WorkersStayRight, PromptStays, PatienceStays, WaitStaysBounded
   DEF RetryInv

\* TypeOK and Patience: whatever workers share a request, fail, restart and have
\* for clocks, it is given up only after its TTL or all of its attempts with the
\* delays between them.
THEOREM NobodyGivenUpEarly == Spec => []RetriesSound
<1>1. RetryInv => RetriesSound
  BY DEF RetryInv, RetriesSound
<1>2. QED
  BY InitRetry, RetryStep, <1>1, PTL DEF Spec

\* While nothing fails a request is answered within the time that its attempts
\* or its TTL allow, for any number of requests, workers and batch size.
THEOREM NobodyWaitsForEver == Spec => []WaitBounded
<1>1. RetryInv => WaitBounded
  BY DEF RetryInv
<1>2. QED
  BY InitRetry, RetryStep, <1>1, PTL DEF Spec

\* A reference that is committed while a worker decides is never missed.
THEOREM OnlyMissingRejected == Spec => RejectedWhileMissing
<1> DEFINE Reject == \A r \in Requests :
                       rows'[r].status = "REFERENCE_NOT_FOUND" /\ Waiting(r) => ~found[r]
<1>1. RetryInv /\ [Next]_vars => [Reject]_vars
  <2> SUFFICES ASSUME RetryInv, [Next]_vars, NEW r \in Requests,
                      rows'[r].status = "REFERENCE_NOT_FOUND", Waiting(r)
               PROVE  ~found[r]
    OBVIOUS
  <2>1. rows'[r] # rows[r]
    BY DEF Waiting
  <2>2. Concluded(r)
    BY <2>1, RowsChange
  <2>3. QED
    BY <2>2 DEF Concluded, Follows
<1>2. QED
  BY InitRetry, RetryStep, <1>1, PTL DEF Spec, RejectedWhileMissing

\* An attempt is counted exactly when it is made, and the time since which a
\* request waits never changes.
THEOREM AttemptsCounted == Spec => AttemptsSurvive
<1> DEFINE Count == \A r \in Requests :
                      Waiting(r) /\ rows'[r] # rows[r] =>
                        /\ rows'[r].pendingAt = rows[r].pendingAt
                        /\ rows'[r].attempts =
                             rows[r].attempts + IF rows'[r].status = "SETTLED" THEN 0 ELSE 1
<1>1. RetryInv /\ [Next]_vars => [Count]_vars
  <2> SUFFICES ASSUME RetryInv, [Next]_vars, NEW r \in Requests, Waiting(r), rows'[r] # rows[r]
               PROVE  /\ rows'[r].pendingAt = rows[r].pendingAt
                      /\ rows'[r].attempts =
                           rows[r].attempts + IF rows'[r].status = "SETTLED" THEN 0 ELSE 1
    OBVIOUS
  <2>1. Concluded(r)
    BY RowsChange DEF Waiting
  <2>2. QED
    BY <2>1 DEF Concluded, Follows
<1>2. QED
  BY InitRetry, RetryStep, <1>1, PTL DEF Spec, AttemptsSurvive

-----------------------------------------------------------------------------
(* The delays as calls.                                                    *)

Doubles(f, base, n) ==
    /\ f \in [0..n -> Nat]
    /\ \A i \in 0..n : f[i] = IF i = 0 THEN base ELSE 2 * f[i - 1]

\* Doubled is a function's value.
LEMMA DoubledExists ==
    ASSUME NEW base \in Nat, NEW n \in Nat
    PROVE  \E f : Doubles(f, base, n) /\ Doubled(base, n) = f[n]
<1> DEFINE step == [i \in 1..n |-> [d \in Nat |-> 2 * d]]
           next(f) == [i \in 0..n |-> IF i = 0 THEN base ELSE 2 * f[i - 1]]
           double == CHOOSE f : f = next(f)
<1>1. step \in [1..n -> [Nat -> Nat]]
  OBVIOUS
<1>2. PICK f \in [0..n -> Nat] : Recurs(f, n, base, step)
  <2> HIDE DEF step
  <2>1. QED
    BY <1>1, RecursionExists
<1>3. ASSUME NEW i \in 0..n
      PROVE  f[i] = IF i = 0 THEN base ELSE 2 * f[i - 1]
  <2>1. i # 0 => i \in 1..n /\ i - 1 \in 0..n
    OBVIOUS
  <2>2. i # 0 => step[i][f[i - 1]] = 2 * f[i - 1]
    BY <1>2, <2>1
  <2>3. QED
    BY <1>2, <2>2 DEF Recurs
<1>4. f = next(f)
  BY <1>2, <1>3
<1>5. double = next(double)
  <2> HIDE DEF next
  <2>1. QED
    BY <1>4
<1>6. Doubled(base, n) = double[n]
  BY DEF Doubled
<1>7. \A i \in 0..n : double[i] = f[i]
  <2> DEFINE Wrong == {i \in 0..n : double[i] # f[i]}
  <2> SUFFICES ASSUME Wrong # {} PROVE FALSE
    OBVIOUS
  <2>1. PICK least \in Wrong : \A i \in Wrong : least <= i
    <3>1. Wrong \subseteq Nat
      OBVIOUS
    <3> HIDE DEF Wrong
    <3>2. QED
      BY <3>1, LeastNumber
  <2>2. least \in 0..n /\ double[least] = next(double)[least] /\ double[least] # f[least]
    BY <1>5, <2>1
  <2>3. least # 0
    BY <1>3, <2>2
  <2>4. least - 1 \in 0..n /\ ~ (least <= least - 1)
    BY <2>2, <2>3
  <2>5. double[least - 1] = f[least - 1]
    BY <2>1, <2>4
  <2>6. QED
    BY <1>3, <2>2, <2>3, <2>5
<1>8. Doubles(f, base, n)
  BY <1>2, <1>3 DEF Doubles
<1>9. QED
  BY <1>6, <1>7, <1>8

\* The loop gives the base doubled without a limit, or the maximum if that is less.
LEMMA GrownIsDoubled ==
    ASSUME NEW base \in 1..MaxInt, NEW maximum \in base..MaxInt, NEW n \in Nat
    PROVE  Grown(base, maximum, n) =
             IF Doubled(base, n) < maximum THEN Doubled(base, n) ELSE maximum
<1>0. base \in Nat /\ maximum \in Int /\ MaxInt \in Int /\ 1 <= base /\ base <= maximum /\ maximum <= MaxInt
  <2>1. MaxInt \in Int
    BY WordAssumption DEF MaxInt
  <2>2. QED
    BY <2>1
<1>1. PICK double : Doubles(double, base, n) /\ Doubled(base, n) = double[n]
  BY <1>0, DoubledExists
<1> DEFINE capped(d) == IF d < maximum THEN d ELSE maximum
           grow(d) == IF d > maximum \div 2 THEN maximum ELSE Signed(2 * d)
           next(f) == [i \in 0..n |-> IF i = 0 THEN base
                         ELSE IF f[i - 1] > maximum \div 2 THEN maximum ELSE Signed(2 * f[i - 1])]
           delay == CHOOSE f : f = next(f)
           cap == [i \in 0..n |-> capped(double[i])]
<1>2. ASSUME NEW d \in Nat
      PROVE  grow(capped(d)) = capped(2 * d)
  <2>1. CASE capped(d) > maximum \div 2
    BY <1>0, <2>1
  <2>2. CASE ~ (capped(d) > maximum \div 2)
    <3>1. 2 * d <= maximum /\ 2 * d \in 0..MaxInt /\ capped(d) = d
      BY <1>0, <2>2
    <3>2. Signed(2 * d) = 2 * d
      BY <3>1, SignedFits
    <3>3. QED
      BY <1>0, <2>2, <3>1, <3>2
  <2>3. QED
    BY <2>1, <2>2
<1>3. cap = next(cap)
  <2>1. ASSUME NEW i \in 0..n
        PROVE  cap[i] = next(cap)[i]
    <3>1. CASE i = 0
      BY <1>0, <1>1, <3>1 DEF Doubles
    <3>2. CASE i # 0
      <4>1. i - 1 \in 0..n /\ double[i] = 2 * double[i - 1] /\ double[i - 1] \in Nat
        BY <1>1, <3>2 DEF Doubles
      <4>2. cap[i] = grow(capped(double[i - 1])) /\ cap[i - 1] = capped(double[i - 1])
        BY <1>2, <4>1
      <4> HIDE DEF capped, cap
      <4>3. QED
        BY <3>2, <4>1, <4>2
    <3>3. QED
      BY <3>1, <3>2
  <2>2. QED
    BY <2>1
<1>4. delay = next(delay)
  <2> HIDE DEF next
  <2>1. QED
    BY <1>3
<1>5. \A i \in 0..n : delay[i] = cap[i]
  <2> DEFINE Wrong == {i \in 0..n : delay[i] # cap[i]}
  <2> SUFFICES ASSUME Wrong # {} PROVE FALSE
    OBVIOUS
  <2>1. PICK least \in Wrong : \A i \in Wrong : least <= i
    <3>1. Wrong \subseteq Nat
      OBVIOUS
    <3> HIDE DEF Wrong
    <3>2. QED
      BY <3>1, LeastNumber
  <2> HIDE DEF cap
  <2>2. least \in 0..n /\ delay[least] = next(delay)[least] /\ delay[least] # cap[least]
    BY <1>4, <2>1
  <2>3. cap[least] = next(cap)[least]
    BY <1>3, <2>2
  <2>4. least # 0
    BY <2>2, <2>3
  <2>5. least - 1 \in 0..n /\ ~ (least <= least - 1)
    BY <2>2, <2>4
  <2>6. delay[least - 1] = cap[least - 1]
    BY <2>1, <2>5
  <2>7. QED
    BY <2>2, <2>3, <2>4, <2>6
<1>6. Grown(base, maximum, n) = delay[n]
  BY DEF Grown
<1>7. QED
  BY <1>1, <1>5, <1>6

\* What a process that waits has been told.
WaitRight ==
    LET c == call IN
    c.op \in {"worker", "publisher", "consumer"} =>
        /\ c \in Waits
        /\ result # Unanswered =>
             /\ result = Ok(CASE c.op = "worker" -> ReferenceRetryDelay(c.base, c.maximum, c.attempts)
                              [] c.op = "publisher" -> PublisherRetryDelay(c.base, c.maximum, c.attempts)
                              [] OTHER -> ConsumerRetryDelay(c.base, c.maximum, c.attempts))
             /\ c.op = "consumer" => hidden = VisibilitySeconds(result.amount)

LEMMA WaitStep == WaitRight /\ [Call]_callVars => WaitRight'
<1> SUFFICES ASSUME WaitRight, [Call]_callVars PROVE WaitRight'
  OBVIOUS
<1> USE DEF WaitRight
<1>1. CASE UNCHANGED callVars
  BY <1>1 DEF callVars
<1>2. CASE ParseText \/ AddMoney \/ SubMoney \/ NegateIt \/ CompareIt \/ WriteAndRead
  BY <1>2 DEF ParseText, AddMoney, SubMoney, NegateIt, CompareIt, WriteAndRead, Asked, Answer
<1>3. CASE WorkerWaits
  BY <1>3 DEF WorkerWaits, Asked, Answer
<1>4. CASE PublisherWaits
  BY <1>4 DEF PublisherWaits, Asked, Answer
<1>5. CASE ConsumerHides
  BY <1>5 DEF ConsumerHides, Asked
<1>6. QED
  BY <1>1, <1>2, <1>3, <1>4, <1>5 DEF Call

\* A wait in doublings of its base.
LEMMA WaitIsCapped ==
    ASSUME NEW c \in Waits
    PROVE  LET base  == Base(c.base)
               limit == Maximum(c.base, c.maximum)
           IN  /\ base \in 1..MaxInt /\ limit \in base..MaxInt
               /\ ReferenceRetryDelay(c.base, c.maximum, c.attempts)
                    = Grown(base, limit, Clamp(c.attempts - 1))
               /\ PublisherRetryDelay(c.base, c.maximum, c.attempts)
                    = Grown(base, limit, Clamp(c.attempts))
               /\ ConsumerRetryDelay(c.base, c.maximum, c.attempts)
                    = Grown(base, limit, IF c.attempts < 1 THEN 0 ELSE c.attempts - 1)
<1>1. MaxInt \in Int /\ MinInt \in Int
  BY WordAssumption DEF MaxInt, MinInt
<1>2. c.base \in MachineIntegers /\ c.maximum \in MachineIntegers
  BY ArithmeticCallsAssumption DEF Waits, Durations
<1>3. Base(c.base) \in 1..MaxInt
  BY <1>1, <1>2, BackoffAssumption DEF Base, MachineIntegers
<1>4. Maximum(c.base, c.maximum) \in Base(c.base)..MaxInt
  BY <1>1, <1>2, <1>3 DEF Maximum, MachineIntegers
<1>5. QED
  BY <1>3, <1>4 DEF ReferenceRetryDelay, PublisherRetryDelay, ConsumerRetryDelay

LEMMA CappedDelay == WaitRight => DelayIsCapped
<1> SUFFICES ASSUME WaitRight, Answered({"worker", "publisher", "consumer"}) PROVE DelayIsCapped
  BY DEF DelayIsCapped
<1>1. call \in Waits
  BY DEF Answered, WaitRight
<1> DEFINE base  == Base(call.base)
           limit == Maximum(call.base, call.maximum)
           times == IF call.op # "consumer" /\ Doublings > MostDoublings
                    THEN MostDoublings ELSE Doublings
           doubled == Doubled(base, times)
<1>2. base \in 1..MaxInt /\ limit \in base..MaxInt
  BY <1>1, WaitIsCapped
<1>3. call.attempts \in Int /\ MostDoublings \in Nat /\ call.base \in Int /\ call.maximum \in Int
  <2>1. call.base \in MachineIntegers /\ call.maximum \in MachineIntegers
    BY <1>1, ArithmeticCallsAssumption DEF Waits, Durations
  <2>2. MaxInt \in Int /\ MinInt \in Int
    BY WordAssumption DEF MaxInt, MinInt
  <2>3. call.attempts \in Int /\ MostDoublings \in Nat
    BY <1>1, ArithmeticCallsAssumption, BackoffAssumption DEF Waits
  <2>4. QED
    BY <2>1, <2>2, <2>3 DEF MachineIntegers
<1>4. times \in Nat
  BY <1>3 DEF Doublings
<1>5. result = Ok(Grown(base, limit, times))
  <2>1. call.op = "worker" => result = Ok(Grown(base, limit, Clamp(call.attempts - 1)))
    BY <1>1, WaitIsCapped DEF WaitRight, Answered
  <2>2. call.op = "publisher" => result = Ok(Grown(base, limit, Clamp(call.attempts)))
    BY <1>1, WaitIsCapped DEF WaitRight, Answered
  <2>3. call.op = "consumer" =>
          result = Ok(Grown(base, limit, IF call.attempts < 1 THEN 0 ELSE call.attempts - 1))
    BY <1>1, WaitIsCapped DEF WaitRight, Answered
  <2>4. /\ call.op = "worker" => times = Clamp(call.attempts - 1)
        /\ call.op = "publisher" => times = Clamp(call.attempts)
        /\ call.op = "consumer" => times = IF call.attempts < 1 THEN 0 ELSE call.attempts - 1
    BY <1>3 DEF Doublings, Clamp
  <2> HIDE DEF base, limit, times
  <2>5. QED
    BY <2>1, <2>2, <2>3, <2>4 DEF Answered
<1>6. result = Ok(IF doubled < limit THEN doubled ELSE limit)
  BY <1>2, <1>4, <1>5, GrownIsDoubled
<1>7. /\ base = IF call.base > 0 THEN call.base ELSE Second
      /\ limit = IF call.maximum > base THEN call.maximum ELSE base
  BY <1>2, <1>3 DEF Base, Maximum
<1>8. QED
  BY <1>6, <1>7 DEF DelayIsCapped

LEMMA QuotientBounds ==
    ASSUME NEW d \in Int, NEW n \in Int, n > 0, NEW q \in Int, q = d \div n
    PROVE  q * n <= d /\ d < q * n + n
OBVIOUS

LEMMA HiddenLongEnough == WaitRight => VisibilityNeverZero
<1> SUFFICES ASSUME WaitRight, Answered({"consumer"}) PROVE VisibilityNeverZero
  BY DEF VisibilityNeverZero
<1>1. call \in Waits /\ hidden = VisibilitySeconds(result.amount)
      /\ result = Ok(ConsumerRetryDelay(call.base, call.maximum, call.attempts))
  BY DEF Answered, WaitRight
<1>2. /\ MaxInt \in Int /\ Second \in Int /\ Second > 0 /\ call.attempts \in Int
  <2>1. MaxInt \in Int
    BY WordAssumption DEF MaxInt
  <2>2. call.attempts \in Int
    BY <1>1, ArithmeticCallsAssumption DEF Waits
  <2>3. QED
    BY <2>1, <2>2, BackoffAssumption
<1>3. ConsumerRetryDelay(call.base, call.maximum, call.attempts) \in 1..MaxInt
  <2> DEFINE times == IF call.attempts < 1 THEN 0 ELSE call.attempts - 1
  <2>1. times \in Nat
    BY <1>2
  <2>2. PICK base, limit \in Int :
          /\ base \in 1..MaxInt /\ limit \in base..MaxInt
          /\ ConsumerRetryDelay(call.base, call.maximum, call.attempts) = Grown(base, limit, times)
    BY <1>1, <1>2, WaitIsCapped
  <2>3. Grown(base, limit, times) \in base..limit
    BY <2>1, <2>2, GrownBounded
  <2>4. QED
    BY <1>2, <2>2, <2>3
<1>4. result.amount \in 1..MaxInt
  BY <1>1, <1>2, <1>3, SignedFits DEF Ok
<1> DEFINE d == result.amount
           q == d \div Second
<1>5. d \in Int /\ d > 0 /\ q \in Int
  BY <1>2, <1>4
<1>6. q * Second <= d /\ d < q * Second + Second
  BY <1>2, <1>5, QuotientBounds
<1>7. q * Second \in Int
  BY <1>2, <1>5
<1>8. hidden = IF q = 0 THEN 1 ELSE q
  BY <1>1, <1>5 DEF VisibilitySeconds
<1> HIDE DEF q, d
<1>9. CASE q = 0
  <2>1. hidden = 1 /\ d < Second /\ hidden * Second = Second
    BY <1>2, <1>5, <1>6, <1>8, <1>9
  <2>2. QED
    BY <1>2, <1>5, <2>1 DEF VisibilityNeverZero, d
<1>10. CASE q # 0
  <2>1. q >= 0
    BY <1>2, <1>5 DEF q
  <2>2. hidden = q
    BY <1>8, <1>10
  <2>3. q * Second - d < Second /\ d - q * Second < Second
    BY <1>2, <1>5, <1>6, <1>7
  <2>4. QED
    BY <1>5, <1>10, <2>1, <2>2, <2>3 DEF VisibilityNeverZero, d
<1>11. QED
  BY <1>9, <1>10

\* Whatever is configured and counted: each delay is its base, doubled without a limit
\* to integers, up to its maximum; and the consumer never hides a message for 0 seconds.
THEOREM DelaysExact == CallSpec => []DelaysAreExact
<1>1. Calling => WaitRight
  <2> SUFFICES ASSUME Calling PROVE WaitRight
    OBVIOUS
  <2>1. result = Unanswered
    BY DEF Calling
  <2>2. call.op \in {"worker", "publisher", "consumer"} => call \in Waits
    BY DEF Calling
  <2>3. QED
    BY <2>1, <2>2 DEF WaitRight
<1>2. WaitRight => DelaysAreExact
  BY CappedDelay, HiddenLongEnough DEF DelaysAreExact
<1>3. QED
  BY <1>1, <1>2, WaitStep, PTL DEF CallSpec
=============================================================================
