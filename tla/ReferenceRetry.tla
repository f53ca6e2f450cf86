--------------------------- MODULE ReferenceRetry ---------------------------
(***************************************************************************)
(* How long a request waits for its reference: the polling, the retries    *)
(* and the expiry of the reference workers, over a clock.                  *)
(*                                                                         *)
(* What becomes of a request whose reference is there is Wagering's; here  *)
(* it is SETTLED, whatever the outcome.  The requests are of wallets of    *)
(* their own, and a reference is of the wallet of its request.  The        *)
(* database has the clock; a worker's clock may differ from it by Skew.    *)
(***************************************************************************)
EXTENDS Backoff, FiniteSets, SequencesExt

CONSTANTS
    None,
    Requests,     \* refunds and rollbacks
    Workers,      \* reference worker processes
    BatchSize,    \* requests claimed at once
    Poll,         \* pollInterval
    RetryBase,
    RetryMax,
    TTL,          \* referenceTTL
    MaxAttempts,  \* maxAttempts
    Skew,         \* how far a worker's clock is from the database's
    MaxFaults,    \* bound: failures of workers
    MaxTime       \* bound: where the clock stops

ASSUME ReferenceRetryAssumption ==
    /\ {BatchSize, Poll, RetryBase, TTL, MaxAttempts} \subseteq Nat \ {0}
    /\ RetryMax \in RetryBase .. MaxInt   \* a duration, as delays are
    /\ Workers # {}
    /\ {Skew, MaxFaults, MaxTime} \subseteq Nat
    /\ None \notin Requests \cup Int

VARIABLES
    now,       \* the clock of the database
    skew,      \* what a worker's clock adds to it
    rows,      \* the committed wager rows of the requests
    endedAt,   \* history: when a row left PENDING_REFERENCE
    found,     \* whether the reference is committed
    pc,        \* where each worker is
    wake,      \* until when it sleeps; 0 while it does not
    batch,     \* the rows it has locked and not yet handled
    writes,    \* the rows as its open transaction has updated them
    faults     \* failures so far

workers == <<pc, wake, batch, writes>>
vars    == <<now, skew, rows, endedAt, found, workers, faults>>

Statuses == {"ABSENT", "PENDING_REFERENCE", "SETTLED", "REFERENCE_NOT_FOUND"}
Times    == -Skew .. MaxTime + Skew + RetryMax

Row == [status : Statuses, attempts : 0 .. MaxAttempts,
        pendingAt : Times \cup {None}, nextAt : Times \cup {None}]

Waiting(r) == rows[r].status = "PENDING_REFERENCE"

\* Every variable has its type; a row that waits has attempts left and a time
\* for the next one.
TypeOK ==
    /\ now \in 0 .. MaxTime
    /\ skew \in [Workers -> -Skew .. Skew]
    /\ rows \in [Requests -> Row]
    /\ \A r \in Requests : Waiting(r) =>
         /\ rows[r].attempts < MaxAttempts
         /\ rows[r].pendingAt # None /\ rows[r].nextAt # None
    /\ endedAt \in [Requests -> 0 .. MaxTime \cup {None}]
    /\ found \in [Requests -> BOOLEAN]
    /\ pc \in [Workers -> {"poll", "process", "sleep", "down"}]
    /\ wake \in [Workers -> Nat]
    /\ batch \in [Workers -> Seq(Requests)]
    /\ writes \in [Workers -> SUBSET [id : Requests, row : Row]]
    /\ faults \in 0 .. MaxFaults

Init ==
    /\ now = 0
    /\ skew \in [Workers -> {-Skew, Skew}]   \* the clocks furthest apart
    /\ rows = [r \in Requests |->
                 [status |-> "ABSENT", attempts |-> 0, pendingAt |-> None, nextAt |-> None]]
    /\ endedAt = [r \in Requests |-> None]
    /\ found = [r \in Requests |-> FALSE]
    /\ pc = [w \in Workers |-> "poll"]
    /\ wake = [w \in Workers |-> 0]
    /\ batch = [w \in Workers |-> << >>]
    /\ writes = [w \in Workers |-> {}]
    /\ faults = 0

-----------------------------------------------------------------------------

Clock(w)   == now + skew[w]
Written(w) == {u.id : u \in writes[w]}
Held(w)    == ToSet(batch[w]) \cup Written(w)

Goto(w, label) == pc' = [pc EXCEPT ![w] = label]

Sleep(w, time) == Goto(w, "sleep") /\ wake' = [wake EXCEPT ![w] = now + time]

\* The end of a transaction releases its rows.
EndTransaction(w) ==
    /\ batch' = [batch EXCEPT ![w] = << >>]
    /\ writes' = [writes EXCEPT ![w] = {}]

-----------------------------------------------------------------------------
(* The requests and their references.                                      *)

\* A request finds no reference and is stored to wait for it, due at once.
Arrive(r) ==
    /\ rows[r].status = "ABSENT"
    /\ ~found[r]
    /\ rows' = [rows EXCEPT ![r] = [status |-> "PENDING_REFERENCE", attempts |-> 0,
                                    pendingAt |-> now, nextAt |-> now]]
    /\ UNCHANGED <<now, skew, endedAt, found, workers, faults>>

\* Fault: a worker does not hold the wallet it decides about.
ReferenceSlipsIn(r) ==
    /\ ~found[r]
    /\ found' = [found EXCEPT ![r] = TRUE]
    /\ UNCHANGED <<now, skew, rows, endedAt, workers, faults>>

\* The reference is committed, which takes the lock of the wallet: a worker has
\* it from its decision on the request to the end of its transaction.
ReferenceCommits(r) ==
    /\ ~found[r]
    /\ \A w \in Workers : r \notin Written(w)
    /\ found' = [found EXCEPT ![r] = TRUE]
    /\ UNCHANGED <<now, skew, rows, endedAt, workers, faults>>

-----------------------------------------------------------------------------
(* The worker.                                                             *)

\* Fault: rows that another transaction has locked are due as well.
DueLockedOrNot == {r \in Requests : Waiting(r) /\ rows[r].nextAt <= now}

\* FOR UPDATE SKIP LOCKED: the rows due that no other transaction holds.
Due == {r \in Requests : /\ Waiting(r) /\ rows[r].nextAt <= now
                         /\ \A v \in Workers : r \notin Held(v)}

\* The oldest rows due, in their order.
Batches ==
    {b \in SeqOf(Due, BatchSize) :
       /\ IsInjective(b)
       /\ Len(b) = BatchSize \/ ToSet(b) = Due
       /\ \A i \in DOMAIN b, r \in Due :
            r \notin {b[j] : j \in 1 .. i} => rows[b[i]].nextAt <= rows[r].nextAt}

\* ClaimPendingReferences; with no row due the worker waits for its next poll.
Claim(w) ==
    /\ pc[w] = "poll"
    /\ IF Due = {}
       THEN Sleep(w, Poll) /\ UNCHANGED batch
       ELSE /\ Goto(w, "process")
            /\ \E b \in Batches : batch' = [batch EXCEPT ![w] = b]
            /\ UNCHANGED wake
    /\ UNCHANGED <<now, skew, rows, endedAt, found, writes, faults>>

Expired(w, r) == Clock(w) >= rows[r].pendingAt + TTL

\* Fault: the last attempt is counted one too late.
GivesUpLate(w, r) == rows[r].attempts >= MaxAttempts \/ Expired(w, r)

\* Fault: only the attempts count.
NeverExpires(w, r) == rows[r].attempts + 1 >= MaxAttempts

GivesUp(w, r) == rows[r].attempts + 1 >= MaxAttempts \/ Expired(w, r)

\* Fault: no delay before the next attempt.
NoDelay(r) == 0

Delay(r) == ReferenceRetryDelay(RetryBase, RetryMax, rows[r].attempts + 1)

\* processRecord: a reference that is there is used, however late; else the
\* attempt is counted, and the request is rejected or gets its next time.
Processed(w, r) ==
    IF found[r] THEN [rows[r] EXCEPT !.status = "SETTLED", !.nextAt = None]
    ELSE IF GivesUp(w, r)
    THEN [rows[r] EXCEPT !.status = "REFERENCE_NOT_FOUND", !.attempts = @ + 1, !.nextAt = None]
    ELSE [rows[r] EXCEPT !.attempts = @ + 1, !.nextAt = Clock(w) + Delay(r)]

Process(w) ==
    /\ pc[w] = "process"
    /\ batch[w] # << >>
    /\ LET r == Head(batch[w]) IN
         writes' = [writes EXCEPT ![w] = @ \cup {[id |-> r, row |-> Processed(w, r)]}]
    /\ batch' = [batch EXCEPT ![w] = Tail(@)]
    /\ UNCHANGED <<now, skew, rows, endedAt, found, pc, wake, faults>>

\* What the transaction of w has written becomes visible.
Publish(w) ==
    LET new == [r \in Requests |->
                  IF r \in Written(w) THEN (CHOOSE u \in writes[w] : u.id = r).row
                  ELSE rows[r]]
    IN  /\ rows' = new
        /\ endedAt' = [r \in Requests |->
                         IF r \in Written(w) /\ new[r].status # "PENDING_REFERENCE"
                         THEN now ELSE endedAt[r]]

\* A batch that was not empty is followed by the next one at once.
CommitBatch(w) ==
    /\ pc[w] = "process"
    /\ batch[w] = << >>
    /\ Publish(w)
    /\ EndTransaction(w)
    /\ Goto(w, "poll")
    /\ UNCHANGED <<now, skew, found, wake, faults>>

WakeUp(w) ==
    /\ pc[w] = "sleep"
    /\ wake[w] <= now
    /\ Goto(w, "poll")
    /\ wake' = [wake EXCEPT ![w] = 0]
    /\ UNCHANGED <<now, skew, rows, endedAt, found, batch, writes, faults>>

-----------------------------------------------------------------------------
(* Failures, and time.                                                     *)

Failure == faults < MaxFaults /\ faults' = faults + 1

\* A statement fails: the batch is rolled back and the worker waits.
RollBack(w) ==
    /\ pc[w] \in {"poll", "process"}
    /\ Failure
    /\ EndTransaction(w)
    /\ Sleep(w, RetryBase)
    /\ UNCHANGED <<now, skew, rows, endedAt, found>>

\* The commit succeeds and the worker is told that it failed.
CommitReplyLost(w) ==
    /\ pc[w] = "process"
    /\ batch[w] = << >>
    /\ Failure
    /\ Publish(w)
    /\ EndTransaction(w)
    /\ Sleep(w, RetryBase)
    /\ UNCHANGED <<now, skew, found>>

Crash(w) ==
    /\ pc[w] # "down"
    /\ Failure
    /\ EndTransaction(w)
    /\ Goto(w, "down")
    /\ wake' = [wake EXCEPT ![w] = 0]
    /\ UNCHANGED <<now, skew, rows, endedAt, found>>

Restart(w) ==
    /\ pc[w] = "down"
    /\ Goto(w, "poll")
    /\ UNCHANGED <<now, skew, rows, endedAt, found, wake, batch, writes, faults>>

\* The workers that have something to do before time passes.
Busy == {w \in Workers : pc[w] \in {"poll", "process"} \/ (pc[w] = "sleep" /\ wake[w] <= now)}

\* Time passes while the workers sleep; a worker that is late is a failure.
Tick ==
    /\ now < MaxTime
    /\ IF Busy = {} THEN UNCHANGED faults ELSE Failure
    /\ now' = now + 1
    /\ UNCHANGED <<skew, rows, endedAt, found, workers>>

Next ==
    \/ \E r \in Requests : Arrive(r) \/ ReferenceCommits(r)
    \/ \E w \in Workers : Claim(w) \/ Process(w) \/ CommitBatch(w) \/ WakeUp(w)
    \/ \E w \in Workers : RollBack(w) \/ CommitReplyLost(w) \/ Crash(w) \/ Restart(w)
    \/ Tick

Spec == Init /\ [][Next]_vars

-----------------------------------------------------------------------------
(* Properties.                                                             *)

\* The delays between the first attempt and the attempt n + 1.
Delays(n) ==
    LET total[i \in 0 .. n] ==
          IF i = 0 THEN 0 ELSE total[i - 1] + ReferenceRetryDelay(RetryBase, RetryMax, i)
    IN  total[n]

Least(a, b) == IF a < b THEN a ELSE b

Age(r) == (IF endedAt[r] = None THEN now ELSE endedAt[r]) - rows[r].pendingAt

\* No request is given up early: whatever workers share it, fail, restart and
\* have for clocks, it is rejected after it has waited for its TTL or has had
\* MaxAttempts attempts with all the delays between them, less the skew each was
\* measured with.
Patience ==
    \A r \in Requests : rows[r].status = "REFERENCE_NOT_FOUND" =>
        \/ Age(r) >= TTL - Skew
        \/ /\ rows[r].attempts = MaxAttempts
           /\ Age(r) >= Delays(MaxAttempts - 1) - (MaxAttempts - 1) * Skew

\* Attempts stay within their limit, and no request is given up early.
RetriesSound == TypeOK /\ Patience

\* No request waits for ever: while no worker is late or fails, it has an answer
\* when its attempts are used up or, if that is earlier, one delay after its TTL;
\* each attempt may be late by one poll, and each time measured by the skew.
WaitBounded ==
    faults = 0 => \A r \in Requests : rows[r].status # "ABSENT" =>
        Age(r) <= Least(TTL + RetryMax + 2 * Skew,
                        Delays(MaxAttempts - 1) + (MaxAttempts - 1) * (Poll + Skew)) + Poll

\* A request is rejected for its reference only while the reference is missing,
\* also when it is committed at the same time.
RejectedWhileMissing ==
    [][\A r \in Requests :
         rows'[r].status = "REFERENCE_NOT_FOUND" /\ Waiting(r) => ~found[r]]_vars

\* "A restart does not reset attempts": through crashes, lost commits and two
\* workers after one row, an attempt is counted exactly when it is made, and the
\* time since which a request waits never changes.
AttemptsSurvive ==
    [][\A r \in Requests :
         Waiting(r) /\ rows'[r] # rows[r] =>
            /\ rows'[r].pendingAt = rows[r].pendingAt
            /\ rows'[r].attempts =
                 rows[r].attempts + IF rows'[r].status = "SETTLED" THEN 0 ELSE 1]_vars
=============================================================================
