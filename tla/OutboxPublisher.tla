--------------------------- MODULE OutboxPublisher ---------------------------
(***************************************************************************)
(* The outbox table and the publishers that send its events to SQS.  A     *)
(* publisher claims a batch of rows in one transaction (token and lease),  *)
(* sends them one by one and marks each PUBLISHED, or PENDING again after a *)
(* failed send; both marks require the token of the claim.                 *)
(*                                                                         *)
(* Each statement of a publisher is one transaction on rows it locks, so   *)
(* it is one step.  The token of a claim is represented by the publisher   *)
(* that made it: a publisher uses no token after it has claimed again or   *)
(* restarted, so it never needs to tell two of its claims apart.           *)
(*                                                                         *)
(* Everything that can go wrong (a lost reply, a failed send or statement, *)
(* a crash, a lease that ends while its publisher is still working) counts *)
(* as a fault, and a behaviour has at most MaxFaults of them.              *)
(***************************************************************************)
EXTENDS Integers, Sequences, FiniteSets

CONSTANTS
    None,        \* no token
    Events,      \* the events transactions write to the outbox
    Publishers,  \* publisher instances
    BatchSize,   \* rows a publisher claims at once
    MaxFaults    \* bound on the faults of a behaviour

ASSUME PublisherAssumption ==
    /\ None \notin Publishers
    /\ IsFiniteSet(Publishers)
    /\ BatchSize \in Nat \ {0}
    /\ MaxFaults \in Nat

VARIABLES
    row,       \* the rows of outbox_events
    pc,        \* where each publisher is: polling, sending, marking
    batch,     \* the claimed rows a publisher has still to handle
    sent,      \* how often SQS has accepted each event
    recovered, \* how often a row was claimed after its lease had ended (history)
    faults     \* the faults so far

vars == <<row, pc, batch, sent, recovered, faults>>

OutboxStatuses == {"ABSENT", "PENDING", "PROCESSING", "PUBLISHED"}
OutboxRows == [status : OutboxStatuses, attempts : Nat, due : BOOLEAN,
               token : Publishers \cup {None}, leased : BOOLEAN]

Init ==
    /\ row = [e \in Events |-> [status |-> "ABSENT", attempts |-> 0, due |-> FALSE,
                                token |-> None, leased |-> FALSE]]
    /\ pc = [p \in Publishers |-> "poll"]
    /\ batch = [p \in Publishers |-> << >>]
    /\ sent = [e \in Events |-> 0]
    /\ recovered = [e \in Events |-> 0]
    /\ faults = 0

-----------------------------------------------------------------------------

Fault == faults < MaxFaults /\ faults' = faults + 1
NoFault == UNCHANGED faults

\* The transaction that writes an event commits.
InsertOutbox(e) ==
    /\ row[e].status = "ABSENT"
    /\ row' = [row EXCEPT ![e].status = "PENDING", ![e].due = TRUE]
    /\ UNCHANGED <<pc, batch, sent, recovered, faults>>

\* Fault: rows are claimed although another publisher has a lease on them.
ClaimableDuringLease(e) == (row[e].status = "PENDING" /\ row[e].due) \/ row[e].status = "PROCESSING"

\* Fault: nobody takes over the rows of a publisher that died.
ClaimablePending(e) == row[e].status = "PENDING" /\ row[e].due

\* Pending rows that are due, and rows in process whose lease has ended.
Claimable(e) ==
    \/ row[e].status = "PENDING" /\ row[e].due
    \/ row[e].status = "PROCESSING" /\ ~row[e].leased

\* The order by creation is abstracted to any order; rows locked by another
\* claim are skipped, so any claimable rows may be taken.
Batches ==
    {s \in UNION {[1..n -> {e \in Events : Claimable(e)}] : n \in 1..BatchSize} :
        \A i, j \in DOMAIN s : s[i] = s[j] => i = j}

ClaimOutbox(p, rows) ==
    LET claimed == {rows[i] : i \in DOMAIN rows} IN
    /\ row' = [e \in Events |->
                 IF e \in claimed
                 THEN [row[e] EXCEPT !.status = "PROCESSING", !.token = p, !.leased = TRUE]
                 ELSE row[e]]
    /\ recovered' = [e \in Events |->
                       IF e \in claimed /\ row[e].status = "PROCESSING" /\ ~row[e].leased
                       THEN recovered[e] + 1 ELSE recovered[e]]
    /\ UNCHANGED sent

Claim(p) ==
    /\ pc[p] = "poll"
    /\ \E rows \in Batches :
         /\ ClaimOutbox(p, rows)
         /\ batch' = [batch EXCEPT ![p] = rows]
    /\ pc' = [pc EXCEPT ![p] = "send"]
    /\ NoFault

\* The claim commits but the publisher gets an error.
ClaimReplyLost(p) ==
    /\ pc[p] = "poll"
    /\ \E rows \in Batches : ClaimOutbox(p, rows)
    /\ Fault
    /\ UNCHANGED <<pc, batch>>

Current(p) == Head(batch[p])

\* SQS accepts the event and says so.
Send(p) ==
    /\ pc[p] = "send"
    /\ sent' = [sent EXCEPT ![Current(p)] = @ + 1]
    /\ pc' = [pc EXCEPT ![p] = "mark"]
    /\ NoFault
    /\ UNCHANGED <<row, batch, recovered>>

\* The publisher gets an error, whether SQS accepted the event or not.
SendFails(p) ==
    /\ pc[p] = "send"
    /\ \/ UNCHANGED sent
       \/ sent' = [sent EXCEPT ![Current(p)] = @ + 1]
    /\ pc' = [pc EXCEPT ![p] = "retry"]
    /\ Fault
    /\ UNCHANGED <<row, batch, recovered>>

\* Fault: the end of the batch is missed.
AdvanceWithoutEnd(p) ==
    /\ batch' = [batch EXCEPT ![p] = Tail(@)]
    /\ pc' = [pc EXCEPT ![p] = "send"]

\* On to the next row of the batch, or to the next poll.
Advance(p) ==
    /\ batch' = [batch EXCEPT ![p] = Tail(@)]
    /\ pc' = [pc EXCEPT ![p] = IF Len(batch[p]) = 1 THEN "poll" ELSE "send"]

\* Fault: the token of the claim is not compared.
InProcess(p) == row[Current(p)].status = "PROCESSING"

\* Both marks find the row only if it is still in process under p's claim.
HasClaim(p) ==
    /\ row[Current(p)].status = "PROCESSING"
    /\ row[Current(p)].token = p

Unclaimed(status, attempts, due) ==
    [status |-> status, attempts |-> attempts, due |-> due, token |-> None, leased |-> FALSE]

\* Fault: the row is marked whether it was sent or not.
MarkPublishedUnsent(p) ==
    /\ pc[p] \in {"mark", "retry"}
    /\ IF HasClaim(p)
       THEN row' = [row EXCEPT ![Current(p)] = Unclaimed("PUBLISHED", @.attempts, FALSE)]
       ELSE UNCHANGED row
    /\ Advance(p)
    /\ NoFault
    /\ UNCHANGED <<sent, recovered>>

\* A lost claim is only logged.
MarkPublished(p) ==
    /\ pc[p] = "mark"
    /\ IF HasClaim(p)
       THEN row' = [row EXCEPT ![Current(p)] = Unclaimed("PUBLISHED", @.attempts, FALSE)]
       ELSE UNCHANGED row
    /\ Advance(p)
    /\ NoFault
    /\ UNCHANGED <<sent, recovered>>

\* After a failed send the row waits for its next attempt.
MarkRetry(p) ==
    /\ pc[p] = "retry"
    /\ IF HasClaim(p)
       THEN row' = [row EXCEPT ![Current(p)] = Unclaimed("PENDING", @.attempts + 1, FALSE)]
       ELSE UNCHANGED row
    /\ Advance(p)
    /\ NoFault
    /\ UNCHANGED <<sent, recovered>>

\* The statement of a mark fails: the row stays in process until its lease ends.
MarkFails(p) ==
    /\ pc[p] \in {"mark", "retry"}
    /\ Advance(p)
    /\ Fault
    /\ UNCHANGED <<row, sent, recovered>>

\* The process dies or is stopped, and starts again with nothing.
Crash(p) ==
    /\ pc[p] # "poll"
    /\ pc' = [pc EXCEPT ![p] = "poll"]
    /\ batch' = [batch EXCEPT ![p] = << >>]
    /\ Fault
    /\ UNCHANGED <<row, sent, recovered>>

InHand(p, e) == \E i \in DOMAIN batch[p] : batch[p][i] = e

\* The publisher that claimed e is still at work on it.
Attended(e) == \E p \in Publishers : row[e].token = p /\ InHand(p, e)

\* Time passes: a lease ends that nobody needs any more, or, which is a fault,
\* one whose publisher is late.
LeaseEnds(e, attended) ==
    /\ row[e].status = "PROCESSING" /\ row[e].leased
    /\ Attended(e) = attended
    /\ row' = [row EXCEPT ![e].leased = FALSE]
    /\ UNCHANGED <<pc, batch, sent, recovered>>

LeaseRunsOut(e)  == LeaseEnds(e, FALSE) /\ NoFault
LeaseTooShort(e) == LeaseEnds(e, TRUE) /\ Fault

\* Time passes: the next attempt of a pending row is due.
AttemptDue(e) ==
    /\ row[e].status = "PENDING" /\ ~row[e].due
    /\ row' = [row EXCEPT ![e].due = TRUE]
    /\ UNCHANGED <<pc, batch, sent, recovered, faults>>

Working(p) == Claim(p) \/ Send(p) \/ MarkPublished(p) \/ MarkRetry(p)
Failing(p) == ClaimReplyLost(p) \/ SendFails(p) \/ MarkFails(p) \/ Crash(p)

Next ==
    \/ \E e \in Events : InsertOutbox(e) \/ LeaseRunsOut(e) \/ LeaseTooShort(e) \/ AttemptDue(e)
    \/ \E p \in Publishers : Working(p) \/ Failing(p)

Spec == Init /\ [][Next]_vars

-----------------------------------------------------------------------------
(* Properties.                                                             *)

\* Every variable has its type: the rows of outbox_events and the local state
\* of the publishers.
TypeOK ==
    /\ row \in [Events -> OutboxRows]
    /\ pc \in [Publishers -> {"poll", "send", "mark", "retry"}]
    /\ batch \in [Publishers -> Seq(Events)]
    /\ \A p \in Publishers : pc[p] # "poll" => batch[p] # << >>
    /\ sent \in [Events -> Nat]
    /\ recovered \in [Events -> Nat]
    /\ faults \in 0..MaxFaults

\* An event is PUBLISHED only after SQS accepted it, whoever sent it and
\* whoever marks it.
PublishedWasSent == \A e \in Events : row[e].status = "PUBLISHED" => sent[e] > 0

\* SQS gets an event once for the first claim, and once more for each failed
\* attempt that was recorded and each lease that ended before its row was
\* marked: without failures every event is sent exactly once, by any number of
\* publishers.
DuplicatesExplained ==
    \A e \in Events : sent[e] <= 1 + row[e].attempts + recovered[e]

\* What is published stays published, and a row in process is released only by
\* the publisher whose claim it is: one that is late, with a claim it has lost,
\* changes nothing.
ClaimsRespected ==
    [][\A e \in Events :
         /\ row[e].status = "PUBLISHED" => row'[e] = row[e]
         /\ row[e].status = "PROCESSING" /\ row'[e].status # "PROCESSING" =>
              \E p \in Publishers : /\ row[e].token = p
                                    /\ pc[p] \in {"mark", "retry"} /\ Current(p) = e
                                    /\ batch'[p] = Tail(batch[p])]_vars

\* The code's loop runs on, time passes and nothing else is promised: faults
\* are finitely many by MaxFaults.
Fairness ==
    /\ \A p \in Publishers : WF_vars(Working(p))
    /\ \A e \in Events : WF_vars(LeaseRunsOut(e)) /\ WF_vars(AttemptDue(e))

FairSpec == Spec /\ Fairness

\* Once the faults stop, every event of a committed transaction is published:
\* no crash, lost reply or failed mark leaves a row behind for ever.
EventuallyPublished ==
    \A e \in Events : (row[e].status # "ABSENT") ~> (row[e].status = "PUBLISHED")
=============================================================================
