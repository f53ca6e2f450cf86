---------------------------- MODULE OutboxProofs ----------------------------
(***************************************************************************)
(* Theorems about the outbox and its publishers.  The inductive invariant  *)
(* of DuplicatesExplained counts, beside the times an event was sent, the  *)
(* publishers that still may send it: every claim allows one send, and a   *)
(* claim is either the first one after a recorded failure or recovers a    *)
(* row whose lease had ended.                                              *)
(***************************************************************************)
EXTENDS OutboxPublisher, TLAPS, SequenceTheorems, FiniteSetTheorems

\* A publisher polls with nothing in hand, a batch has no row twice, and what is
\* about to be marked as published has been sent.
BatchRight(p) ==
    /\ pc[p] = "poll" => batch[p] = << >>
    /\ \A i, j \in DOMAIN batch[p] : batch[p][i] = batch[p][j] => i = j
    /\ pc[p] = "mark" => sent[Current(p)] > 0

BatchesRight == \A p \in Publishers : BatchRight(p)

\* p has claimed e and not tried to send it.
Owes(p, e) == \E i \in DOMAIN batch[p] : batch[p][i] = e /\ (i = 1 => pc[p] = "send")

Owing(e) == {p \in Publishers : Owes(p, e)}

\* How often e has been claimed.
Claims(e) ==
    row[e].attempts + recovered[e] + IF row[e].status \in {"PROCESSING", "PUBLISHED"} THEN 1 ELSE 0

SendsRight(e) == sent[e] + Cardinality(Owing(e)) <= Claims(e)

SendsClaimed == \A e \in Events : SendsRight(e)

PublisherInv == TypeOK /\ BatchesRight /\ PublishedWasSent /\ SendsClaimed

-----------------------------------------------------------------------------
(* Batches.                                                                *)

LEMMA BatchType ==
    ASSUME NEW rows \in Batches
    PROVE  /\ rows \in Seq(Events) /\ rows # << >>
           /\ \A i \in DOMAIN rows : Claimable(rows[i])
           /\ \A i, j \in DOMAIN rows : rows[i] = rows[j] => i = j
<1>1. PICK n \in 1..BatchSize : rows \in [1..n -> {e \in Events : Claimable(e)}]
  BY DEF Batches
<1>2. n \in Nat /\ n # 0
  BY <1>1, PublisherAssumption
<1>3. rows \in [1..n -> Events]
  BY <1>1
<1>4. rows \in Seq(Events) /\ Len(rows) = n
  BY <1>2, <1>3
<1>5. rows # << >>
  BY <1>2, <1>4
<1>6. \A i \in DOMAIN rows : Claimable(rows[i])
  BY <1>1
<1>7. QED
  BY <1>4, <1>5, <1>6 DEF Batches

LEMMA CurrentType ==
    ASSUME TypeOK, NEW p \in Publishers, pc[p] # "poll"
    PROVE  /\ Current(p) \in Events /\ Current(p) = batch[p][1]
           /\ 1 \in DOMAIN batch[p] /\ batch[p] \in Seq(Events) /\ batch[p] # << >>
           /\ Len(batch[p]) \in Nat \ {0}
BY DEF TypeOK, Current

LEMMA RowTypes ==
    ASSUME NEW r \in OutboxRows
    PROVE  /\ [r EXCEPT !.due = TRUE] \in OutboxRows
           /\ [r EXCEPT !.leased = FALSE] \in OutboxRows
           /\ [r EXCEPT !.status = "PENDING", !.due = TRUE] \in OutboxRows
           /\ \A p \in Publishers :
                [r EXCEPT !.status = "PROCESSING", !.token = p, !.leased = TRUE] \in OutboxRows
           /\ Unclaimed("PUBLISHED", r.attempts, FALSE) \in OutboxRows
           /\ Unclaimed("PENDING", r.attempts + 1, FALSE) \in OutboxRows
<1>1. r.attempts \in Nat /\ r.attempts + 1 \in Nat
  BY DEF OutboxRows
<1>2. /\ [r EXCEPT !.due = TRUE] \in OutboxRows
      /\ [r EXCEPT !.leased = FALSE] \in OutboxRows
  BY DEF OutboxRows
<1>3. [r EXCEPT !.status = "PENDING", !.due = TRUE] \in OutboxRows
  BY DEF OutboxRows, OutboxStatuses
<1>4. ASSUME NEW p \in Publishers
      PROVE  [r EXCEPT !.status = "PROCESSING", !.token = p, !.leased = TRUE] \in OutboxRows
  BY DEF OutboxRows, OutboxStatuses
<1>5. ASSUME NEW attempts \in Nat, NEW status \in OutboxStatuses
      PROVE  Unclaimed(status, attempts, FALSE) \in OutboxRows
  BY DEF OutboxRows, Unclaimed
<1>6. "PUBLISHED" \in OutboxStatuses /\ "PENDING" \in OutboxStatuses
  BY DEF OutboxStatuses
<1>7. QED
  BY <1>1, <1>2, <1>3, <1>4, <1>5, <1>6

\* The batch after the current row.
LEMMA AdvanceType ==
    ASSUME TypeOK, NEW p \in Publishers, pc[p] # "poll", Advance(p)
    PROVE  /\ pc' \in [Publishers -> {"poll", "send", "mark", "retry"}]
           /\ batch' \in [Publishers -> Seq(Events)]
           /\ \A q \in Publishers : q # p => pc'[q] = pc[q] /\ batch'[q] = batch[q]
           /\ pc'[p] \in {"poll", "send"}
           /\ pc'[p] = "poll" <=> batch'[p] = << >>
           /\ Len(batch'[p]) = Len(batch[p]) - 1
           /\ \A i \in DOMAIN batch'[p] : i + 1 \in DOMAIN batch[p] /\ batch'[p][i] = batch[p][i + 1]
<1>1. /\ batch[p] \in Seq(Events) /\ batch[p] # << >> /\ Len(batch[p]) \in Nat \ {0}
      /\ pc \in [Publishers -> {"poll", "send", "mark", "retry"}]
      /\ batch \in [Publishers -> Seq(Events)]
  BY CurrentType DEF TypeOK
<1>2. /\ Tail(batch[p]) \in Seq(Events)
      /\ Len(Tail(batch[p])) = Len(batch[p]) - 1
      /\ \A i \in 1..Len(Tail(batch[p])) : Tail(batch[p])[i] = batch[p][i + 1]
  BY <1>1, HeadTailProperties
<1>3. /\ batch'[p] = Tail(batch[p])
      /\ pc'[p] = IF Len(batch[p]) = 1 THEN "poll" ELSE "send"
      /\ batch' \in [Publishers -> Seq(Events)]
      /\ pc' \in [Publishers -> {"poll", "send", "mark", "retry"}]
      /\ \A q \in Publishers : q # p => pc'[q] = pc[q] /\ batch'[q] = batch[q]
  BY <1>1, <1>2 DEF Advance
<1>4. Tail(batch[p]) = << >> <=> Len(batch[p]) = 1
  <2> DEFINE tail == Tail(batch[p])
  <2>1. tail \in Seq(Events) /\ Len(tail) = Len(batch[p]) - 1
    BY <1>2
  <2> HIDE DEF tail
  <2>2. tail = << >> <=> Len(tail) = 0
    BY <2>1, EmptySeq
  <2>3. QED
    BY <1>1, <2>1, <2>2 DEF tail
<1>5. QED
  BY <1>1, <1>2, <1>3, <1>4

-----------------------------------------------------------------------------
(* Type correctness.                                                       *)

LEMMA InitPublisher == Init => TypeOK
<1> SUFFICES ASSUME Init PROVE TypeOK
  OBVIOUS
<1>1. << >> \in Seq(Events) /\ faults \in 0..MaxFaults
  BY PublisherAssumption DEF Init
<1>2. QED
  BY <1>1 DEF Init, TypeOK, OutboxRows, OutboxStatuses

\* What a claim writes.
LEMMA ClaimType ==
    ASSUME TypeOK, NEW p \in Publishers, NEW rows \in Batches, ClaimOutbox(p, rows)
    PROVE  row' \in [Events -> OutboxRows] /\ recovered' \in [Events -> Nat] /\ sent' = sent
<1> DEFINE claimed == {rows[i] : i \in DOMAIN rows}
<1>1. \A e \in Events : row[e] \in OutboxRows /\ recovered[e] \in Nat
  BY DEF TypeOK
<1>2. \A e \in Events :
        [row[e] EXCEPT !.status = "PROCESSING", !.token = p, !.leased = TRUE] \in OutboxRows
  BY <1>1, RowTypes
<1>3. row' = [e \in Events |->
                 IF e \in claimed
                 THEN [row[e] EXCEPT !.status = "PROCESSING", !.token = p, !.leased = TRUE]
                 ELSE row[e]]
  BY DEF ClaimOutbox
<1>4. recovered' = [e \in Events |->
                       IF e \in claimed /\ row[e].status = "PROCESSING" /\ ~row[e].leased
                       THEN recovered[e] + 1 ELSE recovered[e]]
  BY DEF ClaimOutbox
<1>5. sent' = sent
  BY DEF ClaimOutbox
<1> HIDE DEF claimed
<1>6. row' \in [Events -> OutboxRows]
  BY <1>1, <1>2, <1>3
<1>7. recovered' \in [Events -> Nat]
  BY <1>1, <1>4
<1>8. QED
  BY <1>5, <1>6, <1>7

\* What a mark writes.
LEMMA MarkType ==
    ASSUME TypeOK, NEW p \in Publishers, MarkPublished(p) \/ MarkRetry(p)
    PROVE  row' \in [Events -> OutboxRows]
<1>1. Current(p) \in Events
  BY CurrentType DEF MarkPublished, MarkRetry
<1>2. row[Current(p)] \in OutboxRows
  BY <1>1 DEF TypeOK
<1>3. /\ Unclaimed("PUBLISHED", row[Current(p)].attempts, FALSE) \in OutboxRows
      /\ Unclaimed("PENDING", row[Current(p)].attempts + 1, FALSE) \in OutboxRows
  BY <1>2, RowTypes
<1> DEFINE e == Current(p)
<1>4. \/ UNCHANGED row
      \/ row' = [row EXCEPT ![e] = Unclaimed("PUBLISHED", row[e].attempts, FALSE)]
      \/ row' = [row EXCEPT ![e] = Unclaimed("PENDING", row[e].attempts + 1, FALSE)]
  BY DEF MarkPublished, MarkRetry
<1> HIDE DEF e
<1>5. row \in [Events -> OutboxRows]
  BY DEF TypeOK
<1>6. QED
  BY <1>1, <1>3, <1>4, <1>5 DEF e

LEMMA TypeStep == TypeOK /\ [Next]_vars => TypeOK'
<1> SUFFICES ASSUME TypeOK, [Next]_vars PROVE TypeOK'
  OBVIOUS
<1> USE DEF TypeOK
<1>1. CASE UNCHANGED vars
  BY <1>1 DEF vars
<1>2. ASSUME NEW e \in Events, InsertOutbox(e) PROVE TypeOK'
  BY <1>2, RowTypes DEF InsertOutbox
<1>3. ASSUME NEW e \in Events, NEW attended, LeaseEnds(e, attended), NoFault \/ Fault PROVE TypeOK'
  <2>1. faults' \in 0..MaxFaults
    BY <1>3, PublisherAssumption DEF Fault, NoFault
  <2>2. QED
    BY <1>3, <2>1, RowTypes DEF LeaseEnds
<1>4. ASSUME NEW e \in Events, AttemptDue(e) PROVE TypeOK'
  BY <1>4, RowTypes DEF AttemptDue
<1>5. ASSUME NEW p \in Publishers, Claim(p) PROVE TypeOK'
  <2>1. PICK rows \in Batches : ClaimOutbox(p, rows) /\ batch' = [batch EXCEPT ![p] = rows]
    BY <1>5 DEF Claim
  <2>2. row' \in [Events -> OutboxRows] /\ recovered' \in [Events -> Nat] /\ sent' = sent
    BY <2>1, ClaimType
  <2>3. rows \in Seq(Events) /\ rows # << >>
    BY BatchType
  <2>4. /\ batch' \in [Publishers -> Seq(Events)]
        /\ pc' \in [Publishers -> {"poll", "send", "mark", "retry"}]
        /\ \A q \in Publishers : pc'[q] # "poll" => batch'[q] # << >>
    BY <1>5, <2>1, <2>3 DEF Claim
  <2>5. QED
    BY <1>5, <2>2, <2>4 DEF Claim, NoFault
<1>6. ASSUME NEW p \in Publishers, ClaimReplyLost(p) PROVE TypeOK'
  <2>1. PICK rows \in Batches : ClaimOutbox(p, rows)
    BY <1>6 DEF ClaimReplyLost
  <2>2. row' \in [Events -> OutboxRows] /\ recovered' \in [Events -> Nat] /\ sent' = sent
    BY <2>1, ClaimType
  <2>3. QED
    BY <1>6, <2>2, PublisherAssumption DEF ClaimReplyLost, Fault
<1>7. ASSUME NEW p \in Publishers, Send(p) \/ SendFails(p) PROVE TypeOK'
  <2>1. Current(p) \in Events
    BY <1>7, CurrentType DEF Send, SendFails
  <2>2. sent' \in [Events -> Nat]
    <3>1. sent[Current(p)] + 1 \in Nat
      BY <2>1
    <3>2. UNCHANGED sent \/ sent' = [sent EXCEPT ![Current(p)] = sent[Current(p)] + 1]
      BY <1>7 DEF Send, SendFails
    <3> DEFINE e == Current(p)
    <3> HIDE DEF e
    <3>3. [sent EXCEPT ![e] = sent[e] + 1] \in [Events -> Nat]
      BY <3>1 DEF e
    <3>4. QED
      BY <3>2, <3>3 DEF e
  <2>3. faults' \in 0..MaxFaults
    BY <1>7, PublisherAssumption DEF Send, SendFails, Fault, NoFault
  <2>4. /\ pc' \in [Publishers -> {"poll", "send", "mark", "retry"}] /\ UNCHANGED batch
        /\ \A q \in Publishers : pc'[q] # "poll" => batch'[q] # << >>
    BY <1>7 DEF Send, SendFails
  <2>5. QED
    BY <1>7, <2>2, <2>3, <2>4 DEF Send, SendFails
<1>8. ASSUME NEW p \in Publishers, pc[p] # "poll", Advance(p), NoFault \/ Fault,
             row' \in [Events -> OutboxRows], UNCHANGED <<sent, recovered>>
      PROVE  TypeOK'
  <2>1. faults' \in 0..MaxFaults
    BY <1>8, PublisherAssumption DEF Fault, NoFault
  <2>2. /\ batch' \in [Publishers -> Seq(Events)]
        /\ pc' \in [Publishers -> {"poll", "send", "mark", "retry"}]
        /\ \A q \in Publishers : pc'[q] # "poll" => batch'[q] # << >>
    BY <1>8, AdvanceType
  <2>3. QED
    BY <1>8, <2>1, <2>2
<1>9. ASSUME NEW p \in Publishers, MarkPublished(p) \/ MarkRetry(p) PROVE TypeOK'
  <2>1. row' \in [Events -> OutboxRows]
    BY <1>9, MarkType
  <2>2. QED
    BY <1>8, <1>9, <2>1 DEF MarkPublished, MarkRetry
<1>10. ASSUME NEW p \in Publishers, MarkFails(p) PROVE TypeOK'
  BY <1>8, <1>10 DEF MarkFails
<1>11. ASSUME NEW p \in Publishers, Crash(p) PROVE TypeOK'
  <2>1. << >> \in Seq(Events) /\ faults' \in 0..MaxFaults
    BY <1>11, PublisherAssumption DEF Crash, Fault
  <2>2. QED
    BY <1>11, <2>1 DEF Crash
<1>12. QED
  BY <1>1, <1>2, <1>3, <1>4, <1>5, <1>6, <1>7, <1>9, <1>10, <1>11
     DEF Next, Working, Failing, LeaseRunsOut, LeaseTooShort

\* The rows of outbox_events and the local state of the publishers are as the
\* schema and the code declare them; no publisher sends from an empty batch.
THEOREM PublisherTypes == Spec => []TypeOK
BY InitPublisher, TypeStep, PTL DEF Spec

-----------------------------------------------------------------------------
(* What is marked as published has been sent.                              *)

\* What the steps do to the counts of sends.
LEMMA SentGrows ==
    ASSUME TypeOK, [Next]_vars, NEW e \in Events
    PROVE  sent[e] \in Nat /\ sent'[e] \in Nat /\ sent'[e] >= sent[e]
<1>1. sent[e] \in Nat
  BY DEF TypeOK
<1>2. CASE UNCHANGED sent
  BY <1>1, <1>2
<1>3. ASSUME NEW p \in Publishers, Send(p) \/ SendFails(p)
      PROVE  sent'[e] \in Nat /\ sent'[e] >= sent[e]
  <2>1. UNCHANGED sent \/ sent' = [sent EXCEPT ![Current(p)] = sent[Current(p)] + 1]
    BY <1>3 DEF Send, SendFails
  <2>2. sent'[e] = sent[e] \/ sent'[e] = sent[e] + 1
    BY <2>1 DEF TypeOK
  <2>3. QED
    BY <1>1, <2>2
<1>4. QED
  BY <1>1, <1>2, <1>3 DEF Next, Working, Failing, vars, InsertOutbox, LeaseRunsOut, LeaseTooShort,
     LeaseEnds, AttemptDue, Claim, ClaimReplyLost, ClaimOutbox, MarkPublished, MarkRetry, MarkFails,
     Crash

\* A publisher that stands is as right as it was.
LEMMA StandsRight ==
    ASSUME TypeOK, [Next]_vars, NEW q \in Publishers, BatchRight(q),
           pc'[q] = pc[q], batch'[q] = batch[q]
    PROVE  BatchRight(q)'
<1>1. ASSUME pc[q] = "mark" PROVE sent'[Current(q)] > 0
  <2>1. Current(q) \in Events /\ sent[Current(q)] > 0
    BY <1>1, CurrentType DEF BatchRight
  <2>2. PICK e \in Events : e = Current(q)
    BY <2>1
  <2>3. sent'[e] > 0
    BY <2>1, <2>2, SentGrows
  <2>4. QED
    BY <2>2, <2>3
<1>2. pc'[q] = "mark" => sent'[Head(batch'[q])] > 0
  BY <1>1 DEF Current
<1>3. QED
  BY <1>2 DEF BatchRight, Current

LEMMA BatchesStep ==
    ASSUME TypeOK, BatchesRight, [Next]_vars, NEW q \in Publishers
    PROVE  BatchRight(q)'
<1>1. BatchRight(q)
  BY DEF BatchesRight
<1>2. CASE pc'[q] = pc[q] /\ batch'[q] = batch[q]
  BY <1>1, <1>2, StandsRight
<1>4. ASSUME NEW p \in Publishers, Claim(p) PROVE BatchRight(q)'
  <2>1. PICK rows \in Batches : batch' = [batch EXCEPT ![p] = rows]
    BY <1>4 DEF Claim
  <2>2. pc' = [pc EXCEPT ![p] = "send"]
    BY <1>4 DEF Claim
  <2>3. CASE p # q
    BY <1>2, <2>1, <2>2, <2>3
  <2>4. CASE p = q
    <3>1. pc'[q] = "send" /\ batch'[q] = rows
      BY <2>1, <2>2, <2>4 DEF TypeOK
    <3>2. QED
      BY <3>1, BatchType DEF BatchRight
  <2>5. QED
    BY <2>3, <2>4
<1>5. ASSUME NEW p \in Publishers, Send(p) PROVE BatchRight(q)'
  <2>1. /\ pc' = [pc EXCEPT ![p] = "mark"] /\ UNCHANGED batch /\ pc[p] = "send"
        /\ sent' = [sent EXCEPT ![Current(p)] = @ + 1]
    BY <1>5 DEF Send
  <2>2. CASE p # q
    BY <1>2, <2>1, <2>2
  <2>3. CASE p = q
    <3>1. Current(q) \in Events /\ Current(q)' = Current(q)
      BY <2>1, <2>3, CurrentType DEF Current
    <3>2. sent'[Current(q)] = sent[Current(q)] + 1 /\ sent[Current(q)] \in Nat
      BY <2>1, <2>3, <3>1 DEF TypeOK
    <3>3. sent'[Current(q)'] > 0
      BY <3>1, <3>2
    <3>4. pc'[q] = "mark"
      BY <2>1, <2>3 DEF TypeOK
    <3>5. QED
      BY <1>1, <2>1, <3>3, <3>4 DEF BatchRight
  <2>4. QED
    BY <2>2, <2>3
<1>6. ASSUME NEW p \in Publishers, SendFails(p) PROVE BatchRight(q)'
  <2>1. pc' = [pc EXCEPT ![p] = "retry"] /\ UNCHANGED batch
    BY <1>6 DEF SendFails
  <2>2. CASE p # q
    BY <1>2, <2>1, <2>2
  <2>3. CASE p = q
    <3>1. pc'[q] = "retry"
      BY <2>1, <2>3 DEF TypeOK
    <3>2. QED
      BY <1>1, <2>1, <3>1 DEF BatchRight
  <2>4. QED
    BY <2>2, <2>3
<1>7. ASSUME NEW p \in Publishers, pc[p] # "poll", Advance(p) PROVE BatchRight(q)'
  <2>1. CASE p # q
    BY <1>2, <1>7, <2>1, AdvanceType
  <2>2. CASE p = q
    <3>1. /\ pc'[q] \in {"poll", "send"}
          /\ pc'[q] = "poll" <=> batch'[q] = << >>
          /\ batch'[q] \in Seq(Events)
          /\ \A i \in DOMAIN batch'[q] :
               i + 1 \in DOMAIN batch[q] /\ batch'[q][i] = batch[q][i + 1]
      BY <1>7, <2>2, AdvanceType
    <3>2. \A i, j \in DOMAIN batch'[q] : batch'[q][i] = batch'[q][j] => i + 1 = j + 1
      BY <1>1, <3>1 DEF BatchRight
    <3>3. \A i \in DOMAIN batch'[q] : i \in Nat
      BY <3>1
    <3>4. \A i, j \in DOMAIN batch'[q] : batch'[q][i] = batch'[q][j] => i = j
      BY <3>2, <3>3
    <3>5. QED
      BY <3>1, <3>4 DEF BatchRight
  <2>3. QED
    BY <2>1, <2>2
<1>8. ASSUME NEW p \in Publishers, Crash(p) PROVE BatchRight(q)'
  <2>1. pc' = [pc EXCEPT ![p] = "poll"] /\ batch' = [batch EXCEPT ![p] = << >>]
    BY <1>8 DEF Crash
  <2>2. CASE p # q
    BY <1>2, <2>1, <2>2
  <2>3. CASE p = q
    <3>1. pc'[q] = "poll" /\ batch'[q] = << >>
      BY <2>1, <2>3 DEF TypeOK
    <3>2. QED
      BY <3>1 DEF BatchRight
  <2>4. QED
    BY <2>2, <2>3
<1>9. CASE UNCHANGED <<pc, batch>>
  BY <1>2, <1>9
<1>10. QED
  BY <1>4, <1>5, <1>6, <1>7, <1>8, <1>9 DEF Next, Working, Failing, vars, InsertOutbox,
     LeaseRunsOut, LeaseTooShort, LeaseEnds, AttemptDue, ClaimReplyLost, MarkPublished, MarkRetry,
     MarkFails

-----------------------------------------------------------------------------
(* What may happen to a row.                                               *)

\* The row of e, before and after a mark of p.
Marked(p, e) ==
    /\ pc[p] \in {"mark", "retry"} /\ Current(p) = e
    /\ row[e].status = "PROCESSING" /\ row[e].token = p
    /\ batch'[p] = Tail(batch[p])
    /\ IF pc[p] = "mark"
       THEN row'[e].status = "PUBLISHED" /\ row'[e].attempts = row[e].attempts
       ELSE row'[e].status = "PENDING" /\ row'[e].attempts = row[e].attempts + 1

RowKinds(e) ==
    \/ row'[e] = row[e]
    \/ row[e].status = "ABSENT" /\ row'[e].status = "PENDING"
    \/ Claimable(e) /\ row'[e].status = "PROCESSING"
    \/ row[e].status = row'[e].status /\ row[e].status \in {"PENDING", "PROCESSING"}
    \/ \E p \in Publishers : Marked(p, e)

LEMMA MarkedRow ==
    ASSUME TypeOK, NEW p \in Publishers, MarkPublished(p) \/ MarkRetry(p), NEW e \in Events
    PROVE  row'[e] = row[e] \/ Marked(p, e)
<1>1. /\ Current(p) \in Events /\ pc[p] \in {"mark", "retry"} /\ batch'[p] = Tail(batch[p])
      /\ MarkPublished(p) => pc[p] = "mark"
      /\ MarkRetry(p) => pc[p] = "retry"
  BY CurrentType DEF MarkPublished, MarkRetry, Advance, TypeOK
<1>2. CASE HasClaim(p) /\ MarkPublished(p)
  <2> DEFINE f == Current(p)
  <2>1. row' = [row EXCEPT ![f] = Unclaimed("PUBLISHED", row[f].attempts, FALSE)]
    BY <1>2 DEF MarkPublished
  <2>2. CASE e # f
    BY <1>1, <2>1, <2>2 DEF TypeOK
  <2>3. CASE e = f
    <3>1. row'[e] = Unclaimed("PUBLISHED", row[e].attempts, FALSE)
      BY <2>1, <2>3 DEF TypeOK
    <3>2. QED
      BY <1>1, <1>2, <2>3, <3>1 DEF HasClaim, Unclaimed, Marked
  <2>4. QED
    BY <2>2, <2>3
<1>3. CASE HasClaim(p) /\ MarkRetry(p)
  <2> DEFINE f == Current(p)
  <2>1. row' = [row EXCEPT ![f] = Unclaimed("PENDING", row[f].attempts + 1, FALSE)]
    BY <1>3 DEF MarkRetry
  <2>2. CASE e # f
    BY <1>1, <2>1, <2>2 DEF TypeOK
  <2>3. CASE e = f
    <3>1. row'[e] = Unclaimed("PENDING", row[e].attempts + 1, FALSE)
      BY <2>1, <2>3 DEF TypeOK
    <3>2. QED
      BY <1>1, <1>3, <2>3, <3>1 DEF HasClaim, Unclaimed, Marked
  <2>4. QED
    BY <2>2, <2>3
<1>4. CASE ~HasClaim(p)
  BY <1>4 DEF MarkPublished, MarkRetry
<1>5. QED
  BY <1>2, <1>3, <1>4

\* A claim puts the rows it takes in process and leaves the others alone.
LEMMA ClaimedRow ==
    ASSUME TypeOK, NEW p \in Publishers, NEW rows \in Batches, ClaimOutbox(p, rows), NEW e \in Events
    PROVE  /\ (\A i \in DOMAIN rows : rows[i] # e) => row'[e] = row[e] /\ recovered'[e] = recovered[e]
           /\ (\E i \in DOMAIN rows : rows[i] = e) =>
                /\ Claimable(e)
                /\ row'[e].status = "PROCESSING" /\ row'[e].attempts = row[e].attempts
                /\ recovered'[e] = IF row[e].status = "PROCESSING" THEN recovered[e] + 1
                                   ELSE recovered[e]
<1> DEFINE claimed == {rows[i] : i \in DOMAIN rows}
<1>1. row[e] \in OutboxRows
  BY DEF TypeOK
<1>2. /\ row'[e] = IF e \in claimed
                   THEN [row[e] EXCEPT !.status = "PROCESSING", !.token = p, !.leased = TRUE]
                   ELSE row[e]
      /\ recovered'[e] = IF e \in claimed /\ row[e].status = "PROCESSING" /\ ~row[e].leased
                         THEN recovered[e] + 1 ELSE recovered[e]
  BY DEF ClaimOutbox
<1>3. CASE \A i \in DOMAIN rows : rows[i] # e
  <2>1. e \notin claimed
    BY <1>3
  <2>2. QED
    BY <1>2, <1>3, <2>1
<1>4. CASE \E i \in DOMAIN rows : rows[i] = e
  <2>1. e \in claimed /\ Claimable(e)
    BY <1>4, BatchType
  <2>2. row'[e] = [row[e] EXCEPT !.status = "PROCESSING", !.token = p, !.leased = TRUE]
    BY <1>2, <2>1
  <2>3. row'[e].status = "PROCESSING" /\ row'[e].attempts = row[e].attempts
    BY <1>1, <2>2 DEF OutboxRows
  <2>4. recovered'[e] = IF row[e].status = "PROCESSING" THEN recovered[e] + 1 ELSE recovered[e]
    BY <1>2, <2>1 DEF Claimable
  <2>5. QED
    BY <1>4, <2>1, <2>3, <2>4
<1>5. QED
  BY <1>3, <1>4

LEMMA RowStep ==
    ASSUME TypeOK, [Next]_vars, NEW e \in Events
    PROVE  RowKinds(e)
<1>1. row[e] \in OutboxRows
  BY DEF TypeOK
<1>2. CASE UNCHANGED row
  BY <1>2 DEF RowKinds
<1>3. ASSUME NEW f \in Events, InsertOutbox(f) PROVE RowKinds(e)
  BY <1>1, <1>3 DEF InsertOutbox, RowKinds, TypeOK, OutboxRows
<1>4. ASSUME NEW f \in Events, NEW attended, LeaseEnds(f, attended) PROVE RowKinds(e)
  BY <1>1, <1>4 DEF LeaseEnds, RowKinds, TypeOK, OutboxRows
<1>5. ASSUME NEW f \in Events, AttemptDue(f) PROVE RowKinds(e)
  BY <1>1, <1>5 DEF AttemptDue, RowKinds, TypeOK, OutboxRows
<1>6. ASSUME NEW p \in Publishers, NEW rows \in Batches, ClaimOutbox(p, rows) PROVE RowKinds(e)
  BY <1>6, ClaimedRow DEF RowKinds
<1>7. ASSUME NEW p \in Publishers, MarkPublished(p) \/ MarkRetry(p) PROVE RowKinds(e)
  BY <1>7, MarkedRow DEF RowKinds
<1>8. QED
  BY <1>2, <1>3, <1>4, <1>5, <1>6, <1>7 DEF Next, Working, Failing, vars, LeaseRunsOut,
     LeaseTooShort, Claim, ClaimReplyLost, Send, SendFails, MarkFails, Crash

\* What is published stays so, and a row in process is released only by a mark of the
\* publisher that has its token: a late publisher finds no row to change.
THEOREM ClaimsKept == Spec => ClaimsRespected
<1>1. ASSUME TypeOK, [Next]_vars, NEW e \in Events
      PROVE  /\ row[e].status = "PUBLISHED" => row'[e] = row[e]
             /\ row[e].status = "PROCESSING" /\ row'[e].status # "PROCESSING" =>
                  \E p \in Publishers : /\ row[e].token = p
                                        /\ pc[p] \in {"mark", "retry"} /\ Current(p) = e
                                        /\ batch'[p] = Tail(batch[p])
  BY <1>1, RowStep DEF RowKinds, Marked, Claimable
<1>2. TypeOK /\ [Next]_vars =>
        [\A e \in Events :
           /\ row[e].status = "PUBLISHED" => row'[e] = row[e]
           /\ row[e].status = "PROCESSING" /\ row'[e].status # "PROCESSING" =>
                \E p \in Publishers : /\ row[e].token = p
                                      /\ pc[p] \in {"mark", "retry"} /\ Current(p) = e
                                      /\ batch'[p] = Tail(batch[p])]_vars
  BY <1>1
<1>3. QED
  BY <1>2, PublisherTypes, PTL DEF Spec, ClaimsRespected

\* No row is PUBLISHED whose event SQS has not accepted: the publisher that marks it has
\* sent it, under this claim or under an earlier one.
LEMMA PublishedStep ==
    ASSUME TypeOK, BatchesRight, PublishedWasSent, [Next]_vars
    PROVE  PublishedWasSent'
<1> SUFFICES ASSUME NEW e \in Events, row'[e].status = "PUBLISHED" PROVE sent'[e] > 0
  BY DEF PublishedWasSent
<1>1. sent[e] > 0
  <2>1. CASE row[e].status = "PUBLISHED"
    BY <2>1 DEF PublishedWasSent
  <2>2. ASSUME NEW p \in Publishers, Marked(p, e) PROVE sent[e] > 0
    BY <2>2 DEF Marked, BatchesRight, BatchRight
  <2>3. QED
    BY <2>1, <2>2, RowStep DEF RowKinds
<1>2. QED
  BY <1>1, SentGrows

LEMMA BatchesInductive == Spec => [](TypeOK /\ BatchesRight /\ PublishedWasSent)
<1>1. Init => TypeOK /\ BatchesRight /\ PublishedWasSent
  BY InitPublisher DEF Init, BatchesRight, BatchRight, PublishedWasSent
<1>2. TypeOK /\ BatchesRight /\ PublishedWasSent /\ [Next]_vars =>
        TypeOK' /\ BatchesRight' /\ PublishedWasSent'
  BY TypeStep, BatchesStep, PublishedStep DEF BatchesRight
<1>3. QED
  BY <1>1, <1>2, PTL DEF Spec

\* An event is PUBLISHED only after SQS accepted it, whoever sent it and whoever marks it.
THEOREM PublishedSent == Spec => []PublishedWasSent
BY BatchesInductive, PTL

-----------------------------------------------------------------------------
(* How often an event is sent.                                             *)

\* Two sets of publishers that differ at most in p.
LEMMA Toggled ==
    ASSUME NEW S \in SUBSET Publishers, NEW T \in SUBSET Publishers, NEW p \in Publishers,
           \A q \in Publishers : q # p => (q \in S <=> q \in T)
    PROVE  /\ Cardinality(S) \in Nat /\ Cardinality(T) \in Nat
           /\ Cardinality(T) <= Cardinality(S) + 1
           /\ (p \in T => p \in S) => Cardinality(T) <= Cardinality(S)
           /\ p \in S /\ p \notin T => Cardinality(T) = Cardinality(S) - 1
<1>1. IsFiniteSet(S) /\ IsFiniteSet(T)
  BY PublisherAssumption, FS_Subset
<1>2. Cardinality(S) \in Nat /\ Cardinality(T) \in Nat
  BY <1>1, FS_CardinalityType
<1>3. CASE (p \in S <=> p \in T)
  <2>1. S = T
    BY <1>3
  <2>2. QED
    BY <1>2, <1>3, <2>1
<1>4. CASE p \in S /\ p \notin T
  <2>1. T = S \ {p}
    BY <1>4
  <2>2. Cardinality(T) = Cardinality(S) - 1
    BY <1>1, <1>4, <2>1, FS_RemoveElement
  <2>3. QED
    BY <1>2, <1>4, <2>2
<1>5. CASE p \notin S /\ p \in T
  <2>1. T = S \cup {p}
    BY <1>5
  <2>2. Cardinality(T) = Cardinality(S) + 1
    BY <1>1, <1>5, <2>1, FS_AddElement
  <2>3. QED
    BY <1>2, <1>5, <2>2
<1>6. QED
  BY <1>3, <1>4, <1>5

\* Only the publisher that acts changes what it owes.
LEMMA OwingMoves ==
    ASSUME NEW p \in Publishers, NEW e \in Events,
           \A q \in Publishers : q # p => pc'[q] = pc[q] /\ batch'[q] = batch[q]
    PROVE  /\ Cardinality(Owing(e)) \in Nat /\ Cardinality(Owing(e))' \in Nat
           /\ Cardinality(Owing(e))' <= Cardinality(Owing(e)) + 1
           /\ (Owes(p, e)' => Owes(p, e)) => Cardinality(Owing(e))' <= Cardinality(Owing(e))
           /\ Owes(p, e) /\ ~Owes(p, e)' => Cardinality(Owing(e))' = Cardinality(Owing(e)) - 1
<1> DEFINE S == Owing(e)
           T == Owing(e)'
<1>1. S \in SUBSET Publishers /\ T \in SUBSET Publishers
  BY DEF Owing
<1>2. \A q \in Publishers : q # p => (Owes(q, e) <=> Owes(q, e)')
  BY DEF Owes
<1>3. \A q \in Publishers : (q \in S <=> Owes(q, e)) /\ (q \in T <=> Owes(q, e)')
  BY DEF Owing
<1> HIDE DEF S, T
<1>4. \A q \in Publishers : q # p => (q \in S <=> q \in T)
  BY <1>2, <1>3
<1>5. /\ Cardinality(S) \in Nat /\ Cardinality(T) \in Nat
      /\ Cardinality(T) <= Cardinality(S) + 1
      /\ (p \in T => p \in S) => Cardinality(T) <= Cardinality(S)
      /\ p \in S /\ p \notin T => Cardinality(T) = Cardinality(S) - 1
  BY <1>1, <1>4, Toggled
<1>6. Cardinality(S) = Cardinality(Owing(e)) /\ Cardinality(T) = Cardinality(Owing(e))'
  BY DEF S, T
<1>7. QED
  BY <1>3, <1>5, <1>6

\* The claims of an event are a number, and change only as its row does.
LEMMA ClaimsType ==
    ASSUME TypeOK, NEW e \in Events
    PROVE  /\ row[e].attempts \in Nat /\ recovered[e] \in Nat /\ Claims(e) \in Nat
           /\ sent[e] \in Nat
BY DEF TypeOK, OutboxRows, Claims

LEMMA ClaimedClaims ==
    ASSUME TypeOK, NEW p \in Publishers, NEW rows \in Batches, ClaimOutbox(p, rows), NEW e \in Events
    PROVE  /\ Claims(e)' >= Claims(e)
           /\ (\E i \in DOMAIN rows : rows[i] = e) => Claims(e)' = Claims(e) + 1
<1>1. CASE \A i \in DOMAIN rows : rows[i] # e
  <2>1. row'[e] = row[e] /\ recovered'[e] = recovered[e]
    BY <1>1, ClaimedRow
  <2>2. Claims(e)' = Claims(e) /\ Claims(e) \in Nat
    BY <2>1, ClaimsType DEF Claims
  <2>3. QED
    BY <1>1, <2>2
<1>2. CASE \E i \in DOMAIN rows : rows[i] = e
  <2>1. /\ row[e].status \in {"PENDING", "PROCESSING"}
        /\ row'[e].status = "PROCESSING" /\ row'[e].attempts = row[e].attempts
        /\ recovered'[e] = IF row[e].status = "PROCESSING" THEN recovered[e] + 1 ELSE recovered[e]
    BY <1>2, ClaimedRow DEF Claimable
  <2>2. Claims(e)' = Claims(e) + 1 /\ Claims(e) \in Nat
    BY <2>1, ClaimsType DEF Claims
  <2>3. QED
    BY <2>2
<1>3. QED
  BY <1>1, <1>2


\* Whatever else a step does to a row, it counts as many claims as before.
LEMMA OtherClaims ==
    ASSUME TypeOK, NEW e \in Events, row'[e].attempts = row[e].attempts, recovered'[e] = recovered[e],
           row'[e].status = row[e].status \/ (row[e].status = "ABSENT" /\ row'[e].status = "PENDING")
    PROVE  Claims(e)' = Claims(e)
BY ClaimsType DEF Claims

LEMMA MarkedClaims ==
    ASSUME TypeOK, NEW p \in Publishers, NEW e \in Events, UNCHANGED recovered,
           row'[e] = row[e] \/ Marked(p, e)
    PROVE  Claims(e)' = Claims(e)
<1>1. row[e].attempts \in Nat /\ recovered[e] \in Nat
  BY ClaimsType
<1>2. CASE row'[e] = row[e]
  BY <1>2 DEF Claims
<1>3. CASE Marked(p, e)
  BY <1>1, <1>3 DEF Marked, Claims
<1>4. QED
  BY <1>2, <1>3

\* A publisher that has just claimed owes what it claimed and nothing else.
LEMMA ClaimSends ==
    ASSUME TypeOK, BatchesRight, NEW e \in Events, SendsRight(e), NEW p \in Publishers, Claim(p)
    PROVE  SendsRight(e)'
<1>1. PICK rows \in Batches : ClaimOutbox(p, rows) /\ batch' = [batch EXCEPT ![p] = rows]
  BY DEF Claim
<1>2. /\ \A q \in Publishers : q # p => pc'[q] = pc[q] /\ batch'[q] = batch[q]
      /\ batch'[p] = rows /\ batch[p] = << >>
  BY <1>1 DEF Claim, TypeOK, BatchesRight, BatchRight
<1>3. UNCHANGED sent
  BY <1>1 DEF ClaimOutbox
<1>4. /\ Cardinality(Owing(e)) \in Nat /\ Cardinality(Owing(e))' \in Nat
      /\ Cardinality(Owing(e))' <= Cardinality(Owing(e)) + 1
      /\ (Owes(p, e)' => Owes(p, e)) => Cardinality(Owing(e))' <= Cardinality(Owing(e))
  BY <1>2, OwingMoves
<1>5. Claims(e)' >= Claims(e) /\ Claims(e) \in Nat /\ Claims(e)' \in Nat /\ sent[e] \in Nat
  <2>1. Claims(e)' \in Nat
    BY <1>1, ClaimType, ClaimsType DEF Claims, OutboxRows
  <2>2. QED
    BY <1>1, <2>1, ClaimedClaims, ClaimsType
<1>6. CASE \E i \in DOMAIN rows : rows[i] = e
  <2>1. Claims(e)' = Claims(e) + 1
    BY <1>1, <1>6, ClaimedClaims
  <2>2. QED
    BY <1>3, <1>4, <1>5, <2>1 DEF SendsRight
<1>7. CASE \A i \in DOMAIN rows : rows[i] # e
  <2>1. ~Owes(p, e)'
    BY <1>2, <1>7 DEF Owes
  <2>2. QED
    BY <1>3, <1>4, <1>5, <2>1 DEF SendsRight
<1>8. QED
  BY <1>6, <1>7

\* A send, and one that fails after SQS has accepted the event, settles a claim.
LEMMA SendSends ==
    ASSUME TypeOK, BatchesRight, NEW e \in Events, SendsRight(e), NEW p \in Publishers,
           Send(p) \/ SendFails(p)
    PROVE  SendsRight(e)'
<1>1. /\ pc[p] = "send" /\ pc'[p] # "send" /\ UNCHANGED <<row, batch, recovered>>
      /\ \A q \in Publishers : q # p => pc'[q] = pc[q] /\ batch'[q] = batch[q]
      /\ sent' = sent \/ sent' = [sent EXCEPT ![Current(p)] = sent[Current(p)] + 1]
  BY DEF Send, SendFails, TypeOK
<1>2. /\ Cardinality(Owing(e)) \in Nat /\ Cardinality(Owing(e))' \in Nat
      /\ (Owes(p, e)' => Owes(p, e)) => Cardinality(Owing(e))' <= Cardinality(Owing(e))
      /\ Owes(p, e) /\ ~Owes(p, e)' => Cardinality(Owing(e))' = Cardinality(Owing(e)) - 1
  BY <1>1, OwingMoves
<1>3. Claims(e)' = Claims(e) /\ Claims(e) \in Nat /\ sent[e] \in Nat
  BY <1>1, ClaimsType DEF Claims
<1>4. Owes(p, e)' => Owes(p, e)
  BY <1>1 DEF Owes
<1>5. /\ Current(p) = batch[p][1] /\ 1 \in DOMAIN batch[p] /\ Current(p) \in Events
      /\ \A i, j \in DOMAIN batch[p] : batch[p][i] = batch[p][j] => i = j
  BY <1>1, CurrentType DEF BatchesRight, BatchRight
<1>6. CASE sent'[e] = sent[e]
  BY <1>2, <1>3, <1>4, <1>6 DEF SendsRight
<1>7. CASE e = Current(p)
  <2>1. Owes(p, e)
    BY <1>1, <1>5, <1>7 DEF Owes
  <2>2. ~Owes(p, e)'
    BY <1>1, <1>5, <1>7 DEF Owes
  <2>3. sent'[e] = sent[e] \/ sent'[e] = sent[e] + 1
    BY <1>1, <1>7 DEF TypeOK
  <2>4. QED
    BY <1>2, <1>3, <2>1, <2>2, <2>3 DEF SendsRight
<1>8. CASE e # Current(p)
  BY <1>1, <1>6, <1>8 DEF TypeOK
<1>9. QED
  BY <1>7, <1>8

\* On to the next row: the row that was current has been tried, the others are still owed.
LEMMA AdvanceSends ==
    ASSUME TypeOK, NEW e \in Events, SendsRight(e), NEW p \in Publishers,
           pc[p] \in {"mark", "retry"}, Advance(p), UNCHANGED sent, Claims(e)' = Claims(e)
    PROVE  SendsRight(e)'
<1>1. /\ \A q \in Publishers : q # p => pc'[q] = pc[q] /\ batch'[q] = batch[q]
      /\ Len(batch'[p]) = Len(batch[p]) - 1
      /\ batch'[p] \in Seq(Events)
      /\ \A i \in DOMAIN batch'[p] : i + 1 \in DOMAIN batch[p] /\ batch'[p][i] = batch[p][i + 1]
  BY AdvanceType
<1>2. /\ Cardinality(Owing(e)) \in Nat /\ Cardinality(Owing(e))' \in Nat
      /\ (Owes(p, e)' => Owes(p, e)) => Cardinality(Owing(e))' <= Cardinality(Owing(e))
  BY <1>1, OwingMoves
<1>3. ASSUME Owes(p, e)' PROVE Owes(p, e)
  <2>1. PICK i \in DOMAIN batch'[p] : batch'[p][i] = e
    BY <1>3 DEF Owes
  <2>2. i + 1 \in DOMAIN batch[p] /\ batch[p][i + 1] = e /\ i + 1 # 1
    <3>1. i \in Nat \ {0}
      BY <1>1, <2>1
    <3>2. QED
      BY <1>1, <2>1, <3>1
  <2>3. QED
    BY <2>2 DEF Owes
<1>4. Claims(e) \in Nat /\ sent[e] \in Nat
  BY ClaimsType
<1>5. QED
  BY <1>2, <1>3, <1>4 DEF SendsRight

LEMMA SendsStep ==
    ASSUME TypeOK, BatchesRight, NEW e \in Events, SendsRight(e), [Next]_vars
    PROVE  SendsRight(e)'
<1>1. row[e] \in OutboxRows
  BY DEF TypeOK
<1>2. CASE UNCHANGED <<pc, batch, sent>> /\ Claims(e)' = Claims(e)
  BY <1>2 DEF SendsRight, Owing, Owes
<1>3. CASE UNCHANGED vars
  BY <1>2, <1>3 DEF vars, Claims
<1>4. ASSUME NEW f \in Events, InsertOutbox(f) PROVE SendsRight(e)'
  <2>1. /\ row'[e].attempts = row[e].attempts
        /\ row'[e].status = row[e].status \/ (row[e].status = "ABSENT" /\ row'[e].status = "PENDING")
    BY <1>1, <1>4 DEF InsertOutbox, TypeOK, OutboxRows
  <2>2. QED
    BY <1>2, <1>4, <2>1, OtherClaims DEF InsertOutbox
<1>5. ASSUME NEW f \in Events, NEW attended, LeaseEnds(f, attended) PROVE SendsRight(e)'
  <2>1. row'[e].attempts = row[e].attempts /\ row'[e].status = row[e].status
    BY <1>1, <1>5 DEF LeaseEnds, TypeOK, OutboxRows
  <2>2. QED
    BY <1>2, <1>5, <2>1, OtherClaims DEF LeaseEnds
<1>6. ASSUME NEW f \in Events, AttemptDue(f) PROVE SendsRight(e)'
  <2>1. row'[e].attempts = row[e].attempts /\ row'[e].status = row[e].status
    BY <1>1, <1>6 DEF AttemptDue, TypeOK, OutboxRows
  <2>2. QED
    BY <1>2, <1>6, <2>1, OtherClaims DEF AttemptDue
<1>7. ASSUME NEW p \in Publishers, Claim(p) PROVE SendsRight(e)'
  BY <1>7, ClaimSends
<1>8. ASSUME NEW p \in Publishers, ClaimReplyLost(p) PROVE SendsRight(e)'
  <2>1. PICK rows \in Batches : ClaimOutbox(p, rows)
    BY <1>8 DEF ClaimReplyLost
  <2>2. Claims(e)' >= Claims(e) /\ UNCHANGED <<pc, batch, sent>>
    BY <1>8, <2>1, ClaimedClaims DEF ClaimReplyLost, ClaimOutbox
  <2>3. Owing(e)' = Owing(e)
    BY <2>2 DEF Owing, Owes
  <2>4. Cardinality(Owing(e)) \in Nat
    BY PublisherAssumption, FS_Subset, FS_CardinalityType DEF Owing
  <2>5. sent[e] \in Nat /\ Claims(e) \in Nat /\ Claims(e)' \in Nat
    BY <2>1, ClaimType, ClaimsType DEF Claims, OutboxRows
  <2>6. QED
    BY <2>2, <2>3, <2>4, <2>5 DEF SendsRight
<1>9. ASSUME NEW p \in Publishers, Send(p) \/ SendFails(p) PROVE SendsRight(e)'
  BY <1>9, SendSends
<1>10. ASSUME NEW p \in Publishers, MarkPublished(p) \/ MarkRetry(p) PROVE SendsRight(e)'
  <2>1. Claims(e)' = Claims(e)
    BY <1>10, MarkedRow, MarkedClaims DEF MarkPublished, MarkRetry
  <2>2. QED
    BY <1>10, <2>1, AdvanceSends DEF MarkPublished, MarkRetry
<1>11. ASSUME NEW p \in Publishers, MarkFails(p) PROVE SendsRight(e)'
  <2>1. Claims(e)' = Claims(e)
    BY <1>11 DEF MarkFails, Claims
  <2>2. QED
    BY <1>11, <2>1, AdvanceSends DEF MarkFails
<1>12. ASSUME NEW p \in Publishers, Crash(p) PROVE SendsRight(e)'
  <2>1. /\ \A q \in Publishers : q # p => pc'[q] = pc[q] /\ batch'[q] = batch[q]
        /\ batch'[p] = << >> /\ UNCHANGED <<row, sent, recovered>>
    BY <1>12 DEF Crash, TypeOK
  <2>2. ~Owes(p, e)'
    BY <2>1 DEF Owes
  <2>3. /\ Cardinality(Owing(e)) \in Nat /\ Cardinality(Owing(e))' \in Nat
        /\ Cardinality(Owing(e))' <= Cardinality(Owing(e))
    BY <2>1, <2>2, OwingMoves
  <2>4. Claims(e)' = Claims(e) /\ Claims(e) \in Nat /\ sent[e] \in Nat
    BY <2>1, ClaimsType DEF Claims
  <2>5. QED
    BY <2>1, <2>3, <2>4 DEF SendsRight
<1>13. QED
  BY <1>3, <1>4, <1>5, <1>6, <1>7, <1>8, <1>9, <1>10, <1>11, <1>12
     DEF Next, Working, Failing, LeaseRunsOut, LeaseTooShort

LEMMA InitSends == Init => SendsClaimed
<1> SUFFICES ASSUME Init, NEW e \in Events PROVE sent[e] + Cardinality(Owing(e)) <= Claims(e)
  BY DEF SendsClaimed, SendsRight
<1>1. Owing(e) = {}
  BY DEF Init, Owing, Owes
<1>2. Cardinality(Owing(e)) = 0
  BY <1>1, FS_EmptySet
<1>3. sent[e] = 0 /\ Claims(e) = 0
  BY DEF Init, Claims
<1>4. QED
  BY <1>2, <1>3

\* At most as often as it was claimed.
LEMMA SendsExplained == TypeOK /\ SendsClaimed => DuplicatesExplained
<1> SUFFICES ASSUME TypeOK, SendsClaimed, NEW e \in Events
             PROVE  sent[e] <= 1 + row[e].attempts + recovered[e]
  BY DEF DuplicatesExplained
<1>1. Cardinality(Owing(e)) \in Nat
  BY PublisherAssumption, FS_Subset, FS_CardinalityType DEF Owing
<1>2. row[e].attempts \in Nat /\ recovered[e] \in Nat /\ sent[e] \in Nat
  BY ClaimsType
<1>3. Claims(e) <= row[e].attempts + recovered[e] + 1
  BY <1>2 DEF Claims
<1>4. sent[e] + Cardinality(Owing(e)) <= Claims(e) /\ Claims(e) \in Nat
  BY ClaimsType DEF SendsClaimed, SendsRight
<1>5. QED
  BY <1>1, <1>2, <1>3, <1>4

\* SQS gets an event once, and once more for each recorded failure and each lease that
\* ended before its row was marked, however many publishers there are and whatever fails.
THEOREM SendsBounded == Spec => []DuplicatesExplained
<1>1. Init => PublisherInv
  BY InitPublisher, InitSends DEF PublisherInv, Init, BatchesRight, BatchRight, PublishedWasSent
<1>2. PublisherInv /\ [Next]_vars => PublisherInv'
  <2> SUFFICES ASSUME PublisherInv, [Next]_vars PROVE PublisherInv'
    OBVIOUS
  <2>1. TypeOK' /\ BatchesRight' /\ PublishedWasSent'
    BY TypeStep, BatchesStep, PublishedStep DEF PublisherInv, BatchesRight
  <2>2. SendsClaimed'
    <3>1. ASSUME NEW e \in Events PROVE SendsRight(e)'
      BY SendsStep DEF PublisherInv, SendsClaimed
    <3>2. QED
      BY <3>1 DEF SendsClaimed
  <2>3. QED
    BY <2>1, <2>2 DEF PublisherInv
<1>3. PublisherInv => DuplicatesExplained
  BY SendsExplained DEF PublisherInv
<1>4. QED
  BY <1>1, <1>2, <1>3, PTL DEF Spec

=============================================================================
