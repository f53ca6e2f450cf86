---------------------------- MODULE FifoDelivery ----------------------------
(***************************************************************************)
(* The order and the receive counts of the wagering FIFO queue: what       *)
(* consumers that take batches, keep going after an error and let the      *)
(* queue retry do to the order of a message group, and which messages end  *)
(* in the dead-letter queue.                                               *)
(*                                                                         *)
(* The queue is external: no message of a group is received while another  *)
(* one of the group is hidden, a batch has the messages of a group in the  *)
(* order they were sent, and one that was received MaxReceives times goes  *)
(* to the dead-letter queue.  InboxConsumer has the handling of a message  *)
(* in its steps; here it is one, with the delete after it.                 *)
(***************************************************************************)
EXTENDS Integers, FiniteSets, SequencesExt

CONSTANTS
    Messages,     \* numbered in the order they were sent
    Groups,
    Group,        \* the message group of each
    Poison,       \* the messages every handling of which is refused
    Consumers,
    BatchSize,    \* messages received at once
    MaxReceives,  \* maxReceiveCount of the redrive policy
    MaxFaults     \* bound: failures

ASSUME FifoDeliveryAssumption ==
    /\ Messages \subseteq Nat
    /\ Group \in [Messages -> Groups]
    /\ Poison \subseteq Messages
    /\ {BatchSize, MaxReceives} \subseteq Nat \ {0}
    /\ MaxFaults \in Nat

VARIABLES
    queue,     \* where each message is
    receives,  \* how often it was received
    batch,     \* what each consumer has still to handle, with the receipts
    handled,   \* whether it has handled the first of them and has to delete it
    executed,  \* the messages whose transaction has committed, in that order
    tried,     \* history: the messages whose transaction has failed
    faults     \* failures so far

vars == <<queue, receives, batch, handled, executed, tried, faults>>

Received == [msg : Messages, receipt : 1 .. MaxReceives]

\* Every variable has its type; no message is executed twice, nor a poison one.
TypeOK ==
    /\ queue \in [Messages -> {"ready", "hidden", "deleted", "dead"}]
    /\ receives \in [Messages -> 0 .. MaxReceives]
    /\ batch \in [Consumers -> Seq(Received)]
    /\ handled \in [Consumers -> BOOLEAN]
    /\ \A c \in Consumers : handled[c] => batch[c] # << >>
    /\ executed \in Seq(Messages \ Poison) /\ IsInjective(executed)
    /\ tried \subseteq Messages
    /\ faults \in 0 .. MaxFaults

Init ==
    /\ queue = [m \in Messages |-> "ready"]
    /\ receives = [m \in Messages |-> 0]
    /\ batch = [c \in Consumers |-> << >>]
    /\ handled = [c \in Consumers |-> FALSE]
    /\ executed = << >>
    /\ tried = {}
    /\ faults = 0

-----------------------------------------------------------------------------
(* The queue.                                                              *)

Live(m) == queue[m] \in {"ready", "hidden"}

\* The messages m may be received after.
Before(m) == {n \in Messages : Group[n] = Group[m] /\ n < m /\ Live(n)}

Open == {m \in Messages : /\ queue[m] = "ready" /\ receives[m] < MaxReceives
                          /\ \A n \in Messages : Group[n] = Group[m] => queue[n] # "hidden"}

Batches ==
    {b \in SeqOf(Open, BatchSize) :
        /\ b # << >> /\ IsInjective(b)
        /\ \A i \in DOMAIN b : Before(b[i]) \subseteq {b[j] : j \in 1 .. i - 1}}

\* Fault: the consumer handles the last message of the batch first.
ReceiveReversed(c) ==
    /\ batch[c] = << >>
    /\ \E b \in Batches :
         /\ batch' = [batch EXCEPT ![c] =
                        Reverse([i \in DOMAIN b |-> [msg |-> b[i], receipt |-> receives[b[i]] + 1]])]
         /\ receives' = [m \in Messages |-> receives[m] + IF m \in Range(b) THEN 1 ELSE 0]
         /\ queue' = [m \in Messages |-> IF m \in Range(b) THEN "hidden" ELSE queue[m]]
    /\ UNCHANGED <<handled, executed, tried, faults>>

Receive(c) ==
    /\ batch[c] = << >>
    /\ \E b \in Batches :
         /\ batch' = [batch EXCEPT ![c] =
                        [i \in DOMAIN b |-> [msg |-> b[i], receipt |-> receives[b[i]] + 1]]]
         /\ receives' = [m \in Messages |-> receives[m] + IF m \in Range(b) THEN 1 ELSE 0]
         /\ queue' = [m \in Messages |-> IF m \in Range(b) THEN "hidden" ELSE queue[m]]
    /\ UNCHANGED <<handled, executed, tried, faults>>

\* The messages a consumer has not finished with.
InHand == UNION {{b.msg : b \in Range(batch[c])} : c \in Consumers}

\* The visibility timeout of a message that was left in the queue ends.
VisibilityEnds(m) ==
    /\ queue[m] = "hidden" /\ m \notin InHand
    /\ queue' = [queue EXCEPT ![m] = "ready"]
    /\ UNCHANGED <<receives, batch, handled, executed, tried, faults>>

Redrive(m) ==
    /\ queue[m] = "ready" /\ receives[m] = MaxReceives
    /\ queue' = [queue EXCEPT ![m] = "dead"]
    /\ UNCHANGED <<receives, batch, handled, executed, tried, faults>>

-----------------------------------------------------------------------------
(* The consumer.                                                           *)

Msg(c) == Head(batch[c]).msg

Working(c) == batch[c] # << >> /\ ~handled[c]

NextMessage(c) ==
    /\ batch' = [batch EXCEPT ![c] = Tail(@)]
    /\ handled' = [handled EXCEPT ![c] = FALSE]

\* Fault: an error ends the batch, not only the message.
RefuseBatch(c) ==
    /\ Working(c)
    /\ Msg(c) \in Poison
    /\ batch' = [batch EXCEPT ![c] = << >>]
    /\ UNCHANGED <<queue, receives, handled, executed, tried, faults>>

\* Fault: a message that is refused is tried again at once.
RefuseInPlace(c) ==
    /\ Working(c)
    /\ Msg(c) \in Poison
    /\ UNCHANGED vars

\* A permanent error: the message stays, the rest of the batch is handled.
Refuse(c) ==
    /\ Working(c)
    /\ Msg(c) \in Poison
    /\ NextMessage(c)
    /\ UNCHANGED <<queue, receives, executed, tried, faults>>

\* Fault: a message that comes again is executed again.
ExecuteAgain(c) ==
    /\ Working(c)
    /\ Msg(c) \notin Poison
    /\ executed' = Append(executed, Msg(c))
    /\ handled' = [handled EXCEPT ![c] = TRUE]
    /\ UNCHANGED <<queue, receives, batch, tried, faults>>

Executed(c) == IF Msg(c) \in Range(executed) THEN executed ELSE Append(executed, Msg(c))

\* The transaction commits, or finds the message executed.
Execute(c) ==
    /\ Working(c)
    /\ Msg(c) \notin Poison
    /\ executed' = Executed(c)
    /\ handled' = [handled EXCEPT ![c] = TRUE]
    /\ UNCHANGED <<queue, receives, batch, tried, faults>>

\* The queue does not take a receipt that is not the last one.
Delete(c) ==
    /\ handled[c]
    /\ queue' = [queue EXCEPT ![Msg(c)] =
                   IF @ = "hidden" /\ Head(batch[c]).receipt = receives[Msg(c)]
                   THEN "deleted" ELSE @]
    /\ NextMessage(c)
    /\ UNCHANGED <<receives, executed, tried, faults>>

-----------------------------------------------------------------------------
(* Failures.                                                               *)

Failure == faults < MaxFaults /\ faults' = faults + 1

\* A transient error, which may come after the commit: retryMessage hides the
\* message for the retry delay, and the rest of the batch is handled.
Transient(c) ==
    /\ Working(c)
    /\ Failure
    /\ executed' \in {executed} \cup (IF Msg(c) \in Poison THEN {} ELSE {Executed(c)})
    /\ tried' = tried \cup {Msg(c)}
    /\ NextMessage(c)
    /\ UNCHANGED <<queue, receives>>

DeleteFails(c) ==
    /\ handled[c]
    /\ Failure
    /\ NextMessage(c)
    /\ UNCHANGED <<queue, receives, executed, tried>>

Crash(c) ==
    /\ batch[c] # << >>
    /\ Failure
    /\ batch' = [batch EXCEPT ![c] = << >>]
    /\ handled' = [handled EXCEPT ![c] = FALSE]
    /\ UNCHANGED <<queue, receives, executed, tried>>

\* The visibility ends of a message that a slow consumer has not come to.
Lapse(m) ==
    /\ queue[m] = "hidden" /\ m \in InHand
    /\ Failure
    /\ queue' = [queue EXCEPT ![m] = "ready"]
    /\ UNCHANGED <<receives, batch, handled, executed, tried>>

Handle(c) == Refuse(c) \/ Execute(c) \/ Delete(c)

Next ==
    \/ \E c \in Consumers : Receive(c) \/ Handle(c)
    \/ \E m \in Messages : VisibilityEnds(m) \/ Redrive(m)
    \/ \E c \in Consumers : Transient(c) \/ DeleteFails(c) \/ Crash(c)
    \/ \E m \in Messages : Lapse(m)

Spec == Init /\ [][Next]_vars

\* Some consumer polls when there is something to receive, each one works on,
\* and the queue keeps its times.
Fairness ==
    /\ WF_vars(\E c \in Consumers : Receive(c))
    /\ \A c \in Consumers : WF_vars(Handle(c))
    /\ \A m \in Messages : WF_vars(VisibilityEnds(m)) /\ WF_vars(Redrive(m))

FairSpec == Spec /\ Fairness

-----------------------------------------------------------------------------
(* Properties.                                                             *)

\* A message is executed before an earlier one of its group only if that one
\* was refused, failed in its transaction or is in the dead-letter queue: no
\* crash, late delete or batch that is received twice changes the order.
OvertakenExplained ==
    \A m, n \in Messages : \A j \in DOMAIN executed :
        /\ Group[m] = Group[n] /\ m < n /\ executed[j] = n
        /\ m \notin {executed[i] : i \in 1 .. j}
        => m \in Poison \cup tried \/ queue[m] = "dead"

\* A message that can be handled reaches the dead-letter queue only after as
\* many failures as it may be received: its receives are not used up by the
\* poison messages of its batch or its group.
GoodIsNotDeadLettered ==
    \A m \in Messages \ Poison : queue[m] = "dead" => faults >= MaxReceives

\* What becomes of the order of a group and of its good messages.
DeliverySound == TypeOK /\ OvertakenExplained /\ GoodIsNotDeadLettered

\* A poison message at the head of a group delays the group and does not stop
\* it: every other message is executed, unless it failed as often as it may be
\* received.
GoodIsExecuted ==
    \A m \in Messages \ Poison : <>(m \in Range(executed) \/ faults >= MaxReceives)

\* Every message is deleted or reaches the dead-letter queue, whatever is wrong
\* with it and with the consumers: none of them works on it for ever.
EveryMessageEnds == \A m \in Messages : <>[](queue[m] \in {"deleted", "dead"})
=============================================================================
