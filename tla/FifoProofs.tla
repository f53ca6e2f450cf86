----------------------------- MODULE FifoProofs -----------------------------
(***************************************************************************)
(* Theorems about the order and the receive counts of the FIFO queue.      *)
(*                                                                         *)
(* OrderInv follows a message from the queue to its execution: whatever    *)
(* comes before it in its group is in the same batch in front of it, or    *)
(* need not be waited for any more.  CountInv pays for the receives of a   *)
(* message: each one has led to a failure, but for the last one while the  *)
(* message is still in a consumer's hands.                                 *)
(***************************************************************************)
EXTENDS FifoDelivery, TLAPS

\* Nothing of the order waits for m: it is executed, cannot be or has failed, or is
\* out of the queue.
Passed(m) == m \in Poison \cup tried \/ m \in Range(executed) \/ queue[m] = "dead"

\* The place i of c's batch has every earlier message of its group in front of it,
\* or passed.
PlaceOrdered(c, i) ==
    \A m \in Messages :
        Group[m] = Group[batch[c][i].msg] /\ m < batch[c][i].msg =>
            Passed(m) \/ \E k \in 1 .. i - 1 : batch[c][k].msg = m

BatchesOrdered == \A c \in Consumers : \A i \in DOMAIN batch[c] : PlaceOrdered(c, i)

HandledExecuted == \A c \in Consumers : handled[c] => Msg(c) \in Range(executed)

DeletedExecuted == \A m \in Messages : queue[m] = "deleted" => m \in Range(executed)

OrderInv == BatchesOrdered /\ HandledExecuted /\ DeletedExecuted /\ OvertakenExplained

\* m is hidden for a consumer that has its last receipt.
InFlight(m) ==
    /\ queue[m] = "hidden"
    /\ \E c \in Consumers : \E i \in DOMAIN batch[c] :
         batch[c][i].msg = m /\ batch[c][i].receipt = receives[m]

\* Every receive of m that is over was a failure.
ReceivesPaid(m) == Live(m) => receives[m] <= faults + IF InFlight(m) THEN 1 ELSE 0

CountInv == (\A m \in Messages \ Poison : ReceivesPaid(m)) /\ GoodIsNotDeadLettered

FifoInv == TypeOK /\ OrderInv /\ CountInv

-----------------------------------------------------------------------------
(* What the steps do to a batch.                                           *)

\* The messages of b and their receipts.
Receipts(b) == [i \in DOMAIN b |-> [msg |-> b[i], receipt |-> receives[b[i]] + 1]]

LEMMA BatchTypes ==
    ASSUME TypeOK, NEW b \in Batches
    PROVE  /\ Len(b) \in Nat /\ DOMAIN b = 1 .. Len(b) /\ Receipts(b) \in Seq(Received)
           /\ \A i \in DOMAIN b : /\ b[i] \in Messages /\ queue[b[i]] = "ready"
                                  /\ receives[b[i]] \in Nat /\ receives[b[i]] < MaxReceives
                                  /\ Before(b[i]) \subseteq {b[j] : j \in 1 .. i - 1}
<1>1. PICK n \in Nat : b \in [1 .. n -> Open]
  BY FifoDeliveryAssumption DEF Batches, SeqOf
<1>2. ASSUME NEW i \in 1 .. n
      PROVE  /\ b[i] \in Messages /\ queue[b[i]] = "ready"
             /\ receives[b[i]] \in Nat /\ receives[b[i]] < MaxReceives
             /\ [msg |-> b[i], receipt |-> receives[b[i]] + 1] \in Received
  <2>1. b[i] \in Open
    BY <1>1
  <2>2. /\ b[i] \in Messages /\ queue[b[i]] = "ready" /\ receives[b[i]] < MaxReceives
        /\ receives[b[i]] \in 0 .. MaxReceives /\ MaxReceives \in Nat
    BY <2>1, FifoDeliveryAssumption DEF Open, TypeOK
  <2>3. receives[b[i]] + 1 \in 1 .. MaxReceives
    BY <2>2
  <2>4. QED
    BY <2>2, <2>3 DEF Received
<1>3. Receipts(b) \in [1 .. n -> Received]
  BY <1>1, <1>2 DEF Receipts
<1>4. \A i \in DOMAIN b : Before(b[i]) \subseteq {b[j] : j \in 1 .. i - 1}
  BY DEF Batches
<1>5. Len(b) = n /\ DOMAIN b = 1 .. n
  BY <1>1
<1>6. Receipts(b) \in Seq(Received)
  BY <1>3
<1>7. QED
  BY <1>2, <1>4, <1>5, <1>6

LEMMA ReceiveShape ==
    ASSUME TypeOK, NEW c \in Consumers, Receive(c)
    PROVE  /\ batch[c] = << >> /\ ~handled[c]
           /\ UNCHANGED <<handled, executed, tried, faults>>
           /\ \A d \in Consumers : d # c => batch'[d] = batch[d]
           /\ \E b \in Batches :
                /\ batch'[c] = Receipts(b)
                /\ batch' = [batch EXCEPT ![c] = Receipts(b)]
                /\ receives' = [m \in Messages |-> receives[m] + IF m \in Range(b) THEN 1 ELSE 0]
                /\ queue' = [m \in Messages |-> IF m \in Range(b) THEN "hidden" ELSE queue[m]]
BY DEF Receive, TypeOK, Receipts

LEMMA NextShape ==
    ASSUME TypeOK, NEW c \in Consumers, batch[c] # << >>, NextMessage(c)
    PROVE  /\ batch' \in [Consumers -> Seq(Received)]
           /\ handled' \in [Consumers -> BOOLEAN] /\ ~handled'[c]
           /\ \A i \in DOMAIN batch'[c] : i \in Nat \ {0} /\ i + 1 \in DOMAIN batch[c]
                                          /\ batch'[c][i] = batch[c][i + 1]
           /\ \A i \in DOMAIN batch[c] : i # 1 => i - 1 \in DOMAIN batch'[c]
                                          /\ batch'[c][i - 1] = batch[c][i]
           /\ \A d \in Consumers : d # c => batch'[d] = batch[d] /\ handled'[d] = handled[d]
<1>1. batch[c] \in Seq(Received) /\ batch \in [Consumers -> Seq(Received)]
      /\ handled \in [Consumers -> BOOLEAN]
  BY DEF TypeOK
<1>2. batch' = [batch EXCEPT ![c] = Tail(batch[c])] /\ handled' = [handled EXCEPT ![c] = FALSE]
  BY DEF NextMessage
<1>3. PICK b : b = batch[c]
  OBVIOUS
<1>4. /\ Tail(b) \in Seq(Received) /\ Len(b) \in Nat /\ Len(b) # 0
      /\ DOMAIN b = 1 .. Len(b) /\ DOMAIN Tail(b) = 1 .. Len(b) - 1
      /\ \A i \in 1 .. Len(b) - 1 : Tail(b)[i] = b[i + 1]
  BY <1>1, <1>3
<1>5. batch'[c] = Tail(b)
  BY <1>1, <1>2, <1>3
<1>6. \A i \in DOMAIN Tail(b) : i \in Nat \ {0} /\ i + 1 \in DOMAIN b /\ Tail(b)[i] = b[i + 1]
  BY <1>4
<1>7. \A i \in DOMAIN b : i # 1 => i - 1 \in DOMAIN Tail(b) /\ Tail(b)[i - 1] = b[i]
  BY <1>4
<1>8. QED
  BY <1>1, <1>2, <1>3, <1>4, <1>5, <1>6, <1>7

\* The message a consumer is at.
LEMMA HeadShape ==
    ASSUME TypeOK, NEW c \in Consumers, batch[c] # << >>
    PROVE  /\ 1 \in DOMAIN batch[c] /\ Msg(c) = batch[c][1].msg /\ Msg(c) \in Messages
           /\ Head(batch[c]) = batch[c][1]
<1>1. PICK b : b = batch[c] /\ b \in Seq(Received) /\ b # << >>
  BY DEF TypeOK
<1>2. 1 \in DOMAIN b /\ Head(b) = b[1] /\ b[1] \in Received
  BY <1>1
<1>3. QED
  BY <1>1, <1>2 DEF Msg, Received

\* A transaction that commits appends its message, unless it is there.
LEMMA ExecutedShape ==
    ASSUME TypeOK, NEW c \in Consumers, Working(c), Msg(c) \notin Poison
    PROVE  /\ Executed(c) \in Seq(Messages \ Poison) /\ IsInjective(Executed(c))
           /\ Range(Executed(c)) = Range(executed) \cup {Msg(c)}
<1>1. Msg(c) \in Messages \ Poison
  BY HeadShape DEF Working
<1>2. executed \in Seq(Messages \ Poison) /\ IsInjective(executed)
  BY DEF TypeOK
<1>3. CASE Msg(c) \in Range(executed)
  BY <1>2, <1>3 DEF Executed
<1>4. CASE Msg(c) \notin Range(executed)
  <2>1. PICK old, new, n : /\ old = executed /\ new = Executed(c) /\ n = Len(old)
                           /\ new = Append(old, Msg(c))
    BY <1>4 DEF Executed
  <2>2. /\ new \in Seq(Messages \ Poison) /\ n \in Nat /\ DOMAIN old = 1 .. n
        /\ DOMAIN new = 1 .. n + 1 /\ new[n + 1] = Msg(c)
        /\ \A i \in 1 .. n : new[i] = old[i]
    BY <1>1, <1>2, <2>1
  <2>3. \A i \in 1 .. n : old[i] # Msg(c)
    BY <1>4, <2>1, <2>2 DEF Range
  <2>4. IsInjective(new)
    BY <1>2, <2>1, <2>2, <2>3 DEF IsInjective
  <2>5. Range(new) = Range(old) \cup {Msg(c)}
    BY <2>2 DEF Range
  <2>6. QED
    BY <2>1, <2>2, <2>4, <2>5
<1>5. QED
  BY <1>3, <1>4


-----------------------------------------------------------------------------
(* Types.                                                                  *)

LEMMA InitFifo == Init => FifoInv
<1> SUFFICES ASSUME Init PROVE FifoInv
  OBVIOUS
<1> USE DEF Init
<1>1. TypeOK
  BY FifoDeliveryAssumption DEF TypeOK, IsInjective
<1>2. OrderInv
  BY DEF OrderInv, BatchesOrdered, HandledExecuted, DeletedExecuted, OvertakenExplained
<1>3. CountInv
  BY FifoDeliveryAssumption DEF CountInv, ReceivesPaid, GoodIsNotDeadLettered
<1>4. QED
  BY <1>1, <1>2, <1>3 DEF FifoInv

LEMMA ReceiveType ==
    ASSUME TypeOK, NEW c \in Consumers, Receive(c)
    PROVE  TypeOK'
<1>1. PICK b \in Batches :
        /\ batch' = [batch EXCEPT ![c] = Receipts(b)]
        /\ receives' = [m \in Messages |-> receives[m] + IF m \in Range(b) THEN 1 ELSE 0]
        /\ queue' = [m \in Messages |-> IF m \in Range(b) THEN "hidden" ELSE queue[m]]
  BY ReceiveShape
<1>2. UNCHANGED <<handled, executed, tried, faults>> /\ ~handled[c] /\ batch[c] = << >>
  BY ReceiveShape
<1>3. batch' \in [Consumers -> Seq(Received)] /\ batch'[c] = Receipts(b)
  BY <1>1, BatchTypes DEF TypeOK
<1>4. receives' \in [Messages -> 0 .. MaxReceives]
  <2>1. \A m \in Range(b) : receives[m] \in Nat /\ receives[m] < MaxReceives
    BY BatchTypes DEF Range
  <2>2. \A m \in Messages : receives[m] \in 0 .. MaxReceives
    BY DEF TypeOK
  <2>3. ASSUME NEW m \in Messages PROVE receives'[m] \in 0 .. MaxReceives
    <3>1. receives'[m] = receives[m] + IF m \in Range(b) THEN 1 ELSE 0
      BY <1>1
    <3>2. MaxReceives \in Nat
      BY FifoDeliveryAssumption
    <3>3. QED
      BY <2>1, <2>2, <3>1, <3>2
  <2>4. QED
    BY <1>1, <2>3
<1>5. queue' \in [Messages -> {"ready", "hidden", "deleted", "dead"}]
  BY <1>1 DEF TypeOK
<1>6. \A d \in Consumers : handled'[d] => batch'[d] # << >>
  BY <1>1, <1>2 DEF TypeOK
<1>7. QED
  BY <1>2, <1>3, <1>4, <1>5, <1>6 DEF TypeOK

LEMMA NextMessageType ==
    ASSUME TypeOK, NEW c \in Consumers, batch[c] # << >>, NextMessage(c)
    PROVE  /\ batch' \in [Consumers -> Seq(Received)]
           /\ handled' \in [Consumers -> BOOLEAN]
           /\ \A d \in Consumers : handled'[d] => batch'[d] # << >>
BY NextShape DEF TypeOK

LEMMA FailureType ==
    ASSUME TypeOK, Failure
    PROVE  faults' \in 0 .. MaxFaults /\ faults' = faults + 1
BY FifoDeliveryAssumption DEF TypeOK, Failure

LEMMA TypeStep ==
    ASSUME TypeOK, [Next]_vars
    PROVE  TypeOK'
<1>1. ASSUME NEW c \in Consumers, Receive(c) PROVE TypeOK'
  BY <1>1, ReceiveType
<1>2. ASSUME NEW c \in Consumers, Refuse(c) \/ Delete(c) \/ DeleteFails(c) PROVE TypeOK'
  <2>1. /\ batch[c] # << >> /\ NextMessage(c) /\ UNCHANGED <<receives, executed, tried>>
        /\ UNCHANGED faults \/ Failure
    BY <1>2 DEF Refuse, Delete, DeleteFails, Working, TypeOK
  <2>2. queue' \in [Messages -> {"ready", "hidden", "deleted", "dead"}]
    BY <1>2 DEF Refuse, Delete, DeleteFails, TypeOK
  <2>3. faults' \in 0 .. MaxFaults
    BY <2>1, FailureType DEF TypeOK
  <2>4. QED
    BY <2>1, <2>2, <2>3, NextMessageType DEF TypeOK
<1>3. ASSUME NEW c \in Consumers, Execute(c) PROVE TypeOK'
  <2>1. /\ executed' \in Seq(Messages \ Poison) /\ IsInjective(executed)'
        /\ handled' = [handled EXCEPT ![c] = TRUE] /\ batch[c] # << >>
        /\ UNCHANGED <<queue, receives, batch, tried, faults>>
    BY <1>3, ExecutedShape DEF Execute, Working
  <2>2. QED
    BY <2>1 DEF TypeOK
<1>4. ASSUME NEW c \in Consumers, Transient(c) PROVE TypeOK'
  <2>1. /\ batch[c] # << >> /\ NextMessage(c) /\ Failure /\ UNCHANGED <<queue, receives>>
        /\ tried' = tried \cup {Msg(c)} /\ Working(c)
        /\ executed' = executed \/ (Msg(c) \notin Poison /\ executed' = Executed(c))
    BY <1>4 DEF Transient, Working
  <2>2. executed' \in Seq(Messages \ Poison) /\ IsInjective(executed)'
    BY <2>1, ExecutedShape DEF TypeOK
  <2>3. tried' \subseteq Messages
    BY <2>1, HeadShape DEF TypeOK
  <2>4. QED
    BY <2>1, <2>2, <2>3, NextMessageType, FailureType DEF TypeOK
<1>5. ASSUME NEW c \in Consumers, Crash(c) PROVE TypeOK'
  <2>1. << >> \in Seq(Received)
    OBVIOUS
  <2>2. QED
    BY <1>5, <2>1, FailureType DEF Crash, TypeOK
<1>6. ASSUME NEW m \in Messages, VisibilityEnds(m) \/ Redrive(m) PROVE TypeOK'
  BY <1>6 DEF VisibilityEnds, Redrive, TypeOK
<1>7. ASSUME NEW m \in Messages, Lapse(m) PROVE TypeOK'
  BY <1>7, FailureType DEF Lapse, TypeOK
<1>8. CASE UNCHANGED vars
  BY <1>8 DEF vars, TypeOK
<1>9. QED
  BY <1>1, <1>2, <1>3, <1>4, <1>5, <1>6, <1>7, <1>8 DEF Next, Handle


-----------------------------------------------------------------------------
(* The order of a group.                                                   *)

\* What a step does to the executed messages: nothing, or a consumer has executed
\* the one it is at.
Executes(c) == Working(c) /\ Msg(c) \notin Poison /\ executed' = Executed(c)

LEMMA ExecutedStep ==
    ASSUME TypeOK, [Next]_vars
    PROVE  executed' = executed \/ \E c \in Consumers : Executes(c)
BY DEF Next, vars, Receive, Handle, Refuse, Execute, Delete, VisibilityEnds, Redrive, Transient,
       DeleteFails, Crash, Lapse, Executes

\* What has passed stays so.
LEMMA PassedStays ==
    ASSUME TypeOK, [Next]_vars, NEW m \in Messages
    PROVE  /\ Range(executed) \subseteq Range(executed')
           /\ tried \subseteq tried'
           /\ queue[m] = "dead" => queue'[m] = "dead"
           /\ Passed(m) => Passed(m)'
<1>1. Range(executed) \subseteq Range(executed')
  BY ExecutedStep, ExecutedShape DEF Executes
<1>2. tried \subseteq tried'
  BY DEF Next, vars, Receive, Handle, Refuse, Execute, Delete, VisibilityEnds, Redrive, Transient,
         DeleteFails, Crash, Lapse
<1>3. ASSUME queue[m] = "dead" PROVE queue'[m] = "dead"
  <2>1. ASSUME NEW c \in Consumers, Receive(c) PROVE queue'[m] = "dead"
    <3>1. PICK b \in Batches :
            queue' = [n \in Messages |-> IF n \in Range(b) THEN "hidden" ELSE queue[n]]
      BY <2>1, ReceiveShape
    <3>2. m \notin Range(b)
      BY <1>3, BatchTypes DEF Range
    <3>3. QED
      BY <1>3, <3>1, <3>2
  <2>2. CASE \A c \in Consumers : ~Receive(c)
    BY <1>3, <2>2 DEF Next, vars, Handle, Refuse, Execute, Delete, VisibilityEnds, Redrive,
                      Transient, DeleteFails, Crash, Lapse, TypeOK
  <2>3. QED
    BY <2>1, <2>2
<1>4. QED
  BY <1>1, <1>2, <1>3 DEF Passed

LEMMA ReceiveOrdered ==
    ASSUME TypeOK, OrderInv, [Next]_vars, NEW c \in Consumers, Receive(c)
    PROVE  \A i \in DOMAIN batch'[c] : PlaceOrdered(c, i)'
<1>1. PICK b \in Batches : batch'[c] = Receipts(b)
  BY ReceiveShape
<1>2. ASSUME NEW i \in DOMAIN b, NEW m \in Messages, Group[m] = Group[b[i]], m < b[i]
      PROVE  Passed(m)' \/ \E k \in 1 .. i - 1 : batch'[c][k].msg = m
  <2>1. CASE Live(m)
    <3>1. m \in Before(b[i])
      BY <1>2, <2>1 DEF Before
    <3>2. PICK k \in 1 .. i - 1 : b[k] = m
      BY <3>1, BatchTypes
    <3>3. k \in DOMAIN b
      BY <3>2, BatchTypes
    <3>4. QED
      BY <1>1, <3>2, <3>3 DEF Receipts
  <2>2. CASE ~Live(m)
    <3>1. queue[m] \in {"deleted", "dead"}
      BY <2>2 DEF Live, TypeOK
    <3>2. Passed(m)
      BY <3>1 DEF Passed, OrderInv, DeletedExecuted
    <3>3. QED
      BY <3>2, PassedStays
  <2>3. QED
    BY <2>1, <2>2
<1>3. DOMAIN batch'[c] = DOMAIN b /\ \A i \in DOMAIN b : batch'[c][i].msg = b[i]
  BY <1>1 DEF Receipts
<1>4. QED
  BY <1>2, <1>3 DEF PlaceOrdered

LEMMA NextOrdered ==
    ASSUME TypeOK, OrderInv, [Next]_vars, NEW c \in Consumers, batch[c] # << >>,
           NextMessage(c), NEW head, head = Msg(c), Passed(head)'
    PROVE  \A i \in DOMAIN batch'[c] : PlaceOrdered(c, i)'
<1>1. ASSUME NEW i \in DOMAIN batch'[c], NEW m \in Messages,
             Group[m] = Group[batch'[c][i].msg], m < batch'[c][i].msg
      PROVE  Passed(m)' \/ \E k \in 1 .. i - 1 : batch'[c][k].msg = m
  <2>1. /\ i \in Nat \ {0} /\ i + 1 \in DOMAIN batch[c] /\ batch'[c][i] = batch[c][i + 1]
        /\ \A k \in DOMAIN batch[c] : k # 1 => batch'[c][k - 1] = batch[c][k]
    BY NextShape
  <2>2. Passed(m) \/ \E k \in 1 .. (i + 1) - 1 : batch[c][k].msg = m
    BY <1>1, <2>1 DEF OrderInv, BatchesOrdered, PlaceOrdered
  <2>3. CASE Passed(m)
    BY <2>3, PassedStays
  <2>4. ASSUME NEW k \in 1 .. (i + 1) - 1, batch[c][k].msg = m
        PROVE  Passed(m)' \/ \E j \in 1 .. i - 1 : batch'[c][j].msg = m
    <3>1. CASE k = 1
      BY <2>4, <3>1, HeadShape
    <3>2. CASE k # 1
      <4>1. k \in DOMAIN batch[c]
        <5>1. PICK b : b = batch[c] /\ b \in Seq(Received)
          BY DEF TypeOK
        <5>2. i + 1 \in DOMAIN b
          BY <2>1, <5>1
        <5>3. k \in DOMAIN b
          BY <2>1, <5>1, <5>2
        <5>4. QED
          BY <5>1, <5>3
      <4>2. batch'[c][k - 1].msg = m /\ k - 1 \in 1 .. i - 1
        BY <2>1, <2>4, <3>2, <4>1
      <4>3. QED
        BY <4>2
    <3>3. QED
      BY <3>1, <3>2
  <2>5. QED
    BY <2>2, <2>3, <2>4
<1>2. QED
  BY <1>1 DEF PlaceOrdered


LEMMA BatchesStep ==
    ASSUME TypeOK, OrderInv, [Next]_vars
    PROVE  BatchesOrdered'
<1>1. ASSUME NEW c \in Consumers, NEW i \in DOMAIN batch[c], batch'[c] = batch[c]
      PROVE  PlaceOrdered(c, i)'
  BY <1>1, PassedStays DEF OrderInv, BatchesOrdered, PlaceOrdered
<1>2. ASSUME NEW c \in Consumers, Receive(c) PROVE BatchesOrdered'
  BY <1>1, <1>2, ReceiveShape, ReceiveOrdered DEF BatchesOrdered
<1>3. ASSUME NEW c \in Consumers, Refuse(c) \/ Delete(c) \/ Transient(c) \/ DeleteFails(c)
      PROVE  BatchesOrdered'
  <2>1. batch[c] # << >> /\ NextMessage(c)
    BY <1>3 DEF Refuse, Delete, Transient, DeleteFails, Working, TypeOK
  <2>2. PICK head : head = Msg(c)
    OBVIOUS
  <2>3. head \in Messages
    BY <2>1, <2>2, HeadShape
  <2>4. Passed(head)'
    <3>1. CASE Refuse(c)
      BY <2>2, <3>1 DEF Refuse, Passed
    <3>2. CASE Transient(c)
      BY <2>2, <3>2 DEF Transient, Passed
    <3>3. CASE Delete(c) \/ DeleteFails(c)
      <4>1. Passed(head)
        BY <2>2, <3>3 DEF Delete, DeleteFails, OrderInv, HandledExecuted, Passed
      <4>2. QED
        BY <2>3, <4>1, PassedStays
    <3>4. QED
      BY <1>3, <3>1, <3>2, <3>3
  <2>5. \A i \in DOMAIN batch'[c] : PlaceOrdered(c, i)'
    BY <2>1, <2>2, <2>4, NextOrdered
  <2>6. \A d \in Consumers : d # c => batch'[d] = batch[d]
    BY <2>1, NextShape
  <2>7. QED
    BY <1>1, <2>5, <2>6 DEF BatchesOrdered
<1>4. ASSUME NEW c \in Consumers, Crash(c) PROVE BatchesOrdered'
  <2>1. batch'[c] = << >> /\ \A d \in Consumers : d # c => batch'[d] = batch[d]
    BY <1>4 DEF Crash, TypeOK
  <2>2. QED
    BY <1>1, <2>1 DEF BatchesOrdered
<1>5. CASE UNCHANGED batch
  BY <1>1, <1>5 DEF BatchesOrdered
<1>6. QED
  BY <1>2, <1>3, <1>4, <1>5
     DEF Next, vars, Handle, Execute, VisibilityEnds, Redrive, Lapse

LEMMA HandledStep ==
    ASSUME TypeOK, OrderInv, [Next]_vars
    PROVE  HandledExecuted'
<1> SUFFICES ASSUME NEW d \in Consumers, handled'[d] PROVE Msg(d)' \in Range(executed')
  BY DEF HandledExecuted
<1>1. CASE batch'[d] = batch[d] /\ handled[d]
  <2>1. Msg(d)' = Msg(d) /\ Msg(d) \in Range(executed) /\ batch[d] # << >>
    BY <1>1 DEF Msg, OrderInv, HandledExecuted, TypeOK
  <2>2. QED
    BY <2>1, PassedStays, HeadShape
<1>2. ASSUME NEW c \in Consumers, Receive(c)
      PROVE  batch'[d] = batch[d] /\ handled[d]
  BY <1>2, ReceiveShape
<1>3. ASSUME NEW c \in Consumers, Refuse(c) \/ Delete(c) \/ Transient(c) \/ DeleteFails(c)
      PROVE  batch'[d] = batch[d] /\ handled[d]
  <2>1. batch[c] # << >> /\ NextMessage(c)
    BY <1>3 DEF Refuse, Delete, Transient, DeleteFails, Working, TypeOK
  <2>2. QED
    BY <2>1, NextShape
<1>4. ASSUME NEW c \in Consumers, Crash(c)
      PROVE  batch'[d] = batch[d] /\ handled[d]
  BY <1>4 DEF Crash, TypeOK
<1>5. ASSUME NEW c \in Consumers, Execute(c)
      PROVE  Msg(d)' \in Range(executed')
  <2>1. CASE d = c
    <3>1. Msg(d)' = Msg(c) /\ executed' = Executed(c)
      BY <1>5, <2>1 DEF Execute, Msg
    <3>2. QED
      BY <1>5, <3>1, ExecutedShape DEF Execute
  <2>2. CASE d # c
    BY <1>1, <1>5, <2>2 DEF Execute, TypeOK
  <2>3. QED
    BY <2>1, <2>2
<1>6. CASE UNCHANGED <<batch, handled>>
  BY <1>1, <1>6
<1>7. QED
  BY <1>1, <1>2, <1>3, <1>4, <1>5, <1>6 DEF Next, vars, Handle, VisibilityEnds, Redrive, Lapse

LEMMA DeletedStep ==
    ASSUME TypeOK, OrderInv, [Next]_vars
    PROVE  DeletedExecuted'
<1> SUFFICES ASSUME NEW m \in Messages, queue'[m] = "deleted" PROVE m \in Range(executed')
  BY DEF DeletedExecuted
<1>1. CASE queue[m] = "deleted"
  BY <1>1, PassedStays DEF OrderInv, DeletedExecuted
<1>2. ASSUME queue[m] # "deleted", NEW c \in Consumers, Delete(c)
      PROVE  m \in Range(executed')
  BY <1>2, PassedStays DEF Delete, TypeOK, OrderInv, HandledExecuted
<1>3. ASSUME NEW c \in Consumers, Receive(c) PROVE queue[m] = "deleted"
  BY <1>3, ReceiveShape
<1>4. CASE \A c \in Consumers : ~Delete(c) /\ ~Receive(c)
  <2>1. queue[m] = "deleted"
    BY <1>4 DEF Next, vars, Handle, Refuse, Execute, VisibilityEnds, Redrive,
                Transient, DeleteFails, Crash, Lapse, TypeOK
  <2>2. QED
    BY <1>1, <2>1
<1>5. QED
  BY <1>1, <1>2, <1>3, <1>4


\* A message is executed behind all others, and the earlier ones of its group that are
\* not among them have been refused, have failed or are dead.
LEMMA OvertakenStep ==
    ASSUME TypeOK, OrderInv, [Next]_vars
    PROVE  OvertakenExplained'
<1> SUFFICES ASSUME NEW m \in Messages, NEW n \in Messages, NEW j \in DOMAIN executed',
                    Group[m] = Group[n], m < n, executed'[j] = n,
                    m \notin {executed'[i] : i \in 1 .. j}
             PROVE  m \in Poison \cup tried' \/ queue'[m] = "dead"
  BY DEF OvertakenExplained
<1>1. ASSUME m \in Poison \cup tried \/ queue[m] = "dead"
      PROVE  m \in Poison \cup tried' \/ queue'[m] = "dead"
  BY <1>1, PassedStays
<1>2. ASSUME j \in DOMAIN executed, \A i \in 1 .. j : executed[i] = executed'[i]
      PROVE  m \in Poison \cup tried \/ queue[m] = "dead"
  <2>1. j \in 1 .. j
    BY <1>2 DEF TypeOK
  <2>2. executed[j] = n /\ m \notin {executed[i] : i \in 1 .. j}
    BY <1>2, <2>1
  <2>3. QED
    BY <1>2, <2>2 DEF OrderInv, OvertakenExplained
<1>3. CASE executed' = executed
  BY <1>1, <1>2, <1>3
<1>4. ASSUME NEW c \in Consumers, Executes(c), Msg(c) \notin Range(executed)
      PROVE  m \in Poison \cup tried \/ queue[m] = "dead"
  <2>1. PICK old, new, len, head : /\ old = executed /\ new = executed' /\ len = Len(old)
                                   /\ head = Msg(c)
    OBVIOUS
  <2>2. head \in Messages /\ old \in Seq(Messages) /\ new = Append(old, head)
    BY <1>4, <2>1, HeadShape DEF Executes, Executed, TypeOK, Working
  <2>3. /\ len \in Nat /\ DOMAIN old = 1 .. len /\ DOMAIN new = 1 .. len + 1
        /\ new[len + 1] = head /\ \A i \in 1 .. len : new[i] = old[i]
    BY <2>1, <2>2
  <2>4. CASE j = len + 1
    <3>1. n = Msg(c)
      BY <2>1, <2>3, <2>4
    <3>2. Passed(m)
      <4>1. 1 \in DOMAIN batch[c] /\ batch[c][1].msg = n
        BY <1>4, <3>1, HeadShape DEF Executes, Working
      <4>2. QED
        BY <4>1 DEF OrderInv, BatchesOrdered, PlaceOrdered
    <3>3. m \notin Range(executed)
      <4>1. \A i \in 1 .. len : new[i] # m
        BY <2>1, <2>3, <2>4
      <4>2. QED
        BY <2>1, <2>3, <4>1 DEF Range
    <3>4. QED
      BY <3>2, <3>3 DEF Passed
  <2>5. CASE j \in 1 .. len
    <3>1. j \in DOMAIN executed /\ \A i \in 1 .. j : executed[i] = executed'[i]
      BY <2>1, <2>3, <2>5
    <3>2. QED
      BY <1>2, <3>1
  <2>6. QED
    BY <2>1, <2>3, <2>4, <2>5
<1>5. QED
  BY <1>1, <1>3, <1>4, ExecutedStep DEF Executes, Executed

LEMMA OrderStep ==
    ASSUME TypeOK, OrderInv, [Next]_vars
    PROVE  OrderInv'
BY BatchesStep, HandledStep, DeletedStep, OvertakenStep DEF OrderInv

-----------------------------------------------------------------------------
(* The receives of a message.                                              *)

\* A step that leaves the queue, the receives and the faults of m as they are, and
\* m in the hands it is in.
LEMMA PaidFrame ==
    ASSUME TypeOK, NEW m \in Messages, ReceivesPaid(m),
           queue'[m] = queue[m], receives'[m] = receives[m], faults' = faults,
           InFlight(m) => InFlight(m)'
    PROVE  ReceivesPaid(m)'
BY DEF ReceivesPaid, Live, TypeOK

\* A failure pays for one receive, or for one more that may be under way.
LEMMA PaidByFailure ==
    ASSUME TypeOK, NEW m \in Messages, ReceivesPaid(m), Live(m)' => Live(m),
           receives'[m] = receives[m], Failure
    PROVE  ReceivesPaid(m)'
<1>1. faults' = faults + 1 /\ faults \in Nat /\ receives[m] \in Nat
  BY FailureType, FifoDeliveryAssumption DEF TypeOK
<1>2. Live(m)' => receives'[m] <= faults'
  BY <1>1 DEF ReceivesPaid
<1>3. QED
  BY <1>1, <1>2 DEF ReceivesPaid

\* What a consumer leaves is in flight no more; everything else is.
LEMMA NextInFlight ==
    ASSUME TypeOK, NEW c \in Consumers, batch[c] # << >>, NextMessage(c), UNCHANGED receives,
           NEW m \in Messages, queue'[m] = queue[m],
           ~(Msg(c) = m /\ Head(batch[c]).receipt = receives[m])
    PROVE  InFlight(m) => InFlight(m)'
<1> SUFFICES ASSUME InFlight(m) PROVE InFlight(m)'
  OBVIOUS
<1>0. PICK d \in Consumers :
        \E i \in DOMAIN batch[d] : batch[d][i].msg = m /\ batch[d][i].receipt = receives[m]
  BY DEF InFlight
<1>1. PICK i \in DOMAIN batch[d] : batch[d][i].msg = m /\ batch[d][i].receipt = receives[m]
  BY <1>0
<1>2. CASE d = c
  <2>1. i # 1
    BY <1>1, <1>2, HeadShape
  <2>2. i - 1 \in DOMAIN batch'[c] /\ batch'[c][i - 1] = batch[c][i]
    BY <1>2, <2>1, NextShape
  <2>3. QED
    BY <1>1, <1>2, <2>2 DEF InFlight
<1>3. CASE d # c
  <2>1. batch'[d] = batch[d]
    BY <1>3, NextShape
  <2>2. QED
    BY <1>1, <2>1 DEF InFlight
<1>4. QED
  BY <1>2, <1>3


LEMMA ReceivePaid ==
    ASSUME TypeOK, NEW c \in Consumers, Receive(c), NEW m \in Messages, ReceivesPaid(m)
    PROVE  ReceivesPaid(m)'
<1>1. PICK b \in Batches :
        /\ batch'[c] = Receipts(b)
        /\ receives' = [n \in Messages |-> receives[n] + IF n \in Range(b) THEN 1 ELSE 0]
        /\ queue' = [n \in Messages |-> IF n \in Range(b) THEN "hidden" ELSE queue[n]]
  BY ReceiveShape
<1>2. faults' = faults /\ receives[m] \in Nat /\ faults \in Nat
  BY ReceiveShape, FifoDeliveryAssumption DEF TypeOK
<1>3. CASE m \in Range(b)
  <2>1. PICK i \in DOMAIN b : b[i] = m
    BY <1>3 DEF Range
  <2>2. queue[m] = "ready"
    BY <2>1, BatchTypes
  <2>3. receives[m] <= faults
    BY <1>2, <2>2 DEF ReceivesPaid, Live, InFlight
  <2>4. receives'[m] = receives[m] + 1 /\ queue'[m] = "hidden"
    BY <1>1, <1>3
  <2>5. /\ i \in DOMAIN batch'[c] /\ batch'[c][i].msg = m
        /\ batch'[c][i].receipt = receives[m] + 1
    BY <1>1, <2>1 DEF Receipts
  <2>6. InFlight(m)'
    BY <2>4, <2>5 DEF InFlight
  <2>7. QED
    BY <1>2, <2>3, <2>4, <2>6 DEF ReceivesPaid
<1>4. CASE m \notin Range(b)
  <2>1. queue'[m] = queue[m] /\ receives'[m] = receives[m]
    BY <1>1, <1>2, <1>4
  <2>2. InFlight(m) => InFlight(m)'
    BY <2>1, ReceiveShape DEF InFlight
  <2>3. QED
    BY <1>2, <2>1, <2>2, PaidFrame
<1>5. QED
  BY <1>3, <1>4

LEMMA DeletePaid ==
    ASSUME TypeOK, NEW c \in Consumers, Delete(c), NEW m \in Messages, ReceivesPaid(m)
    PROVE  ReceivesPaid(m)'
<1>1. batch[c] # << >> /\ NextMessage(c) /\ UNCHANGED <<receives, faults>>
  BY DEF Delete, TypeOK
<1>2. CASE Msg(c) = m /\ Head(batch[c]).receipt = receives[m]
  <2>1. queue'[m] = IF queue[m] = "hidden" THEN "deleted" ELSE queue[m]
    BY <1>2 DEF Delete, TypeOK
  <2>2. Live(m)' => Live(m) /\ ~InFlight(m)
    BY <2>1 DEF Live, InFlight
  <2>3. receives[m] \in Nat /\ faults \in Nat
    BY FifoDeliveryAssumption DEF TypeOK
  <2>4. Live(m)' => receives[m] <= faults
    BY <2>2, <2>3 DEF ReceivesPaid
  <2>5. QED
    BY <1>1, <2>3, <2>4 DEF ReceivesPaid
<1>3. CASE ~(Msg(c) = m /\ Head(batch[c]).receipt = receives[m])
  <2>1. queue'[m] = queue[m]
    BY <1>3 DEF Delete, TypeOK
  <2>2. QED
    BY <1>1, <1>3, <2>1, NextInFlight, PaidFrame
<1>4. QED
  BY <1>2, <1>3

LEMMA CountStep ==
    ASSUME TypeOK, CountInv, [Next]_vars
    PROVE  CountInv'
<1>1. ASSUME NEW m \in Messages \ Poison PROVE ReceivesPaid(m)'
  <2>1. ReceivesPaid(m) /\ m \in Messages
    BY DEF CountInv
  <2>2. ASSUME NEW c \in Consumers, Receive(c) \/ Delete(c) PROVE ReceivesPaid(m)'
    BY <2>1, <2>2, ReceivePaid, DeletePaid
  <2>3. ASSUME NEW c \in Consumers, Refuse(c) PROVE ReceivesPaid(m)'
    <3>1. batch[c] # << >> /\ NextMessage(c) /\ UNCHANGED <<queue, receives, faults>> /\ Msg(c) # m
      BY <2>3 DEF Refuse, Working
    <3>2. QED
      BY <2>1, <3>1, NextInFlight, PaidFrame
  <2>4. ASSUME NEW c \in Consumers, Transient(c) \/ DeleteFails(c) \/ Crash(c) PROVE ReceivesPaid(m)'
    <3>1. UNCHANGED <<queue, receives>> /\ Failure
      BY <2>4 DEF Transient, DeleteFails, Crash
    <3>2. QED
      BY <2>1, <3>1, PaidByFailure DEF Live
  <2>5. ASSUME NEW n \in Messages, Lapse(n) PROVE ReceivesPaid(m)'
    <3>1. UNCHANGED receives /\ Failure /\ (Live(m)' => Live(m))
      BY <2>5 DEF Lapse, Live, TypeOK
    <3>2. QED
      BY <2>1, <3>1, PaidByFailure
  <2>6. ASSUME NEW n \in Messages, VisibilityEnds(n) PROVE ReceivesPaid(m)'
    <3>1. /\ UNCHANGED <<receives, batch, faults>> /\ receives[m] \in Nat /\ faults \in Nat
          /\ queue' = [queue EXCEPT ![n] = "ready"] /\ queue[n] = "hidden" /\ n \notin InHand
      BY <2>6, FifoDeliveryAssumption DEF VisibilityEnds, TypeOK
    <3>2. CASE n = m
      <4>1. ~InFlight(m)
        BY <3>1, <3>2 DEF InFlight, InHand, Range
      <4>2. receives[m] <= faults
        BY <2>1, <3>1, <3>2, <4>1 DEF ReceivesPaid, Live
      <4>3. QED
        BY <3>1, <4>2 DEF ReceivesPaid
    <3>3. CASE n # m
      <4>1. queue'[m] = queue[m]
        BY <3>1, <3>3 DEF TypeOK
      <4>2. QED
        BY <2>1, <3>1, <4>1, PaidFrame DEF InFlight
    <3>4. QED
      BY <3>2, <3>3
  <2>7. ASSUME NEW n \in Messages, Redrive(n) PROVE ReceivesPaid(m)'
    <3>1. UNCHANGED <<receives, batch, faults>> /\ (queue'[m] = queue[m] \/ queue'[m] = "dead")
      BY <2>7 DEF Redrive, TypeOK
    <3>2. CASE queue'[m] = queue[m]
      BY <2>1, <3>1, <3>2, PaidFrame DEF InFlight
    <3>3. CASE queue'[m] = "dead"
      BY <3>3 DEF ReceivesPaid, Live
    <3>4. QED
      BY <3>1, <3>2, <3>3
  <2>8. CASE UNCHANGED <<queue, receives, batch, faults>>
    BY <2>1, <2>8, PaidFrame DEF InFlight
  <2>9. QED
    BY <2>2, <2>3, <2>4, <2>5, <2>6, <2>7, <2>8 DEF Next, vars, Handle, Execute
<1>2. ASSUME NEW m \in Messages \ Poison, queue'[m] = "dead" PROVE faults' >= MaxReceives
  <2>1. faults \in Nat /\ faults' \in Nat /\ faults <= faults' /\ MaxReceives \in Nat
    <3>1. faults' = faults \/ faults' = faults + 1
      BY DEF Next, vars, Handle, Receive, Refuse, Execute, Delete, VisibilityEnds, Redrive,
             Transient, DeleteFails, Crash, Lapse, Failure
    <3>2. faults \in Nat /\ MaxReceives \in Nat
      BY FifoDeliveryAssumption DEF TypeOK
    <3>3. QED
      BY <3>1, <3>2
  <2>2. CASE queue[m] = "dead"
    <3>1. faults >= MaxReceives
      BY <2>2 DEF CountInv, GoodIsNotDeadLettered
    <3>2. QED
      BY <2>1, <3>1
  <2>3. CASE queue[m] # "dead"
    <3>1. ASSUME NEW c \in Consumers PROVE ~Receive(c)
      <4>1. SUFFICES ASSUME Receive(c) PROVE FALSE
        OBVIOUS
      <4>2. QED
        BY <1>2, <2>3, <4>1, ReceiveShape
    <3>2. Redrive(m)
      BY <1>2, <2>3, <3>1 DEF Next, vars, Handle, Refuse, Execute, Delete, VisibilityEnds, Redrive,
                              Transient, DeleteFails, Crash, Lapse, TypeOK
    <3>3. receives[m] <= faults
      BY <2>1, <3>2, FifoDeliveryAssumption DEF Redrive, CountInv, ReceivesPaid, Live, InFlight
    <3>4. QED
      BY <2>1, <3>2, <3>3 DEF Redrive
  <2>4. QED
    BY <2>2, <2>3
<1>3. QED
  BY <1>1, <1>2 DEF CountInv, GoodIsNotDeadLettered

-----------------------------------------------------------------------------
(* The theorem.                                                            *)

\* What the consumers do keeps the order of a group but for messages that are refused,
\* fail or are dead, and uses up the receives of a good message by failures only,
\* however many consumers there are, whatever a batch holds and wherever they crash.
THEOREM DeliveriesSound == Spec => []DeliverySound
<1>1. FifoInv /\ [Next]_vars => FifoInv'
  BY TypeStep, OrderStep, CountStep DEF FifoInv
<1>2. FifoInv => DeliverySound
  BY DEF FifoInv, OrderInv, CountInv, DeliverySound
<1>3. QED
  BY InitFifo, <1>1, <1>2, PTL DEF Spec

=============================================================================
