----------------------------- MODULE InboxProofs -----------------------------
(***************************************************************************)
(* Theorems about the consumers and their inbox.  The inductive invariant  *)
(* says what a transaction that has not committed may rely on: it alone    *)
(* has inserted the row of its message id, which no committed transaction  *)
(* has, and it alone has stored the wager of its external id, or found it  *)
(* with its own payload.                                                   *)
(***************************************************************************)
EXTENDS InboxConsumer, TLAPS, SequenceTheorems, FiniteSetTheorems

\* What a consumer knows about the database where it is.
Right(c) ==
    /\ pc[c] \in {"process", "commit"} => inbox[Id(c)] = None
    /\ pc[c] = "commit" =>
         wagers[Request(c).ext] = IF replayed[c] THEN Request(c).payload ELSE None
    /\ pc[c] = "delete" => inbox[Id(c)] = Request(c)

\* The locks of the keys of inbox_messages and wager_transactions keep two
\* transactions apart.
Apart(c, d) ==
    /\ {c, d} \subseteq Inserting => Id(c) # Id(d)
    /\ pc[c] = "commit" /\ pc[d] = "commit" /\ ~replayed[c] /\ ~replayed[d] =>
         Request(c).ext # Request(d).ext

ConsumersRight ==
    /\ \A c \in Consumers : Right(c)
    /\ \A c, d \in Consumers : c # d => Apart(c, d)

InboxInv ==
    TypeOK /\ ConsumersRight /\ DeletedWasHandled /\ ExecutedOnce /\ InboxMatchesWagers

-----------------------------------------------------------------------------
(* Type correctness.                                                       *)

\* A consumer at work has a message of the queue.
LEMMA WorkType ==
    ASSUME TypeOK, NEW c \in Consumers, pc[c] # "idle"
    PROVE  /\ batch[c] \in Seq([msg : Messages, receipt : 1 .. MaxReceives])
           /\ Len(batch[c]) \in Nat \ {0} /\ batch[c] # << >>
           /\ Msg(c) \in Messages /\ Id(c) \in MessageIds /\ Request(c) \in Requests
           /\ Request(c).ext \in Exts /\ Request(c).payload \in Payloads
<1> DEFINE R == [msg : Messages, receipt : 1 .. MaxReceives]
<1>1. batch[c] \in Seq(R) /\ batch[c] # << >>
  BY DEF TypeOK
<1>2. Head(batch[c]) \in R /\ Len(batch[c]) \in Nat \ {0}
  <2> HIDE DEF R
  <2>1. QED
    BY <1>1
<1>3. Msg(c) \in Messages
  BY <1>2 DEF Msg
<1>4. body[Msg(c)] \in [id : MessageIds, request : Requests, form : Forms]
  BY <1>3, InboxConsumerAssumption DEF TypeOK
<1>5. Id(c) \in MessageIds /\ Request(c) \in Requests
  BY <1>4 DEF Id, Request
<1>6. QED
  BY <1>1, <1>2, <1>3, <1>5 DEF Requests

\* On to the next message of the batch.
LEMMA NextType ==
    ASSUME TypeOK, NEW c \in Consumers, pc[c] # "idle", NextMessage(c)
    PROVE  /\ pc' \in [Consumers -> Labels]
           /\ batch' \in [Consumers -> Seq([msg : Messages, receipt : 1 .. MaxReceives])]
           /\ \A d \in Consumers : pc'[d] = "idle" <=> batch'[d] = << >>
           /\ \A d \in Consumers : d # c => pc'[d] = pc[d] /\ batch'[d] = batch[d]
           /\ pc'[c] \in {"idle", "find"}
<1> DEFINE R == [msg : Messages, receipt : 1 .. MaxReceives]
           tail == Tail(batch[c])
<1> HIDE DEF R
<1>1. batch[c] \in Seq(R) /\ Len(batch[c]) \in Nat \ {0} /\ batch[c] # << >>
  BY WorkType DEF R
<1>2. tail \in Seq(R) /\ Len(tail) = Len(batch[c]) - 1
  BY <1>1, HeadTailProperties
<1>3. tail = << >> <=> Len(batch[c]) = 1
  <2> HIDE DEF tail
  <2>1. tail = << >> <=> Len(tail) = 0
    BY <1>2, EmptySeq
  <2>2. QED
    BY <1>1, <1>2, <2>1
<1>4. batch \in [Consumers -> Seq(R)] /\ pc \in [Consumers -> Labels]
  BY DEF TypeOK, R
<1>5. /\ batch' = [batch EXCEPT ![c] = tail]
      /\ pc' = [pc EXCEPT ![c] = IF Len(batch[c]) = 1 THEN "idle" ELSE "find"]
  BY DEF NextMessage, Goto
<1> HIDE DEF tail
<1>6. batch' \in [Consumers -> Seq(R)] /\ pc' \in [Consumers -> Labels]
  BY <1>2, <1>4, <1>5 DEF Labels
<1>7. batch'[c] = tail /\ pc'[c] = IF Len(batch[c]) = 1 THEN "idle" ELSE "find"
  BY <1>4, <1>5
<1>8. \A d \in Consumers : d # c => pc'[d] = pc[d] /\ batch'[d] = batch[d]
  BY <1>4, <1>5
<1>9. \A d \in Consumers : pc[d] = "idle" <=> batch[d] = << >>
  BY DEF TypeOK
<1>10. QED
  BY <1>3, <1>6, <1>7, <1>8, <1>9 DEF R

\* On to another label, with the same message.
LEMMA GotoType ==
    ASSUME TypeOK, NEW c \in Consumers, pc[c] # "idle", NEW label \in Labels \ {"idle"},
           Goto(c, label), UNCHANGED batch
    PROVE  /\ pc' \in [Consumers -> Labels]
           /\ batch' \in [Consumers -> Seq([msg : Messages, receipt : 1 .. MaxReceives])]
           /\ \A d \in Consumers : pc'[d] = "idle" <=> batch'[d] = << >>
           /\ \A d \in Consumers : d # c => pc'[d] = pc[d]
           /\ pc'[c] = label
BY DEF TypeOK, Goto, Labels

\* The part of the type that a consumer moves.
LocalType ==
    /\ pc \in [Consumers -> Labels]
    /\ batch \in [Consumers -> Seq([msg : Messages, receipt : 1 .. MaxReceives])]
    /\ \A c \in Consumers : pc[c] = "idle" <=> batch[c] = << >>
    /\ replayed \in [Consumers -> BOOLEAN]

SharedType ==
    /\ body \in Bodies
    /\ queue \in [Messages -> {"ready", "hidden", "deleted", "dead"}]
    /\ receives \in [Messages -> 0 .. MaxReceives]
    /\ inbox \in [MessageIds -> Requests \cup {None}]
    /\ wagers \in [Exts -> Payloads \cup {None}]
    /\ executed \in [MessageIds -> Nat]

LEMMA TypeParts == TypeOK <=> LocalType /\ SharedType
BY DEF TypeOK, LocalType, SharedType

LEMMA MoveType ==
    ASSUME TypeOK, NEW c \in Consumers, pc[c] # "idle",
           NextMessage(c) \/ (UNCHANGED batch /\ \E label \in Labels \ {"idle"} : Goto(c, label)),
           replayed' \in [Consumers -> BOOLEAN]
    PROVE  LocalType'
<1>1. CASE NextMessage(c)
  BY <1>1, NextType DEF LocalType
<1>2. ASSUME NEW label \in Labels \ {"idle"}, Goto(c, label), UNCHANGED batch PROVE LocalType'
  BY <1>2, GotoType DEF LocalType
<1>3. QED
  BY <1>1, <1>2

LEMMA PublishType ==
    ASSUME TypeOK, NEW c \in Consumers, pc[c] # "idle", Publish(c), UNCHANGED sqs
    PROVE  SharedType' /\ replayed' \in [Consumers -> BOOLEAN]
<1>1. /\ Id(c) \in MessageIds /\ Request(c) \in Requests
      /\ Request(c).ext \in Exts /\ Request(c).payload \in Payloads
  BY WorkType
<1> DEFINE i == Id(c)
           r == Request(c)
<1>2. /\ inbox' = [inbox EXCEPT ![i] = r]
      /\ wagers' = [wagers EXCEPT ![r.ext] = r.payload]
      /\ executed' = [executed EXCEPT ![i] = executed[i] + 1]
      /\ replayed' = [replayed EXCEPT ![c] = FALSE]
  BY DEF Publish
<1>3. i \in MessageIds /\ r \in Requests /\ r.ext \in Exts /\ r.payload \in Payloads
  BY <1>1
<1> HIDE DEF i, r
<1>4. executed[i] + 1 \in Nat
  BY <1>3 DEF TypeOK
<1>5. QED
  BY <1>2, <1>3, <1>4 DEF TypeOK, SharedType, sqs

LEMMA ReceiveType ==
    ASSUME TypeOK, NEW c \in Consumers, Receive(c)
    PROVE  TypeOK'
<1> DEFINE R == [msg : Messages, receipt : 1 .. MaxReceives]
<1>1. PICK order \in UNION {[1 .. n -> Messages] : n \in 1 .. BatchSize} :
         /\ \A m \in Range(order) : queue[m] = "ready" /\ receives[m] < MaxReceives
         /\ batch' = [batch EXCEPT ![c] = [i \in DOMAIN order |->
                        [msg |-> order[i], receipt |-> receives[order[i]] + 1]]]
         /\ receives' = [m \in Messages |->
                           receives[m] + IF m \in Range(order) THEN 1 ELSE 0]
         /\ queue' = [m \in Messages |->
                        IF m \in Range(order) THEN "hidden" ELSE queue[m]]
  BY DEF Receive
<1>2. PICK n \in 1 .. BatchSize : order \in [1 .. n -> Messages]
  BY <1>1
<1>3. n \in Nat /\ n # 0 /\ DOMAIN order = 1 .. n /\ MaxReceives \in Nat
  BY <1>2, InboxConsumerAssumption
<1>4. \A m \in Messages : receives[m] \in 0 .. MaxReceives
  BY DEF TypeOK
<1>5. receives' \in [Messages -> 0 .. MaxReceives]
  <2>1. \A m \in Messages : receives[m] + (IF m \in Range(order) THEN 1 ELSE 0) \in 0 .. MaxReceives
    BY <1>1, <1>3, <1>4
  <2>2. QED
    BY <1>1, <2>1
<1>6. queue' \in [Messages -> {"ready", "hidden", "deleted", "dead"}]
  BY <1>1 DEF TypeOK
<1> DEFINE taken == [i \in 1 .. n |-> [msg |-> order[i], receipt |-> receives[order[i]] + 1]]
<1>7. taken \in Seq(R) /\ taken # << >>
  <2>1. ASSUME NEW i \in 1 .. n
        PROVE  [msg |-> order[i], receipt |-> receives[order[i]] + 1] \in R
    <3>1. order[i] \in Messages /\ order[i] \in Range(order)
      BY <1>2, <1>3 DEF Range
    <3>2. receives[order[i]] + 1 \in 1 .. MaxReceives
      BY <1>1, <1>3, <1>4, <3>1
    <3>3. QED
      BY <3>1, <3>2
  <2>2. taken \in [1 .. n -> R]
    BY <2>1
  <2> HIDE DEF taken, R
  <2>3. taken \in Seq(R) /\ Len(taken) = n
    BY <1>3, <2>2
  <2>4. QED
    BY <1>3, <2>3
<1>8. batch' = [batch EXCEPT ![c] = taken]
  BY <1>1, <1>3
<1>9. pc' = [pc EXCEPT ![c] = "find"] /\ pc \in [Consumers -> Labels]
  BY DEF Receive, Goto, TypeOK
<1>10. batch \in [Consumers -> Seq(R)] /\ \A d \in Consumers : pc[d] = "idle" <=> batch[d] = << >>
  BY DEF TypeOK
<1> HIDE DEF taken, R
<1>11. /\ pc' \in [Consumers -> Labels] /\ batch' \in [Consumers -> Seq(R)]
       /\ \A d \in Consumers : pc'[d] = "idle" <=> batch'[d] = << >>
  BY <1>7, <1>8, <1>9, <1>10 DEF Labels
<1>12. UNCHANGED <<body, inbox, wagers, executed, replayed>>
  BY DEF Receive, db
<1>13. QED
  BY <1>5, <1>6, <1>11, <1>12 DEF TypeOK, R

\* The steps of a message that a consumer takes on its own: the database stays.
Local(c) ==
    RefuseMalformed(c) \/ FindInbox(c) \/ InsertInbox(c) \/ RefindInbox(c) \/ ProcessInTx(c)
    \/ DeleteMessage(c) \/ DeleteFails(c) \/ Transient(c)

LEMMA LocalMoves ==
    ASSUME TypeOK, NEW c \in Consumers, Local(c)
    PROVE  /\ pc[c] # "idle" /\ UNCHANGED db
           /\ NextMessage(c) \/ (UNCHANGED batch /\ \E label \in Labels \ {"idle"} : Goto(c, label))
           /\ replayed' \in [Consumers -> BOOLEAN]
           /\ \A d \in Consumers : d # c => replayed'[d] = replayed[d]
           /\ UNCHANGED sqs \/ DeleteMessage(c)
<1>1. replayed \in [Consumers -> BOOLEAN]
  BY DEF TypeOK
<1> USE DEF Labels
<1>2. CASE RefuseMalformed(c)
  BY <1>1, <1>2 DEF RefuseMalformed
<1>3. CASE FindInbox(c)
  BY <1>1, <1>3 DEF FindInbox, DuplicateOrMismatch
<1>4. CASE InsertInbox(c)
  BY <1>1, <1>4 DEF InsertInbox
<1>5. CASE RefindInbox(c)
  BY <1>1, <1>5 DEF RefindInbox, DuplicateOrMismatch
<1>6. CASE ProcessInTx(c)
  BY <1>1, <1>6 DEF ProcessInTx
<1>7. CASE DeleteMessage(c) \/ DeleteFails(c)
  BY <1>1, <1>7 DEF DeleteMessage, DeleteFails
<1>8. CASE Transient(c)
  BY <1>1, <1>8 DEF Transient
<1>9. QED
  BY <1>2, <1>3, <1>4, <1>5, <1>6, <1>7, <1>8 DEF Local

LEMMA TypeStep == TypeOK /\ [Next]_vars => TypeOK'
<1> SUFFICES ASSUME TypeOK, [Next]_vars PROVE TypeOK'
  OBVIOUS
<1>1. CASE UNCHANGED vars
  BY <1>1 DEF vars, TypeOK
<1>2. ASSUME NEW c \in Consumers, Receive(c) PROVE TypeOK'
  BY <1>2, ReceiveType
<1>3. ASSUME NEW c \in Consumers, Local(c) PROVE TypeOK'
  <2>1. LocalType' /\ UNCHANGED db /\ (UNCHANGED sqs \/ DeleteMessage(c)) /\ pc[c] # "idle"
    BY <1>3, LocalMoves, MoveType
  <2>2. SharedType'
    <3>1. CASE UNCHANGED sqs
      BY <2>1, <3>1 DEF TypeOK, SharedType, db, sqs
    <3>2. CASE DeleteMessage(c)
      <4>1. Msg(c) \in Messages
        BY <2>1, WorkType
      <4>2. queue' \in [Messages -> {"ready", "hidden", "deleted", "dead"}]
        BY <3>2, <4>1 DEF DeleteMessage, TypeOK
      <4>3. QED
        BY <2>1, <3>2, <4>2 DEF DeleteMessage, TypeOK, SharedType, db
    <3>3. QED
      BY <2>1, <3>1, <3>2
  <2>3. QED
    BY <2>1, <2>2, TypeParts DEF LocalType, SharedType, TypeOK
<1>4. ASSUME NEW c \in Consumers, Commit(c) \/ CommitReplyLost(c) PROVE TypeOK'
  <2>1. /\ pc[c] # "idle" /\ Publish(c) /\ UNCHANGED sqs
        /\ NextMessage(c) \/ (UNCHANGED batch /\ \E label \in Labels \ {"idle"} : Goto(c, label))
    BY <1>4 DEF Commit, CommitReplyLost, Labels
  <2>2. SharedType' /\ LocalType'
    BY <2>1, PublishType, MoveType
  <2>3. QED
    BY <2>2 DEF LocalType, SharedType, TypeOK
<1>5. ASSUME NEW c \in Consumers, Crash(c) PROVE TypeOK'
  <2>1. << >> \in Seq([msg : Messages, receipt : 1 .. MaxReceives])
    OBVIOUS
  <2>2. LocalType'
    BY <1>5, <2>1 DEF Crash, Goto, TypeOK, LocalType, Labels
  <2>3. SharedType'
    BY <1>5 DEF Crash, TypeOK, SharedType, db, sqs
  <2>4. QED
    BY <2>2, <2>3 DEF LocalType, SharedType, TypeOK
<1>6. ASSUME NEW m \in Messages, VisibilityEnds(m) \/ Redrive(m) PROVE TypeOK'
  BY <1>6 DEF VisibilityEnds, Redrive, TypeOK, db
<1>7. ASSUME NEW e \in Exts, ApiProcesses(e) PROVE TypeOK'
  BY <1>7 DEF ApiProcesses, TypeOK, sqs
<1>8. QED
  BY <1>1, <1>2, <1>3, <1>4, <1>5, <1>6, <1>7 DEF Next, Handle, Fail, Local

LEMMA InitInbox == Init => InboxInv
<1> SUFFICES ASSUME Init PROVE InboxInv
  OBVIOUS
<1>1. << >> \in Seq([msg : Messages, receipt : 1 .. MaxReceives]) /\ 0 \in 0 .. MaxReceives
  BY InboxConsumerAssumption
<1>2. TypeOK
  BY <1>1 DEF Init, TypeOK, Labels
<1>3. ConsumersRight
  BY DEF Init, ConsumersRight, Right, Apart, Inserting
<1>4. DeletedWasHandled /\ ExecutedOnce /\ InboxMatchesWagers
  BY DEF Init, DeletedWasHandled, ExecutedOnce, InboxMatchesWagers
<1>5. QED
  BY <1>2, <1>3, <1>4 DEF InboxInv

\* The tables, the queue and the local state of the consumers are as the schema and the
\* code declare them; a consumer has a message in hand unless it is about to poll.
THEOREM InboxTypes == Spec => []TypeOK
<1>1. Init => TypeOK
  BY InitInbox DEF InboxInv
<1>2. QED
  BY <1>1, TypeStep, PTL DEF Spec

-----------------------------------------------------------------------------
(* What an open transaction may rely on.                                   *)

\* A consumer that stands, beside a step that leaves the database alone.
LEMMA Stands ==
    ASSUME TypeOK, UNCHANGED <<body, db>>, NEW c \in Consumers, Right(c),
           pc'[c] = pc[c], batch'[c] = batch[c], replayed'[c] = replayed[c]
    PROVE  Right(c)'
BY DEF Right, Id, Request, Msg, db

LEMMA StandApart ==
    ASSUME UNCHANGED body, NEW c \in Consumers, NEW d \in Consumers, Apart(c, d),
           pc'[c] = pc[c], batch'[c] = batch[c], replayed'[c] = replayed[c],
           pc'[d] = pc[d], batch'[d] = batch[d], replayed'[d] = replayed[d]
    PROVE  Apart(c, d)'
BY DEF Apart, Inserting, Id, Request, Msg

\* A consumer outside a transaction relies on nothing.
LEMMA Outside ==
    ASSUME NEW c \in Consumers, pc'[c] \notin {"process", "commit"}
    PROVE  /\ pc'[c] # "delete" => Right(c)'
           /\ \A d \in Consumers : Apart(c, d)' /\ Apart(d, c)'
BY DEF Right, Apart, Inserting

\* What a consumer knows after a step of its own.
LEMMA LocalRight ==
    ASSUME TypeOK, ConsumersRight, NEW c \in Consumers, Local(c)
    PROVE  Right(c)'
<1>1. /\ UNCHANGED db /\ pc[c] # "idle" /\ Right(c)
      /\ UNCHANGED body
  BY LocalMoves DEF ConsumersRight, DeleteMessage, sqs
<1>2. CASE NextMessage(c)
  <2>1. pc'[c] \in {"idle", "find"}
    BY <1>1, <1>2, NextType
  <2>2. QED
    BY <2>1, Outside
<1>3. ASSUME UNCHANGED batch
      PROVE  Id(c)' = Id(c) /\ Request(c)' = Request(c)
  BY <1>1, <1>3 DEF Id, Request, Msg
<1>4. ASSUME NEW label \in Labels, Goto(c, label) PROVE pc'[c] = label
  BY <1>4 DEF Goto, TypeOK
<1>5. ASSUME UNCHANGED batch, Goto(c, "delete"), inbox[Id(c)] = Request(c) PROVE Right(c)'
  BY <1>1, <1>3, <1>4, <1>5 DEF Right, db, Labels
<1>6. ASSUME NEW label \in {"insert", "refind"}, Goto(c, label) PROVE Right(c)'
  BY <1>4, <1>6, Outside DEF Labels
<1>7. CASE FindInbox(c)
  BY <1>2, <1>5, <1>6, <1>7 DEF FindInbox, DuplicateOrMismatch
<1>8. CASE RefindInbox(c)
  BY <1>2, <1>5, <1>8 DEF RefindInbox, DuplicateOrMismatch
<1>9. CASE InsertInbox(c)
  <2>1. CASE inbox[Id(c)] = None
    BY <1>1, <1>3, <1>4, <1>9, <2>1 DEF InsertInbox, Right, db, Labels
  <2>2. CASE inbox[Id(c)] # None
    BY <1>6, <1>9, <2>2 DEF InsertInbox
  <2>3. QED
    BY <2>1, <2>2
<1>10. CASE ProcessInTx(c) /\ ~NextMessage(c)
  <2> DEFINE stored == wagers[Request(c).ext]
  <2>1. /\ stored \in {None, Request(c).payload} /\ UNCHANGED batch /\ Goto(c, "commit")
        /\ replayed' = [replayed EXCEPT ![c] = stored # None]
        /\ pc[c] = "process"
    BY <1>10 DEF ProcessInTx
  <2>2. pc'[c] = "commit" /\ replayed'[c] = (stored # None)
    BY <1>4, <2>1 DEF TypeOK, Labels
  <2>3. inbox'[Id(c)'] = None
    BY <1>1, <1>3, <2>1 DEF Right, db
  <2>4. wagers'[Request(c)'.ext] = stored
    BY <1>1, <1>3, <2>1 DEF db
  <2>5. Request(c)'.payload = Request(c).payload
    BY <1>3, <2>1
  <2>6. wagers'[Request(c)'.ext] = IF replayed'[c] THEN Request(c)'.payload ELSE None
    <3>1. CASE stored = None
      BY <2>2, <2>4, <3>1
    <3>2. CASE stored # None
      BY <2>1, <2>2, <2>4, <2>5, <3>2
    <3>3. QED
      BY <3>1, <3>2
  <2>7. QED
    BY <2>2, <2>3, <2>6 DEF Right
<1>11. QED
  BY <1>2, <1>7, <1>8, <1>9, <1>10 DEF Local, RefuseMalformed, DeleteMessage, DeleteFails, Transient


\* A step of its own leaves a consumer apart from the others: the insert waits for an
\* uncommitted row of the same id, the store of a wager for one of the same external id.
LEMMA LocalApart ==
    ASSUME TypeOK, ConsumersRight, NEW c \in Consumers, Local(c), NEW d \in Consumers, d # c
    PROVE  Apart(c, d)' /\ Apart(d, c)'
<1>1. /\ UNCHANGED body /\ pc[c] # "idle" /\ Apart(c, d) /\ Apart(d, c)
      /\ NextMessage(c) \/ (UNCHANGED batch /\ \E label \in Labels \ {"idle"} : Goto(c, label))
      /\ replayed'[d] = replayed[d]
  BY LocalMoves DEF ConsumersRight, DeleteMessage, sqs
<1>2. /\ pc'[d] = pc[d] /\ batch'[d] = batch[d]
      /\ NextMessage(c) => pc'[c] \in {"idle", "find"}
  BY <1>1, NextType DEF Goto, TypeOK
<1>3. Id(d)' = Id(d) /\ Request(d)' = Request(d)
  BY <1>1, <1>2 DEF Id, Request, Msg
<1>4. CASE pc'[c] \notin {"process", "commit"}
  BY <1>4, Outside
<1>5. CASE pc'[c] \in {"process", "commit"}
  <2>1. UNCHANGED batch /\ pc'[c] \in {"process", "commit"}
    BY <1>1, <1>2, <1>5
  <2>2. Id(c)' = Id(c) /\ Request(c)' = Request(c)
    BY <1>1, <2>1 DEF Id, Request, Msg
  <2>3. (InsertInbox(c) /\ pc'[c] = "process") \/ (ProcessInTx(c) /\ pc'[c] = "commit")
    BY <1>2, <2>1 DEF Local, RefuseMalformed, FindInbox, InsertInbox, RefindInbox, ProcessInTx,
       DuplicateOrMismatch, DeleteMessage, DeleteFails, Transient, Goto, TypeOK
  <2>4. CASE InsertInbox(c) /\ pc'[c] = "process"
    <3>1. pc[d] \in {"process", "commit"} => Id(d) # Id(c)
      BY <2>4 DEF InsertInbox, Inserting
    <3>2. QED
      BY <1>2, <1>3, <2>2, <2>4, <3>1 DEF Apart, Inserting
  <2>5. CASE ProcessInTx(c) /\ pc'[c] = "commit"
    <3>1. /\ pc[c] = "process" /\ replayed'[c] = (wagers[Request(c).ext] # None)
          /\ wagers[Request(c).ext] = None => ~Contended({c}, Request(c).ext)
      BY <1>2, <2>5 DEF ProcessInTx, TypeOK
    <3>2. pc[d] \in {"process", "commit"} => Id(d) # Id(c)
      BY <1>1, <3>1 DEF Apart, Inserting
    <3>3. ~replayed'[c] /\ pc[d] = "commit" /\ ~replayed[d] => Request(d).ext # Request(c).ext
      BY <3>1 DEF Contended
    <3>4. pc'[d] = "commit" /\ ~replayed'[c] /\ ~replayed'[d] => Request(c)'.ext # Request(d)'.ext
      BY <1>1, <1>2, <1>3, <2>2, <3>3
    <3>5. pc'[d] \in {"process", "commit"} => Id(c)' # Id(d)'
      BY <1>2, <1>3, <2>2, <3>2
    <3>6. QED
      BY <3>4, <3>5 DEF Apart, Inserting
  <2>6. QED
    BY <2>3, <2>4, <2>5
<1>6. QED
  BY <1>4, <1>5

\* A commit writes the inbox row and the wager of its message and no others.
LEMMA Published ==
    ASSUME TypeOK, ConsumersRight, NEW c \in Consumers, pc[c] = "commit", Publish(c)
    PROVE  /\ inbox[Id(c)] = None /\ inbox'[Id(c)] = Request(c)
           /\ executed'[Id(c)] = executed[Id(c)] + 1
           /\ \A i \in MessageIds : i # Id(c) => inbox'[i] = inbox[i] /\ executed'[i] = executed[i]
           /\ wagers'[Request(c).ext] = Request(c).payload
           /\ wagers[Request(c).ext] \in {None, Request(c).payload}
           /\ \A e \in Exts : e # Request(c).ext => wagers'[e] = wagers[e]
           /\ \A d \in Consumers : d # c => replayed'[d] = replayed[d]
<1>1. /\ Id(c) \in MessageIds /\ Request(c).ext \in Exts
      /\ Right(c)
  BY WorkType DEF ConsumersRight
<1>2. inbox[Id(c)] = None /\ wagers[Request(c).ext] \in {None, Request(c).payload}
  BY <1>1 DEF Right
<1>3. /\ inbox' = [inbox EXCEPT ![Id(c)] = Request(c)]
      /\ wagers' = [wagers EXCEPT ![Request(c).ext] = Request(c).payload]
      /\ executed' = [executed EXCEPT ![Id(c)] = executed[Id(c)] + 1]
      /\ replayed' = [replayed EXCEPT ![c] = FALSE]
  BY DEF Publish
<1>4. QED
  BY <1>1, <1>2, <1>3 DEF TypeOK

\* Nothing that another consumer relies on is written by a commit.
LEMMA OthersRight ==
    ASSUME TypeOK, ConsumersRight, NEW c \in Consumers, pc[c] = "commit", Publish(c), UNCHANGED body,
           NEW d \in Consumers, d # c, pc'[d] = pc[d], batch'[d] = batch[d]
    PROVE  Right(d)'
<1>1. Id(d)' = Id(d) /\ Request(d)' = Request(d) /\ replayed'[d] = replayed[d]
  BY Published DEF Id, Request, Msg
<1>2. Right(d) /\ Apart(c, d) /\ inbox[Id(c)] = None
  BY Published DEF ConsumersRight
<1>3. ASSUME pc[d] \in {"process", "commit"} PROVE inbox'[Id(d)] = None
  <2>1. Id(d) \in MessageIds /\ Id(d) # Id(c)
    BY <1>2, <1>3, WorkType DEF Apart, Inserting
  <2>2. QED
    BY <1>2, <1>3, <2>1, Published DEF Right
<1>4. ASSUME pc[d] = "commit"
      PROVE  wagers'[Request(d).ext] = IF replayed[d] THEN Request(d).payload ELSE None
  <2>1. /\ Request(d).ext \in Exts /\ Request(d).payload # None
        /\ wagers[Request(d).ext] = IF replayed[d] THEN Request(d).payload ELSE None
    BY <1>2, <1>4, WorkType, InboxConsumerAssumption DEF Right
  <2>2. CASE Request(d).ext # Request(c).ext
    BY <2>1, <2>2, Published
  <2>3. CASE Request(d).ext = Request(c).ext /\ replayed[d]
    <3>1. wagers[Request(c).ext] = Request(d).payload /\ wagers[Request(c).ext] # None
      BY <2>1, <2>3
    <3>2. QED
      BY <2>3, <3>1, Published
  <2>4. CASE Request(d).ext = Request(c).ext /\ ~replayed[d]
    <3>1. replayed[c] /\ Right(c)
      BY <1>2, <1>4, <2>4 DEF Apart, ConsumersRight
    <3>2. wagers[Request(c).ext] = Request(c).payload /\ Request(c).payload # None
      BY <3>1, WorkType, InboxConsumerAssumption DEF Right
    <3>3. QED
      BY <2>1, <2>4, <3>2
  <2>5. QED
    BY <2>2, <2>3, <2>4
<1>5. ASSUME pc[d] = "delete" PROVE inbox'[Id(d)] = Request(d)
  <2>1. inbox[Id(d)] = Request(d) /\ Request(d) \in Requests /\ Id(d) \in MessageIds
    BY <1>2, <1>5, WorkType DEF Right
  <2>2. Id(d) # Id(c)
    BY <1>2, <2>1, InboxConsumerAssumption
  <2>3. QED
    BY <2>1, <2>2, Published
<1>6. QED
  BY <1>1, <1>3, <1>4, <1>5 DEF Right

LEMMA MoveOthers ==
    ASSUME TypeOK, NEW c \in Consumers, pc[c] # "idle",
           NextMessage(c) \/ (UNCHANGED batch /\ \E label \in Labels : Goto(c, label))
    PROVE  \A d \in Consumers : d # c => pc'[d] = pc[d] /\ batch'[d] = batch[d]
<1>1. CASE NextMessage(c)
  BY <1>1, NextType
<1>2. CASE UNCHANGED batch /\ \E label \in Labels : Goto(c, label)
  BY <1>2 DEF Goto, TypeOK
<1>3. QED
  BY <1>1, <1>2

LEMMA ConsumersStep ==
    ASSUME TypeOK, ConsumersRight, [Next]_vars
    PROVE  ConsumersRight'
<1>1. ASSUME NEW c \in Consumers,
             UNCHANGED <<body, db>>, pc'[c] \notin {"process", "commit", "delete"},
             \A d \in Consumers : d # c =>
                pc'[d] = pc[d] /\ batch'[d] = batch[d] /\ replayed'[d] = replayed[d]
      PROVE  ConsumersRight'
  <2>1. ASSUME NEW d \in Consumers PROVE Right(d)'
    <3>1. CASE d = c
      BY <1>1, <3>1, Outside
    <3>2. CASE d # c
      BY <1>1, <3>2, Stands DEF ConsumersRight
    <3>3. QED
      BY <3>1, <3>2
  <2>2. ASSUME NEW d \in Consumers, NEW f \in Consumers, d # f PROVE Apart(d, f)'
    <3>1. CASE d = c \/ f = c
      BY <1>1, <3>1, Outside
    <3>2. CASE d # c /\ f # c
      BY <1>1, <2>2, <3>2, StandApart DEF ConsumersRight
    <3>3. QED
      BY <3>1, <3>2
  <2>3. QED
    BY <2>1, <2>2 DEF ConsumersRight
<1>2. ASSUME NEW c \in Consumers, Receive(c) PROVE ConsumersRight'
  <2>1. /\ pc' = [pc EXCEPT ![c] = "find"] /\ UNCHANGED <<body, db, replayed>>
        /\ \E taken : batch' = [batch EXCEPT ![c] = taken]
    BY <1>2 DEF Receive, Goto
  <2>2. QED
    BY <1>1, <2>1 DEF TypeOK
<1>3. ASSUME NEW c \in Consumers, Local(c) PROVE ConsumersRight'
  <2>1. /\ UNCHANGED <<body, db>>
        /\ \A d \in Consumers : d # c =>
             pc'[d] = pc[d] /\ batch'[d] = batch[d] /\ replayed'[d] = replayed[d]
    <3>1. /\ UNCHANGED db /\ (UNCHANGED sqs \/ DeleteMessage(c)) /\ pc[c] # "idle"
          /\ NextMessage(c) \/ (UNCHANGED batch /\ \E label \in Labels : Goto(c, label))
          /\ \A d \in Consumers : d # c => replayed'[d] = replayed[d]
      BY <1>3, LocalMoves
    <3>2. UNCHANGED body
      BY <3>1 DEF DeleteMessage, sqs
    <3>3. QED
      BY <3>1, <3>2, MoveOthers
  <2>2. ASSUME NEW d \in Consumers PROVE Right(d)'
    <3>1. CASE d = c
      BY <1>3, <3>1, LocalRight
    <3>2. CASE d # c
      BY <2>1, <3>2, Stands DEF ConsumersRight
    <3>3. QED
      BY <3>1, <3>2
  <2>3. ASSUME NEW d \in Consumers, NEW f \in Consumers, d # f PROVE Apart(d, f)'
    <3>1. CASE d = c \/ f = c
      BY <1>3, <2>3, <3>1, LocalApart
    <3>2. CASE d # c /\ f # c
      BY <2>1, <2>3, <3>2, StandApart DEF ConsumersRight
    <3>3. QED
      BY <3>1, <3>2
  <2>4. QED
    BY <2>2, <2>3 DEF ConsumersRight
<1>4. ASSUME NEW c \in Consumers, Commit(c) \/ CommitReplyLost(c) PROVE ConsumersRight'
  <2>1. /\ pc[c] = "commit" /\ Publish(c) /\ UNCHANGED sqs
        /\ NextMessage(c) \/ (Goto(c, "delete") /\ UNCHANGED batch)
    BY <1>4 DEF Commit, CommitReplyLost
  <2>2. /\ \A d \in Consumers : d # c =>
             pc'[d] = pc[d] /\ batch'[d] = batch[d] /\ replayed'[d] = replayed[d]
        /\ pc'[c] \in {"idle", "find"} \/ (pc'[c] = "delete" /\ UNCHANGED batch)
        /\ UNCHANGED body
    <3>1. \A d \in Consumers : d # c => pc'[d] = pc[d] /\ batch'[d] = batch[d]
      BY <2>1, MoveOthers DEF Labels
    <3>2. \A d \in Consumers : d # c => replayed'[d] = replayed[d]
      BY <2>1, Published
    <3>3. CASE NextMessage(c)
      BY <2>1, <3>1, <3>2, <3>3, NextType DEF sqs
    <3>4. CASE Goto(c, "delete") /\ UNCHANGED batch
      BY <2>1, <3>1, <3>2, <3>4 DEF Goto, TypeOK, sqs
    <3>5. QED
      BY <2>1, <3>3, <3>4
  <2>3. Right(c)'
    <3>1. CASE pc'[c] = "delete" /\ UNCHANGED batch
      <4>1. Id(c)' = Id(c) /\ Request(c)' = Request(c)
        BY <2>2, <3>1 DEF Id, Request, Msg
      <4>2. QED
        BY <2>1, <3>1, <4>1, Published DEF Right
    <3>2. CASE pc'[c] \in {"idle", "find"}
      BY <3>2, Outside
    <3>3. QED
      BY <2>2, <3>1, <3>2
  <2>4. ASSUME NEW d \in Consumers PROVE Right(d)'
    <3>1. CASE d # c
      BY <2>1, <2>2, <3>1, OthersRight
    <3>2. QED
      BY <2>3, <3>1
  <2>5. ASSUME NEW d \in Consumers, NEW f \in Consumers, d # f PROVE Apart(d, f)'
    <3>1. CASE d = c \/ f = c
      BY <2>2, <3>1, Outside
    <3>2. CASE d # c /\ f # c
      BY <2>2, <2>5, <3>2, StandApart DEF ConsumersRight
    <3>3. QED
      BY <3>1, <3>2
  <2>6. QED
    BY <2>4, <2>5 DEF ConsumersRight
<1>5. ASSUME NEW c \in Consumers, Crash(c) PROVE ConsumersRight'
  BY <1>1, <1>5 DEF Crash, Goto, TypeOK, sqs
<1>6. CASE UNCHANGED <<body, db, pc, batch, replayed>>
  BY <1>6, Stands, StandApart DEF ConsumersRight
<1>7. ASSUME NEW e \in Exts, ApiProcesses(e) PROVE ConsumersRight'
  <2>1. /\ wagers[e] = None /\ UNCHANGED <<inbox, body, pc, batch, replayed>>
        /\ \A f \in Exts : f # e => wagers'[f] = wagers[f]
        /\ ~Contended({}, e)
    BY <1>7 DEF ApiProcesses, sqs, TypeOK
  <2>2. ASSUME NEW c \in Consumers PROVE Right(c)'
    <3>1. Id(c)' = Id(c) /\ Request(c)' = Request(c) /\ Right(c)
      BY <2>1 DEF Id, Request, Msg, ConsumersRight
    <3>2. ASSUME pc[c] = "commit" PROVE wagers'[Request(c).ext] = wagers[Request(c).ext]
      <4>1. Request(c).ext \in Exts /\ Request(c).payload # None
        BY <3>2, WorkType, InboxConsumerAssumption
      <4>2. Request(c).ext # e
        BY <2>1, <3>1, <3>2, <4>1 DEF Right, Contended
      <4>3. QED
        BY <2>1, <4>1, <4>2
    <3>3. QED
      BY <2>1, <3>1, <3>2 DEF Right
  <2>3. ASSUME NEW c \in Consumers, NEW d \in Consumers, c # d PROVE Apart(c, d)'
    BY <2>1, <2>3, StandApart DEF ConsumersRight
  <2>4. QED
    BY <2>2, <2>3 DEF ConsumersRight
<1>8. QED
  BY <1>2, <1>3, <1>4, <1>5, <1>6, <1>7 DEF Next, Handle, Fail, Local, vars, db,
     VisibilityEnds, Redrive


-----------------------------------------------------------------------------
(* The inbox, the queue and the wagers.                                    *)

\* What a step may do to the database and to the queue.
DbKinds ==
    \/ UNCHANGED <<inbox, executed>> /\ \A e \in Exts : wagers[e] # None => wagers'[e] = wagers[e]
    \/ \E c \in Consumers : pc[c] = "commit" /\ Publish(c)

QueueKinds ==
    \/ \A m \in Messages : queue'[m] = "deleted" => queue[m] = "deleted"
    \/ \E c \in Consumers : DeleteMessage(c)

LEMMA StepKinds ==
    ASSUME TypeOK, [Next]_vars
    PROVE  DbKinds /\ QueueKinds /\ UNCHANGED body
<1>1. CASE UNCHANGED vars
  BY <1>1 DEF vars, DbKinds, QueueKinds
<1>2. ASSUME NEW c \in Consumers, Receive(c) PROVE DbKinds /\ QueueKinds /\ UNCHANGED body
  <2>1. PICK S : queue' = [m \in Messages |-> IF m \in S THEN "hidden" ELSE queue[m]]
    BY <1>2 DEF Receive
  <2>2. QueueKinds
    BY <2>1 DEF QueueKinds
  <2>3. QED
    BY <1>2, <2>2 DEF Receive, db, DbKinds
<1>3. ASSUME NEW c \in Consumers, Local(c) PROVE DbKinds /\ QueueKinds /\ UNCHANGED body
  BY <1>3, LocalMoves DEF db, sqs, DbKinds, QueueKinds, DeleteMessage
<1>4. ASSUME NEW c \in Consumers, Commit(c) \/ CommitReplyLost(c)
      PROVE  DbKinds /\ QueueKinds /\ UNCHANGED body
  BY <1>4 DEF Commit, CommitReplyLost, sqs, DbKinds, QueueKinds
<1>5. ASSUME NEW c \in Consumers, Crash(c) PROVE DbKinds /\ QueueKinds /\ UNCHANGED body
  BY <1>5 DEF Crash, db, sqs, DbKinds, QueueKinds
<1>6. ASSUME NEW m \in Messages, VisibilityEnds(m) \/ Redrive(m)
      PROVE  DbKinds /\ QueueKinds /\ UNCHANGED body
  BY <1>6 DEF VisibilityEnds, Redrive, db, DbKinds, QueueKinds, TypeOK
<1>7. ASSUME NEW e \in Exts, ApiProcesses(e) PROVE DbKinds /\ QueueKinds /\ UNCHANGED body
  BY <1>7 DEF ApiProcesses, sqs, DbKinds, QueueKinds, TypeOK
<1>8. QED
  BY <1>1, <1>2, <1>3, <1>4, <1>5, <1>6, <1>7 DEF Next, Handle, Fail, Local

\* A row of the inbox, once completed, stays as it is.
LEMMA RowsStay ==
    ASSUME TypeOK, ConsumersRight, [Next]_vars
    PROVE  /\ \A i \in MessageIds : inbox[i] # None => inbox'[i] = inbox[i]
           /\ \A e \in Exts : wagers[e] # None => wagers'[e] = wagers[e]
<1>1. CASE UNCHANGED <<inbox, executed>> /\ \A e \in Exts : wagers[e] # None => wagers'[e] = wagers[e]
  BY <1>1
<1>2. ASSUME NEW c \in Consumers, pc[c] = "commit", Publish(c)
      PROVE  /\ \A i \in MessageIds : inbox[i] # None => inbox'[i] = inbox[i]
             /\ \A e \in Exts : wagers[e] # None => wagers'[e] = wagers[e]
  <2>1. \A i \in MessageIds : inbox[i] # None => inbox'[i] = inbox[i]
    BY <1>2, Published
  <2>2. ASSUME NEW e \in Exts, wagers[e] # None PROVE wagers'[e] = wagers[e]
    BY <1>2, <2>2, Published
  <2>3. QED
    BY <2>1, <2>2
<1>3. QED
  BY <1>1, <1>2, StepKinds DEF DbKinds

LEMMA ExecutedStep ==
    ASSUME TypeOK, ConsumersRight, ExecutedOnce, [Next]_vars
    PROVE  ExecutedOnce'
<1>1. CASE UNCHANGED <<inbox, executed>>
  BY <1>1 DEF ExecutedOnce
<1>2. ASSUME NEW c \in Consumers, pc[c] = "commit", Publish(c) PROVE ExecutedOnce'
  <2> SUFFICES ASSUME NEW i \in MessageIds PROVE executed'[i] = IF inbox'[i] = None THEN 0 ELSE 1
    BY DEF ExecutedOnce
  <2>1. CASE i # Id(c)
    BY <1>2, <2>1, Published DEF ExecutedOnce
  <2>2. CASE i = Id(c)
    <3>1. inbox'[i] = Request(c) /\ executed[i] = 0 /\ executed'[i] = executed[i] + 1
      BY <1>2, <2>2, Published DEF ExecutedOnce
    <3>2. Request(c) # None
      BY <1>2, WorkType, InboxConsumerAssumption
    <3>3. QED
      BY <3>1, <3>2
  <2>3. QED
    BY <2>1, <2>2
<1>3. QED
  BY <1>1, <1>2, StepKinds DEF DbKinds

LEMMA MatchStep ==
    ASSUME TypeOK, ConsumersRight, InboxMatchesWagers, [Next]_vars
    PROVE  InboxMatchesWagers'
<1> SUFFICES ASSUME NEW i \in MessageIds, inbox'[i] # None
             PROVE  wagers'[inbox'[i].ext] = inbox'[i].payload
  BY DEF InboxMatchesWagers
<1>1. CASE inbox[i] # None
  <2>1. inbox'[i] = inbox[i] /\ wagers[inbox[i].ext] = inbox[i].payload
    BY <1>1, RowsStay DEF InboxMatchesWagers
  <2>2. inbox[i] \in Requests
    BY <1>1 DEF TypeOK
  <2>3. inbox[i].ext \in Exts /\ inbox[i].payload # None
    BY <2>2, InboxConsumerAssumption DEF Requests
  <2>4. QED
    BY <2>1, <2>3, RowsStay
<1>2. CASE inbox[i] = None
  <2>1. PICK c \in Consumers : pc[c] = "commit" /\ Publish(c)
    BY <1>2, StepKinds DEF DbKinds
  <2>2. i = Id(c)
    BY <1>2, <2>1, Published
  <2>3. QED
    BY <2>1, <2>2, Published
<1>3. QED
  BY <1>1, <1>2

LEMMA DeletedStep ==
    ASSUME TypeOK, ConsumersRight, DeletedWasHandled, [Next]_vars
    PROVE  DeletedWasHandled'
<1> SUFFICES ASSUME NEW m \in Messages, queue'[m] = "deleted"
             PROVE  inbox'[body'[m].id] = body'[m].request
  BY DEF DeletedWasHandled
<1>1. body[m].id \in MessageIds /\ body[m].request # None /\ UNCHANGED body
  <2>1. body[m] \in [id : MessageIds, request : Requests, form : Forms]
    BY InboxConsumerAssumption DEF TypeOK
  <2>2. QED
    BY <2>1, InboxConsumerAssumption, StepKinds
<1>2. inbox[body[m].id] = body[m].request
  <2>1. CASE queue[m] = "deleted"
    BY <2>1 DEF DeletedWasHandled
  <2>2. ASSUME NEW c \in Consumers, DeleteMessage(c), queue[m] # "deleted"
        PROVE  inbox[body[m].id] = body[m].request
    <3>1. pc[c] = "delete" /\ m = Msg(c)
      BY <2>2 DEF DeleteMessage, TypeOK
    <3>2. QED
      BY <3>1 DEF ConsumersRight, Right, Id, Request
  <2>3. QED
    BY <2>1, <2>2, StepKinds DEF QueueKinds
<1>3. QED
  BY <1>1, <1>2, RowsStay

LEMMA InboxInductive == Spec => []InboxInv
<1>1. InboxInv /\ [Next]_vars => InboxInv'
  BY TypeStep, ConsumersStep, DeletedStep, ExecutedStep, MatchStep DEF InboxInv
<1>2. QED
  BY <1>1, InitInbox, PTL DEF Spec

\* "Repeated delivery: no Application/Domain execution": for every number of messages,
\* consumers and redeliveries, a message id is executed once, by the transaction that
\* completes its inbox row, or not at all.
THEOREM Once == Spec => []ExecutedOnce
<1>1. InboxInv => ExecutedOnce
  BY DEF InboxInv
<1>2. QED
  BY <1>1, InboxInductive, PTL

\* A message leaves the queue for good only after the commit of the inbox row that has
\* its payload: no receipt, however old, deletes a message that was not handled.
THEOREM DeletedAfterCommit == Spec => []DeletedWasHandled
<1>1. InboxInv => DeletedWasHandled
  BY DEF InboxInv
<1>2. QED
  BY <1>1, InboxInductive, PTL

\* A completed inbox row stands for the committed wager of its payload, which no other
\* message and no request to the API replaces.
THEOREM InboxTellsWagers == Spec => []InboxMatchesWagers
<1>1. InboxInv => InboxMatchesWagers
  BY DEF InboxInv
<1>2. QED
  BY <1>1, InboxInductive, PTL

=============================================================================
