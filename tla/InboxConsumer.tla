---------------------------- MODULE InboxConsumer ----------------------------
(***************************************************************************)
(* The consumers that read wagering requests from the SQS queue: each      *)
(* message is handled in one database transaction with its inbox row, and  *)
(* deleted after the commit.                                               *)
(*                                                                         *)
(* The queue is external.  A received message is hidden until its          *)
(* visibility runs out or it is deleted; it may be received MaxReceives    *)
(* times, then it moves to the dead-letter queue.  Messages may be         *)
(* delivered in any order, which includes the order of the FIFO groups.    *)
(*                                                                         *)
(* ProcessInTx is what Wagering models statement by statement; of its      *)
(* outcome this module keeps whether the request is refused, replayed or   *)
(* applied, and that no two transactions hold the same external id.        *)
(***************************************************************************)
EXTENDS Integers, FiniteSets, SequencesExt

CONSTANTS
    None,
    Messages,     \* messages of the queue
    Consumers,    \* consumer instances, all with the same consumer name
    MessageIds,   \* ids in the envelopes
    Exts,         \* external transaction ids
    Payloads,     \* the rest of what the payload hash covers
    Bodies,       \* what the messages may be, see body
    BatchSize,    \* messages received at once
    MaxReceives   \* maxReceiveCount of the redrive policy

Requests == [ext : Exts, payload : Payloads]

\* malformed: refused before the transaction; refused: by ProcessInTx.
Forms == {"good", "malformed", "refused"}

ASSUME InboxConsumerAssumption ==
    /\ Bodies \subseteq [Messages -> [id : MessageIds, request : Requests, form : Forms]]
    /\ None \notin Requests \cup Payloads
    /\ BatchSize \in Nat \ {0}
    /\ MaxReceives \in Nat \ {0}

VARIABLES
    body,      \* what was sent: the id, request and form of each message
    queue,     \* where each message is
    receives,  \* how often it was received; the last number is its valid receipt
    inbox,     \* per message id the hash of its completed inbox row, or None
    wagers,    \* per external id the payload of its committed wager, or None
    executed,  \* history: committed executions of the use case per message id
    pc,        \* where each consumer is
    batch,     \* the messages it has still to handle, with their receipts
    replayed   \* whether its ProcessInTx found the wager stored

db   == <<inbox, wagers, executed>>
sqs  == <<body, queue, receives>>
vars == <<body, queue, receives, inbox, wagers, executed, pc, batch, replayed>>

Labels == {"idle", "find", "insert", "refind", "process", "commit", "delete"}

\* Every variable has its type; a consumer has a message while it is not idle.
TypeOK ==
    /\ body \in Bodies
    /\ queue \in [Messages -> {"ready", "hidden", "deleted", "dead"}]
    /\ receives \in [Messages -> 0 .. MaxReceives]
    /\ inbox \in [MessageIds -> Requests \cup {None}]
    /\ wagers \in [Exts -> Payloads \cup {None}]
    /\ executed \in [MessageIds -> Nat]
    /\ pc \in [Consumers -> Labels]
    /\ batch \in [Consumers -> Seq([msg : Messages, receipt : 1 .. MaxReceives])]
    /\ \A c \in Consumers : pc[c] = "idle" <=> batch[c] = << >>
    /\ replayed \in [Consumers -> BOOLEAN]

Init ==
    /\ body \in Bodies
    /\ queue = [m \in Messages |-> "ready"]
    /\ receives = [m \in Messages |-> 0]
    /\ inbox = [i \in MessageIds |-> None]
    /\ wagers = [e \in Exts |-> None]
    /\ executed = [i \in MessageIds |-> 0]
    /\ pc = [c \in Consumers |-> "idle"]
    /\ batch = [c \in Consumers |-> << >>]
    /\ replayed = [c \in Consumers |-> FALSE]

-----------------------------------------------------------------------------

Msg(c)     == Head(batch[c]).msg
Id(c)      == body[Msg(c)].id
Request(c) == body[Msg(c)].request

Goto(c, label) == pc' = [pc EXCEPT ![c] = label]

\* Fault: the rest of the batch is dropped and only the pc moves on.
DropBatch(c) ==
    /\ batch' = [batch EXCEPT ![c] = << >>]
    /\ Goto(c, IF Len(batch[c]) = 1 THEN "idle" ELSE "find")

\* c leaves its message as it is in the queue and takes the next of its batch.
NextMessage(c) ==
    /\ batch' = [batch EXCEPT ![c] = Tail(@)]
    /\ Goto(c, IF Len(batch[c]) = 1 THEN "idle" ELSE "find")

-----------------------------------------------------------------------------
(* The queue.                                                              *)

Receive(c) ==
    /\ pc[c] = "idle"
    /\ \E order \in UNION {[1 .. n -> Messages] : n \in 1 .. BatchSize} :
         /\ \A i, j \in DOMAIN order : order[i] = order[j] => i = j
         /\ \A m \in Range(order) : queue[m] = "ready" /\ receives[m] < MaxReceives
         /\ batch' = [batch EXCEPT ![c] = [i \in DOMAIN order |->
                        [msg |-> order[i], receipt |-> receives[order[i]] + 1]]]
         /\ receives' = [m \in Messages |->
                           receives[m] + IF m \in Range(order) THEN 1 ELSE 0]
         /\ queue' = [m \in Messages |->
                        IF m \in Range(order) THEN "hidden" ELSE queue[m]]
    /\ Goto(c, "find")
    /\ UNCHANGED <<body, db, replayed>>

\* A message that was not deleted is visible again when its time is over, also
\* while a consumer still works on it.
VisibilityEnds(m) ==
    /\ queue[m] = "hidden"
    /\ queue' = [queue EXCEPT ![m] = "ready"]
    /\ UNCHANGED <<body, receives, db, pc, batch, replayed>>

Redrive(m) ==
    /\ queue[m] = "ready"
    /\ receives[m] = MaxReceives
    /\ queue' = [queue EXCEPT ![m] = "dead"]
    /\ UNCHANGED <<body, receives, db, pc, batch, replayed>>

-----------------------------------------------------------------------------
(* handleMessage.                                                          *)

\* A message that cannot be read stays in the queue, without a retry delay.
RefuseMalformed(c) ==
    /\ pc[c] = "find"
    /\ body[Msg(c)].form = "malformed"
    /\ NextMessage(c)
    /\ UNCHANGED <<db, sqs, replayed>>

\* Fault: any row of the id counts as this message.
AnyDuplicate(c) == Goto(c, "delete") /\ UNCHANGED batch

\* An inbox row of the same payload is a duplicate, to be deleted; of another
\* payload it is a permanent error.
DuplicateOrMismatch(c) ==
    IF inbox[Id(c)] = Request(c) THEN Goto(c, "delete") /\ UNCHANGED batch
    ELSE NextMessage(c)

FindInbox(c) ==
    /\ pc[c] = "find"
    /\ body[Msg(c)].form # "malformed"
    /\ IF inbox[Id(c)] = None THEN Goto(c, "insert") /\ UNCHANGED batch
       ELSE DuplicateOrMismatch(c)
    /\ UNCHANGED <<db, sqs, replayed>>

\* The consumers with an uncommitted inbox row.
Inserting == {c \in Consumers : pc[c] \in {"process", "commit"}}

\* Fault: the result of the insert is ignored.
InsertInboxUnchecked(c) ==
    /\ pc[c] = "insert"
    /\ \A d \in Inserting \ {c} : Id(d) # Id(c)
    /\ Goto(c, "process")
    /\ UNCHANGED <<db, sqs, batch, replayed>>

\* INSERT ... ON CONFLICT DO NOTHING waits for an uncommitted row of the key.
InsertInbox(c) ==
    /\ pc[c] = "insert"
    /\ \A d \in Inserting \ {c} : Id(d) # Id(c)
    /\ Goto(c, IF inbox[Id(c)] = None THEN "process" ELSE "refind")
    /\ UNCHANGED <<db, sqs, batch, replayed>>

RefindInbox(c) ==
    /\ pc[c] = "refind"
    /\ DuplicateOrMismatch(c)
    /\ UNCHANGED <<db, sqs, replayed>>

\* A consumer other than those of S has stored the wager e and not committed.
Contended(S, e) ==
    \E d \in Consumers \ S : pc[d] = "commit" /\ ~replayed[d] /\ Request(d).ext = e

\* Fault: a stored wager of another payload counts as a replay.
ReplayAnything(c) ==
    LET stored == wagers[Request(c).ext] IN
    /\ pc[c] = "process"
    /\ IF body[Msg(c)].form = "refused"
       THEN NextMessage(c) /\ UNCHANGED replayed
       ELSE /\ stored = None => ~Contended({c}, Request(c).ext)
            /\ replayed' = [replayed EXCEPT ![c] = stored # None]
            /\ Goto(c, "commit")
            /\ UNCHANGED batch
    /\ UNCHANGED <<db, sqs>>

\* ProcessInTx: refused (permanent, the inbox row is rolled back), replayed or
\* applied.
ProcessInTx(c) ==
    LET stored == wagers[Request(c).ext] IN
    /\ pc[c] = "process"
    /\ IF body[Msg(c)].form = "refused" \/ stored \notin {None, Request(c).payload}
       THEN NextMessage(c) /\ UNCHANGED replayed
       ELSE /\ stored = None => ~Contended({c}, Request(c).ext)
            /\ replayed' = [replayed EXCEPT ![c] = stored # None]
            /\ Goto(c, "commit")
            /\ UNCHANGED batch
    /\ UNCHANGED <<db, sqs>>

\* The HTTP API stores a wager: the same use case, without an inbox.
ApiProcesses(e) ==
    /\ wagers[e] = None
    /\ ~Contended({}, e)
    /\ \E p \in Payloads : wagers' = [wagers EXCEPT ![e] = p]
    /\ UNCHANGED <<inbox, executed, sqs, pc, batch, replayed>>

\* The inbox row, COMPLETED, and the wager become visible together.
Publish(c) ==
    /\ inbox' = [inbox EXCEPT ![Id(c)] = Request(c)]
    /\ wagers' = [wagers EXCEPT ![Request(c).ext] = Request(c).payload]
    /\ executed' = [executed EXCEPT ![Id(c)] = @ + 1]
    /\ replayed' = [replayed EXCEPT ![c] = FALSE]

Commit(c) ==
    /\ pc[c] = "commit"
    /\ Publish(c)
    /\ Goto(c, "delete")
    /\ UNCHANGED <<sqs, batch>>

\* The commit succeeds and its confirmation is lost: a transient error.
CommitReplyLost(c) ==
    /\ pc[c] = "commit"
    /\ Publish(c)
    /\ NextMessage(c)
    /\ UNCHANGED sqs

-----------------------------------------------------------------------------
(* The end of a message, and failures.                                     *)

\* Delete with a receipt that is not the last one may or may not be accepted;
\* a failure is only logged.
DeleteMessage(c) ==
    /\ pc[c] = "delete"
    /\ \/ queue' = [queue EXCEPT ![Msg(c)] = IF @ = "dead" THEN @ ELSE "deleted"]
       \/ /\ Head(batch[c]).receipt # receives[Msg(c)] \/ queue[Msg(c)] # "hidden"
          /\ UNCHANGED queue
    /\ NextMessage(c)
    /\ UNCHANGED <<body, receives, db, replayed>>

DeleteFails(c) ==
    /\ pc[c] = "delete"
    /\ NextMessage(c)
    /\ UNCHANGED <<db, sqs, replayed>>

\* Fault: the message goes although its transaction was rolled back.
TransientDeletes(c) ==
    /\ pc[c] \in {"find", "insert", "refind", "process", "commit"}
    /\ replayed' = [replayed EXCEPT ![c] = FALSE]
    /\ Goto(c, "delete")
    /\ UNCHANGED <<db, sqs, batch>>

\* A transient error: the transaction is rolled back and retryMessage sets a
\* new visibility timeout, which leaves the message hidden for some time.
Transient(c) ==
    /\ pc[c] \in {"find", "insert", "refind", "process", "commit"}
    /\ body[Msg(c)].form # "malformed"
    /\ replayed' = [replayed EXCEPT ![c] = FALSE]
    /\ NextMessage(c)
    /\ UNCHANGED <<db, sqs>>

\* The process dies: its messages become visible again, its transaction is gone.
Crash(c) ==
    /\ pc[c] # "idle"
    /\ batch' = [batch EXCEPT ![c] = << >>]
    /\ replayed' = [replayed EXCEPT ![c] = FALSE]
    /\ Goto(c, "idle")
    /\ UNCHANGED <<db, sqs>>

-----------------------------------------------------------------------------

Handle(c) ==
    \/ RefuseMalformed(c) \/ FindInbox(c) \/ InsertInbox(c) \/ RefindInbox(c)
    \/ ProcessInTx(c) \/ Commit(c) \/ DeleteMessage(c)

Fail(c) == CommitReplyLost(c) \/ DeleteFails(c) \/ Transient(c) \/ Crash(c)

Next ==
    \/ \E c \in Consumers : Receive(c) \/ Handle(c) \/ Fail(c)
    \/ \E m \in Messages : VisibilityEnds(m) \/ Redrive(m)
    \/ \E e \in Exts : ApiProcesses(e)

Spec == Init /\ [][Next]_vars

-----------------------------------------------------------------------------
(* Properties.                                                             *)

\* A message leaves the queue for good only after the transaction that
\* completed its inbox row has committed, with the payload of this message.
DeletedWasHandled ==
    \A m \in Messages : queue[m] = "deleted" => inbox[body[m].id] = body[m].request

\* "Repeated delivery: no Application/Domain execution": whatever is redelivered,
\* to whomever, the use case is executed for a message id in at most one
\* committed transaction, the one that completes its inbox row.
ExecutedOnce ==
    \A i \in MessageIds : executed[i] = IF inbox[i] = None THEN 0 ELSE 1

\* A completed inbox row stands for a committed wager of its payload, and no
\* other message or API request with another payload ever replaces that wager.
InboxMatchesWagers ==
    \A i \in MessageIds : inbox[i] # None => wagers[inbox[i].ext] = inbox[i].payload
=============================================================================
