---------------------------- MODULE WagerEntity ----------------------------
(***************************************************************************)
(* One wagering transaction as the domain entity and as its row: what the  *)
(* entity's methods refuse, what the schema refuses, and what is lost and  *)
(* rewritten between the two.  The other models take for granted that an   *)
(* outcome the code decides can be stored, and a stored row be loaded.     *)
(*                                                                         *)
(* Of identifiers the model keeps whether the required ones are all given, *)
(* the reference, and how the wallet's UUID is spelled: the database reads *)
(* every spelling of it and answers one.                                   *)
(***************************************************************************)
EXTENDS Integers

CONSTANTS
    None,
    MaxMinor   \* bound: largest amount and balance

ASSUME WagerEntityAssumption == MaxMinor \in Nat

VARIABLES
    request,  \* the request, None before one is made
    entity,   \* the transaction in the process's memory, None when it has none
    row,      \* the committed row, None when there is none
    work,     \* the row as the database transaction sees it
    pc,       \* the step of the process
    client,   \* whether a client's request or a worker is at work
    error,    \* why the last attempt ended without a commit
    judged    \* history: what the reference was when the outcome was decided

memory  == <<entity, work, client>>
vars    == <<request, memory, row, pc, error, judged>>

ExternalKinds == {"BET", "WIN", "LOSS", "REFUND", "ROLLBACK"}
Reversals     == {"REFUND", "ROLLBACK"}
Kinds         == ExternalKinds \cup {"OPENING"}
Statuses      == {"PENDING", "PENDING_REFERENCE", "PROCESSED", "REJECTED", "FAILED"}
Final         == {"PROCESSED", "REJECTED", "FAILED"}
Codes         == {"REFERENCE_PENDING", "WALLET_MISMATCH", "REFERENCE_MISMATCH",
                  "REFERENCE_NOT_PROCESSED", "DUPLICATE_REVERSAL", "INVALID_OPERATION",
                  "INSUFFICIENT_BALANCE", "REVERSAL_INSUFFICIENT_BALANCE",
                  "REFERENCE_NOT_FOUND"}
References    == {"missing", "unprocessed", "matching", "other", "wrong kind", "reversed"}
Balances      == 0 .. MaxMinor

Spellings == {"canonical", "other", "malformed"}

Requests ==
    [complete : BOOLEAN, wallet : Spellings, kind : Kinds \cup {"UNKNOWN"}, amount : Balances,
     currency : {"BRL", "USD"}, refExt : {None, "blank", "given"}]

Transactions ==
    [external : BOOLEAN, wallet : Spellings \ {"malformed"}, kind : Kinds, amount : Balances,
     currency : {"BRL", "USD"}, refExt : {None, "blank", "given"}, refId : {None, "reference"},
     status : Statuses, balance : Balances \cup {None}, code : Codes \cup {None}]

\* An absent value is none of the values.
ASSUME NoneAssumption ==
    /\ None \notin Requests /\ None \notin Transactions /\ None \notin Balances
    /\ None \notin Codes /\ None \notin {"blank", "given", "reference"}

\* Every variable has its type; who is in a transaction has what its step needs.
TypeOK ==
    /\ request \in Requests \cup {None}
    /\ {entity, row, work} \subseteq Transactions \cup {None}
    /\ pc \in {"idle", "insert", "settle", "save", "commit"}
    /\ client \in BOOLEAN
    /\ error \in {"none", "invalid", "entity", "schema", "abort"}
    /\ judged \in References \cup {None}
    /\ pc # "idle" => entity # None
    /\ pc \in {"settle", "save", "commit"} => work # None
    /\ pc = "idle" => work = row

-----------------------------------------------------------------------------
(* The entity.                                                             *)

AmountFits(kind, amount) == (kind = "LOSS") <=> (amount = 0)

\* Fault: what is true of a new transaction is asked of a stored one.
BuildableNew(t) ==
    /\ t.external
    /\ AmountFits(t.kind, t.amount)
    /\ t.kind \in Reversals => t.refExt # None
    /\ t.code = None

\* What build accepts, of new and of stored transactions.
Buildable(t) ==
    IF t.kind = "OPENING"
    THEN /\ ~t.external /\ t.refExt = None /\ t.refId = None /\ t.code = None
         /\ t.amount > 0 /\ t.status = "PROCESSED" /\ t.balance = t.amount
    ELSE /\ t.external
         /\ AmountFits(t.kind, t.amount)
         /\ t.kind \in Reversals => t.refExt # None
         /\ t.refExt # None => t.kind \in {"WIN", "REFUND", "ROLLBACK"}

IsOpen(t) == t.status \in {"PENDING", "PENDING_REFERENCE"}

CanBeProcessed(t) == IsOpen(t) /\ (t.kind \in Reversals => t.refId # None)
CanWait(t) == IsOpen(t) /\ t.kind \in Reversals

\* Fault: the code of the wait is left in a processed transaction.
MarkProcessedOnly(t, b) == [t EXCEPT !.status = "PROCESSED", !.balance = b]

ResolveReference(t) == [t EXCEPT !.refId = "reference"]
MarkProcessed(t, b) == [t EXCEPT !.status = "PROCESSED", !.balance = b, !.code = None]
MarkPendingReference(t, b) ==
    [t EXCEPT !.status = "PENDING_REFERENCE", !.balance = b, !.code = "REFERENCE_PENDING"]
Reject(t, code, b) == [t EXCEPT !.status = "REJECTED", !.balance = b, !.code = code]

-----------------------------------------------------------------------------
(* The row.                                                                *)

\* The CHECKs on one row of wager_transactions.
SchemaAccepts(t) ==
    /\ t.currency = "BRL"
    /\ AmountFits(t.kind, t.amount)
    /\ t.external <=> t.kind # "OPENING"
    /\ t.kind = "OPENING" => t.refExt = None /\ t.refId = None /\ t.code = None
    /\ t.kind \in Reversals => t.refExt # None
    /\ t.refExt # None => t.refExt # "blank" /\ t.kind \in {"WIN", "REFUND", "ROLLBACK"}
    /\ t.kind \in Reversals /\ t.status = "PROCESSED" => t.refId # None

\* The trigger on changes of the status.
MayBecome(old, new) ==
    \/ old = new
    \/ old = "PENDING"
    \/ old = "PENDING_REFERENCE" /\ new \in Final

\* Fault: the wallet id is a text column, kept as it was sent.
StoredAsSent(t) == t

\* What the row keeps of an entity: the wallet id becomes a UUID.
Stored(t) == [t EXCEPT !.wallet = "canonical"]

-----------------------------------------------------------------------------
(* The steps of the process.                                               *)

Init ==
    /\ request = None /\ entity = None /\ row = None /\ work = None
    /\ pc = "idle" /\ client = FALSE /\ error = "none" /\ judged = None

\* Fault: what the transaction wrote survives its failure.
EndWithoutRollback(why) ==
    /\ pc' = "idle" /\ error' = why
    /\ entity' = None
    /\ UNCHANGED <<request, row, work, client, judged>>

\* The transaction is rolled back and the process forgets it.
End(why) ==
    /\ pc' = "idle" /\ error' = why
    /\ entity' = None /\ work' = row
    /\ UNCHANGED <<request, row, client, judged>>

\* Fault: only the presence of a reference is required, an empty one passes.
PreparableAtAll(r) ==
    /\ r.complete /\ r.wallet # "malformed"
    /\ r.kind \in ExternalKinds
    /\ AmountFits(r.kind, r.amount)
    /\ r.kind \in Reversals => r.refExt # None

\* prepareRequest; a text that is not an amount of a currency counts as incomplete.
Preparable(r) ==
    /\ r.complete /\ r.wallet # "malformed"
    /\ r.kind \in ExternalKinds
    /\ AmountFits(r.kind, r.amount)
    /\ r.kind \in Reversals => r.refExt = "given"
    /\ r.refExt # None => r.refExt # "blank" /\ r.kind \in {"WIN", "REFUND", "ROLLBACK"}

Transaction(r) ==
    [external |-> TRUE, wallet |-> r.wallet, kind |-> r.kind, amount |-> r.amount,
     currency |-> r.currency, refExt |-> r.refExt, refId |-> None,
     status |-> "PENDING", balance |-> None, code |-> None]

\* A request and its repetitions, as long as no row answers them.
Prepare ==
    /\ pc = "idle" /\ row = None
    /\ \E r \in IF request = None THEN Requests ELSE {request} :
        /\ request' = r
        /\ IF Preparable(r) /\ Buildable(Transaction(r))
           THEN /\ entity' = Transaction(r)
                /\ pc' = "insert" /\ error' = "none"
           ELSE pc' = "idle" /\ error' = "invalid" /\ UNCHANGED entity
    /\ client' = TRUE
    /\ UNCHANGED <<row, work, judged>>

\* The opening of a wallet is written processed and never settled.
NewOpening ==
    /\ pc = "idle" /\ row = None /\ request = None
    /\ \E b \in Balances \ {0} :
        LET opening == [Transaction([wallet |-> "canonical", kind |-> "OPENING", amount |-> b,
                                     currency |-> "BRL", refExt |-> None])
                        EXCEPT !.external = FALSE, !.status = "PROCESSED", !.balance = b]
        IN /\ Buildable(opening)
           /\ entity' = opening
    /\ pc' = "insert" /\ error' = "none" /\ client' = FALSE
    /\ UNCHANGED <<request, row, work, judged>>

InsertWager ==
    /\ pc = "insert"
    /\ IF SchemaAccepts(entity)
       THEN /\ work' = Stored(entity)
            /\ pc' = IF entity.kind = "OPENING" THEN "commit" ELSE "settle"
            /\ UNCHANGED <<request, entity, client, row, error, judged>>
       ELSE End("schema")

\* A worker claims the waiting row and rehydrates it.
Load ==
    /\ pc = "idle" /\ row # None /\ row.status = "PENDING_REFERENCE"
    /\ client' = FALSE
    /\ IF Buildable(row)
       THEN entity' = row /\ pc' = "settle" /\ error' = "none"
       ELSE UNCHANGED <<entity, pc>> /\ error' = "entity"
    /\ UNCHANGED <<request, row, work, judged>>

-----------------------------------------------------------------------------
(* Settling.                                                               *)

\* A method of the entity decides; it may refuse, and the attempt ends.
Become(allowed, outcome) ==
    IF allowed
    THEN /\ entity' = outcome
         /\ pc' = "save"
         /\ UNCHANGED <<request, work, row, client, error>>
    ELSE /\ pc' = "idle" /\ error' = "entity"
         /\ entity' = None /\ work' = row
         /\ UNCHANGED <<request, row, client>>

NeedsReference(t) == t.kind \in Reversals \/ (t.kind = "WIN" /\ t.refExt # None)

\* The reference comes from the database, the transaction perhaps from a request.
Matches(t, reference) ==
    reference \in {"matching", "wrong kind", "reversed"} /\ t.wallet = "canonical"

\* Why resolveReference fails, None when it does not; the checks in their order.
Failure(t, reference) ==
    CASE reference = "missing"      -> "REFERENCE_PENDING"
      [] reference = "unprocessed"  -> "REFERENCE_NOT_PROCESSED"
      [] ~Matches(t, reference)     -> "REFERENCE_MISMATCH"
      [] reference = "wrong kind"   -> "INVALID_OPERATION"
      [] reference = "reversed"     -> "DUPLICATE_REVERSAL"
      [] OTHER                      -> None

RefusalCode(t) ==
    IF t.kind \in Reversals THEN "REVERSAL_INSUFFICIENT_BALANCE" ELSE "INSUFFICIENT_BALANCE"

\* applyWithPendingEvent: the wallet's owner, then the reference, then the money,
\* of which the model keeps whether the balance allows the movement.
Settle ==
    /\ pc = "settle"
    /\ \E owner, allowed \in BOOLEAN, b \in Balances,
          reference \in IF NeedsReference(entity) THEN References ELSE {"missing"} :
        LET failure  == Failure(entity, reference)
            resolved == IF NeedsReference(entity) THEN ResolveReference(entity) ELSE entity
        IN /\ judged' = IF owner /\ NeedsReference(entity) THEN reference ELSE None
           /\ CASE ~owner ->
                     Become(IsOpen(entity), Reject(entity, "WALLET_MISMATCH", b))
                [] owner /\ NeedsReference(entity) /\ failure # None ->
                     IF failure = "REFERENCE_PENDING" /\ entity.kind \in Reversals
                     THEN Become(CanWait(entity), MarkPendingReference(entity, b))
                     ELSE Become(IsOpen(entity), Reject(entity, failure, b))
                [] OTHER ->
                     IF allowed \/ entity.kind = "LOSS"
                     THEN Become(CanBeProcessed(resolved), MarkProcessed(resolved, b))
                     ELSE Become(IsOpen(resolved), Reject(resolved, RefusalCode(entity), b))

\* UpdateWager, under the CHECKs and the trigger.
Save ==
    /\ pc = "save"
    /\ IF SchemaAccepts(entity) /\ MayBecome(work.status, entity.status)
       THEN /\ work' = [work EXCEPT !.refId = entity.refId, !.status = entity.status,
                                    !.balance = entity.balance, !.code = entity.code]
            /\ pc' = "commit"
            /\ UNCHANGED <<request, entity, client, row, error, judged>>
       ELSE End("schema")

\* A worker that gives up rejects the record it has claimed, not what it just saved.
RejectPendingReference ==
    /\ pc = "commit" /\ ~client /\ work.status = "PENDING_REFERENCE"
    /\ \E b \in Balances : Become(IsOpen(row), Reject(row, "REFERENCE_NOT_FOUND", b))
    /\ UNCHANGED judged

Commit ==
    /\ pc = "commit"
    /\ row' = work
    /\ pc' = "idle" /\ entity' = None
    /\ UNCHANGED <<request, work, client, error, judged>>

\* The connection, the process or another statement fails.
Abort == pc # "idle" /\ End("abort")

Next ==
    \/ Prepare \/ NewOpening \/ InsertWager \/ Load
    \/ Settle \/ Save \/ RejectPendingReference \/ Commit \/ Abort

Spec == Init /\ [][Next]_vars

-----------------------------------------------------------------------------
(* Properties.                                                             *)

\* Whatever ends up in the table can be rehydrated and settled again: a worker's
\* batch never holds a row that fails each time (the whole batch is rolled back
\* and claimed again when one of its rows fails).
NoPoisonedRow ==
    /\ error # "entity"
    /\ row # None => Buildable(row)
    /\ row # None /\ row.status = "PENDING_REFERENCE" => CanWait(row) /\ row.refId = None

\* A row says one thing: an outcome has a balance, a code says why it is not
\* processed, a processed reversal names what it undid, and no row that a client
\* can see is still PENDING or FAILED.
OutcomesAreWhole ==
    row # None =>
        /\ row.status \in {"PROCESSED", "REJECTED", "PENDING_REFERENCE"}
        /\ row.balance # None
        /\ row.status = "PROCESSED" <=> row.code = None
        /\ row.status = "PENDING_REFERENCE" => row.code = "REFERENCE_PENDING"
        /\ row.status = "PROCESSED" /\ row.kind \in Reversals => row.refId # None

\* The table holds rows that say one thing and can be worked on again.
RowsSound == TypeOK /\ NoPoisonedRow /\ OutcomesAreWhole

\* The schema agrees with the validation in front of it, with one exception: a
\* request in another currency than BRL passes as valid and fails at its insert,
\* each time it is tried.  No outcome the code decides is refused at its update.
OnlyCurrencyIsRefused ==
    error = "schema" => request # None /\ request.currency # "BRL" /\ row = None

\* A reference that does match is called a mismatch for one reason: the request
\* spells the wallet's UUID in another way than the database, and the reference was
\* there at once.  A reversal that waited is compared as the database spells it.
MismatchExplained ==
    row # None /\ row.code = "REFERENCE_MISMATCH" /\ judged = "matching" =>
        /\ request.wallet = "other"
        /\ client
=============================================================================
