---------------------------- MODULE DomainProofs ----------------------------
(***************************************************************************)
(* Theorems about the domain: the wager as an entity and as a row, and     *)
(* amounts.                                                                *)
(*                                                                         *)
(* The entity.  The inductive invariant follows a transaction through the  *)
(* process: what stays true of it whatever becomes of it (Lasting), what   *)
(* it is before it is decided (Fresh) and after (Complete), and how the    *)
(* row the database transaction sees goes with the entity at each step.    *)
(*                                                                         *)
(* Amounts.  Number and NumberText are recursive functions: each is shown  *)
(* to exist, and what it computes to have a property, by the least         *)
(* argument at which it would not.  From them follow what a text denotes,  *)
(* what Parse makes of it, and that what String writes is read as the same *)
(* amount.                                                                 *)
(*                                                                         *)
(* MCDomain's behaviours are behaviours of both parts (DomainIsBoth), so   *)
(* all that is proved of a part holds of them.                             *)
(***************************************************************************)
EXTENDS MCDomain, SequenceTheorems, FiniteSetTheorems, WellFoundedInduction, TLAPS

\* What the run checks is a transaction and a call, each under its own specification.
LEMMA DomainIsBoth == DomainSpec => Spec /\ CallSpec
<1>1. DomainInit => Init /\ Calling
  BY DEF DomainInit
<1>2. [DomainNext]_<<vars, callVars>> => [Next]_vars /\ [Call]_callVars
  BY DEF DomainNext
<1>3. QED
  BY <1>1, <1>2, PTL DEF DomainSpec, Spec, CallSpec

-----------------------------------------------------------------------------
(* The entity and its row.                                                 *)

\* What stays true of a transaction whatever becomes of it.
Lasting(t) ==
    /\ t.external <=> t.kind # "OPENING"
    /\ AmountFits(t.kind, t.amount)
    /\ t.kind = "OPENING" => t.refExt = None
    /\ t.kind \in Reversals => t.refExt # None
    /\ t.refExt # None => t.refExt # "blank" /\ t.kind \in {"WIN", "REFUND", "ROLLBACK"}

\* A transaction as it is made of a request.
Fresh(t) ==
    /\ Lasting(t) /\ t.external /\ t.status = "PENDING" /\ t.refId = None /\ t.code = None
    /\ request # None /\ t.wallet = request.wallet /\ t.currency = request.currency
    /\ client /\ row = None

\* A transaction that is decided, or waits.
Complete(t) ==
    /\ Lasting(t) /\ t.balance # None
    /\ t.status \in {"PROCESSED", "REJECTED", "PENDING_REFERENCE"}
    /\ t.status = "PROCESSED" <=> t.code = None
    /\ t.status = "PENDING_REFERENCE" =>
         t.kind \in Reversals /\ t.refId = None /\ t.code = "REFERENCE_PENDING"
    /\ t.status = "PROCESSED" /\ t.kind \in Reversals => t.refId # None
    /\ t.kind = "OPENING" =>
         /\ t.refId = None /\ t.code = None
         /\ t.amount > 0 /\ t.status = "PROCESSED" /\ t.balance = t.amount

\* A mismatch of a reference that matches has its reason.
Explained(t) ==
    t.code = "REFERENCE_MISMATCH" /\ judged = "matching" => request.wallet = "other" /\ client

\* A transaction as the table has it.
RowRight(t) == Complete(t) /\ t.currency = "BRL" /\ t.wallet = "canonical" /\ Explained(t)

\* The row of the transaction that is settled: none yet, or it waits.
Claimed == IF client THEN row = None ELSE row # None /\ row.status = "PENDING_REFERENCE"

\* The columns no update touches.
Same(t, u) ==
    /\ t.external = u.external /\ t.kind = u.kind /\ t.amount = u.amount
    /\ t.currency = u.currency /\ t.refExt = u.refExt

\* What the process has in its hands.
Inserting ==
    /\ row = None
    /\ \/ Fresh(entity)
       \/ ~client /\ Complete(entity) /\ entity.kind = "OPENING" /\ entity.currency = "BRL"

Settling ==
    /\ Claimed
    /\ work.currency = "BRL"
    /\ IF client THEN Fresh(entity) /\ work = Stored(entity)
                 ELSE work = row /\ entity = row

Saving ==
    /\ Claimed
    /\ Complete(entity) /\ entity.kind # "OPENING" /\ entity.currency = "BRL" /\ Explained(entity)
    /\ work.wallet = "canonical" /\ Same(work, entity) /\ (row # None => Same(work, row))
    /\ work.status = IF client THEN "PENDING" ELSE "PENDING_REFERENCE"

Committing ==
    /\ Claimed \/ (row = None /\ ~client /\ work.kind = "OPENING")
    /\ RowRight(work) /\ (row # None => Same(work, row))

AtWork ==
    /\ pc # "idle" => error = "none"
    /\ pc = "insert" => Inserting
    /\ pc = "settle" => Settling
    /\ pc = "save" => Saving
    /\ pc = "commit" => Committing

EntityInv ==
    /\ TypeOK
    /\ error # "entity"
    /\ row # None => RowRight(row)
    /\ AtWork
    /\ OnlyCurrencyIsRefused

-----------------------------------------------------------------------------
(* Each step keeps the invariant.                                          *)

LEMMA InitEntity == Init => EntityInv
BY DEF Init, EntityInv, TypeOK, AtWork, OnlyCurrencyIsRefused

\* A transaction has its parts.
LEMMA Parts ==
    ASSUME NEW t \in Transactions
    PROVE  /\ t.external \in BOOLEAN /\ t.wallet \in {"canonical", "other"} /\ t.kind \in Kinds
           /\ t.amount \in Nat /\ t.currency \in {"BRL", "USD"}
           /\ t.refExt \in {None, "blank", "given"} /\ t.refId \in {None, "reference"}
           /\ t.status \in Statuses /\ t.balance \in Balances \cup {None}
           /\ t.code \in Codes \cup {None}
BY WagerEntityAssumption DEF Transactions, Balances, Spellings

LEMMA ProcessedParts ==
    ASSUME NEW t \in Transactions, NEW b \in Balances
    PROVE  LET u == MarkProcessed(t, b) IN
           /\ u \in Transactions /\ Same(u, t) /\ u.wallet = t.wallet
           /\ u.status = "PROCESSED" /\ u.balance = b /\ u.code = None /\ u.refId = t.refId
<1>1. MarkProcessed(t, b) \in Transactions
  BY DEF MarkProcessed, Transactions, Statuses
<1>2. QED
  BY <1>1 DEF MarkProcessed, Transactions, Same

\* Whatever is complete can be rehydrated, and a wait goes on.
LEMMA CompleteBuilds ==
    ASSUME NEW t \in Transactions, Complete(t)
    PROVE  /\ Buildable(t)
           /\ t.status = "PENDING_REFERENCE" => CanWait(t) /\ t.refId = None
BY Parts, NoneAssumption DEF Complete, Lasting, Buildable, CanWait, IsOpen, AmountFits, Reversals

LEMMA CompleteIsStored ==
    ASSUME NEW t \in Transactions, Complete(t), t.currency = "BRL"
    PROVE  SchemaAccepts(t)
BY Parts, NoneAssumption DEF Complete, Lasting, SchemaAccepts, Reversals

LEMMA FreshIsStored ==
    ASSUME NEW t \in Transactions, Fresh(t), t.currency = "BRL"
    PROVE  SchemaAccepts(t)
BY Parts, NoneAssumption DEF Fresh, Lasting, SchemaAccepts, Reversals

LEMMA PrepareStep ==
    ASSUME EntityInv, Prepare
    PROVE  EntityInv'
<1>1. PICK r \in IF request = None THEN Requests ELSE {request} :
        /\ request' = r
        /\ IF Preparable(r) /\ Buildable(Transaction(r))
           THEN /\ entity' = Transaction(r)
                /\ pc' = "insert" /\ error' = "none"
           ELSE pc' = "idle" /\ error' = "invalid" /\ UNCHANGED entity
  BY DEF Prepare
<1>2. r \in Requests /\ row = None /\ row' = None /\ work' = None /\ client' = TRUE /\ judged' = judged
  BY <1>1 DEF Prepare, EntityInv, TypeOK
<1>3. TypeOK
  BY DEF EntityInv
<1>4. CASE Preparable(r) /\ Buildable(Transaction(r))
  <2>1. Transaction(r) \in Transactions
    BY <1>2, <1>4 DEF Preparable, Requests, Transactions, Transaction, Spellings, Kinds, ExternalKinds,
       Statuses
  <2>2. TypeOK'
    BY <1>1, <1>2, <1>3, <1>4, <2>1, NoneAssumption DEF TypeOK
  <2>3. Inserting'
    BY <1>1, <1>2, <1>4, NoneAssumption DEF Inserting, Fresh, Lasting, Preparable, Transaction,
       ExternalKinds
  <2>4. QED
    BY <1>1, <1>2, <1>4, <2>2, <2>3 DEF EntityInv, AtWork, OnlyCurrencyIsRefused
<1>5. CASE ~ (Preparable(r) /\ Buildable(Transaction(r)))
  <2>1. TypeOK'
    BY <1>1, <1>2, <1>3, <1>5, NoneAssumption DEF TypeOK
  <2>2. QED
    BY <1>1, <1>2, <1>5, <2>1 DEF EntityInv, AtWork, OnlyCurrencyIsRefused
<1>6. QED
  BY <1>4, <1>5


LEMMA NewOpeningStep ==
    ASSUME EntityInv, NewOpening
    PROVE  EntityInv'
<1>1. PICK b \in Balances \ {0} :
        LET opening == [Transaction([wallet |-> "canonical", kind |-> "OPENING", amount |-> b,
                                     currency |-> "BRL", refExt |-> None])
                        EXCEPT !.external = FALSE, !.status = "PROCESSED", !.balance = b]
        IN entity' = opening
  BY DEF NewOpening
<1>2. /\ entity'.external = FALSE /\ entity'.wallet = "canonical" /\ entity'.kind = "OPENING"
      /\ entity'.amount = b /\ entity'.currency = "BRL" /\ entity'.refExt = None
      /\ entity'.refId = None /\ entity'.status = "PROCESSED" /\ entity'.balance = b
      /\ entity'.code = None /\ entity' \in Transactions
  BY <1>1 DEF Transaction, Transactions, Spellings, Kinds, Statuses
<1>3. TypeOK'
  BY <1>2, NoneAssumption DEF NewOpening, EntityInv, TypeOK
<1>4. Inserting'
  BY <1>2, NoneAssumption, WagerEntityAssumption
     DEF NewOpening, Inserting, Complete, Lasting, AmountFits, Reversals, Balances
<1>5. QED
  BY <1>3, <1>4 DEF NewOpening, EntityInv, AtWork, OnlyCurrencyIsRefused

\* A transaction that fails leaves the row as it is.
LEMMA EndStep ==
    ASSUME EntityInv, NEW why \in {"schema", "abort"}, End(why),
           why = "schema" => request # None /\ request.currency # "BRL" /\ row = None
    PROVE  EntityInv'
<1>1. TypeOK'
  BY DEF EntityInv, TypeOK, End
<1>2. row # None => RowRight(row)'
  BY DEF EntityInv, End, RowRight, Explained, Complete
<1>3. QED
  BY <1>1, <1>2 DEF EntityInv, End, AtWork, OnlyCurrencyIsRefused

LEMMA InsertStep ==
    ASSUME EntityInv, InsertWager
    PROVE  EntityInv'
<1>1. /\ TypeOK /\ pc = "insert" /\ entity \in Transactions /\ Inserting /\ error = "none"
      /\ row = None
  BY DEF EntityInv, AtWork, InsertWager, TypeOK, Inserting
<1>2. CASE SchemaAccepts(entity)
  <2>1. /\ work' = Stored(entity) /\ pc' = IF entity.kind = "OPENING" THEN "commit" ELSE "settle"
        /\ UNCHANGED <<request, entity, client, row, error, judged>>
    BY <1>2 DEF InsertWager
  <2>2. /\ work' \in Transactions /\ work'.wallet = "canonical"
        /\ work'.external = entity.external /\ work'.kind = entity.kind
        /\ work'.amount = entity.amount /\ work'.currency = entity.currency
        /\ work'.refExt = entity.refExt /\ work'.refId = entity.refId
        /\ work'.status = entity.status /\ work'.balance = entity.balance
        /\ work'.code = entity.code
    BY <1>1, <2>1 DEF Stored, Transactions, Spellings
  <2>3. entity.currency = "BRL"
    BY <1>2 DEF SchemaAccepts
  <2>4. TypeOK'
    BY <1>1, <2>1, <2>2, NoneAssumption DEF TypeOK
  <2>5. CASE entity.kind = "OPENING"
    <3>1. ~client /\ Complete(entity)
      BY <1>1, <2>5 DEF Inserting, Fresh, Lasting
    <3>2. RowRight(work)'
      BY <2>1, <2>2, <2>3, <2>5, <3>1, NoneAssumption DEF RowRight, Complete, Lasting, Explained, Codes
    <3>3. Committing'
      BY <1>1, <2>1, <2>2, <2>5, <3>1, <3>2 DEF Committing
    <3>4. QED
      BY <1>1, <2>1, <2>4, <2>5, <3>3 DEF EntityInv, AtWork, OnlyCurrencyIsRefused
  <2>6. CASE entity.kind # "OPENING"
    <3>1. Fresh(entity)
      BY <1>1, <2>6 DEF Inserting
    <3>2. Settling'
      BY <1>1, <2>1, <2>2, <2>3, <3>1 DEF Settling, Claimed, Fresh, Lasting, Stored
    <3>3. QED
      BY <1>1, <2>1, <2>4, <2>6, <3>2 DEF EntityInv, AtWork, OnlyCurrencyIsRefused
  <2>7. QED
    BY <2>5, <2>6
<1>3. CASE ~SchemaAccepts(entity)
  <2>1. entity.currency # "BRL"
    BY <1>1, <1>3, CompleteIsStored, FreshIsStored DEF Inserting
  <2>2. request # None /\ request.currency # "BRL"
    BY <1>1, <2>1 DEF Inserting, Fresh
  <2>3. QED
    BY <1>1, <1>3, <2>2, EndStep DEF InsertWager
<1>4. QED
  BY <1>2, <1>3

LEMMA LoadStep ==
    ASSUME EntityInv, Load
    PROVE  EntityInv'
<1>1. /\ TypeOK /\ pc = "idle" /\ row \in Transactions /\ row.status = "PENDING_REFERENCE"
      /\ work = row /\ RowRight(row)
  BY DEF EntityInv, Load, TypeOK
<1>2. Buildable(row)
  BY <1>1, CompleteBuilds DEF RowRight
<1>3. /\ client' = FALSE /\ entity' = row /\ pc' = "settle" /\ error' = "none"
      /\ UNCHANGED <<request, row, work, judged>>
  BY <1>2 DEF Load
<1>4. TypeOK'
  BY <1>1, <1>3, NoneAssumption DEF TypeOK
<1>5. RowRight(row)'
  BY <1>1, <1>3 DEF RowRight, Complete, Explained
<1>6. Settling'
  BY <1>1, <1>3, NoneAssumption DEF Settling, Claimed, RowRight
<1>7. QED
  BY <1>3, <1>4, <1>5, <1>6 DEF EntityInv, AtWork, OnlyCurrencyIsRefused

LEMMA CommitStep ==
    ASSUME EntityInv, Commit
    PROVE  EntityInv'
<1>1. TypeOK /\ pc = "commit" /\ work \in Transactions /\ RowRight(work) /\ error = "none"
  BY DEF EntityInv, Commit, TypeOK, AtWork, Committing
<1>2. /\ row' = work /\ pc' = "idle" /\ entity' = None
      /\ UNCHANGED <<request, work, client, error, judged>>
  BY DEF Commit
<1>3. TypeOK'
  BY <1>1, <1>2 DEF TypeOK
<1>4. RowRight(row)'
  BY <1>1, <1>2 DEF RowRight, Complete, Explained
<1>5. QED
  BY <1>1, <1>2, <1>3, <1>4 DEF EntityInv, AtWork, OnlyCurrencyIsRefused

LEMMA AbortStep ==
    ASSUME EntityInv, Abort
    PROVE  EntityInv'
BY EndStep DEF Abort

LEMMA SaveStep ==
    ASSUME EntityInv, Save
    PROVE  EntityInv'
<1>1. /\ TypeOK /\ pc = "save" /\ entity \in Transactions /\ work \in Transactions /\ Saving
      /\ error = "none" /\ (row # None => RowRight(row))
  BY DEF EntityInv, AtWork, Save, TypeOK
<1>2. SchemaAccepts(entity)
  BY <1>1, CompleteIsStored DEF Saving
<1>3. MayBecome(work.status, entity.status)
  BY <1>1 DEF Saving, Complete, MayBecome, Final
<1>4. /\ work' = [work EXCEPT !.refId = entity.refId, !.status = entity.status,
                              !.balance = entity.balance, !.code = entity.code]
      /\ pc' = "commit" /\ UNCHANGED <<request, entity, client, row, error, judged>>
  BY <1>2, <1>3 DEF Save
<1>5. /\ work' \in Transactions /\ work'.wallet = "canonical" /\ work'.currency = "BRL"
      /\ work'.external = entity.external /\ work'.kind = entity.kind
      /\ work'.amount = entity.amount /\ work'.refExt = entity.refExt
      /\ work'.refId = entity.refId /\ work'.status = entity.status
      /\ work'.balance = entity.balance /\ work'.code = entity.code
  BY <1>1, <1>4 DEF Saving, Same, Transactions
<1>6. TypeOK'
  BY <1>1, <1>4, <1>5, NoneAssumption DEF TypeOK
<1>7. RowRight(work)'
  BY <1>1, <1>4, <1>5 DEF Saving, RowRight, Complete, Lasting, Explained
<1>8. Committing'
  BY <1>1, <1>4, <1>5, <1>7 DEF Saving, Committing, Claimed, Same
<1>9. row # None => RowRight(row)'
  BY <1>1, <1>4 DEF RowRight, Complete, Explained
<1>10. QED
  BY <1>1, <1>4, <1>6, <1>8, <1>9 DEF EntityInv, AtWork, OnlyCurrencyIsRefused

LEMMA RejectPendingStep ==
    ASSUME EntityInv, RejectPendingReference
    PROVE  EntityInv'
<1>1. PICK b \in Balances : Become(IsOpen(row), Reject(row, "REFERENCE_NOT_FOUND", b))
  BY DEF RejectPendingReference
<1>2. /\ TypeOK /\ pc = "commit" /\ ~client /\ work \in Transactions /\ Committing
      /\ work.status = "PENDING_REFERENCE" /\ error = "none" /\ (row # None => RowRight(row))
      /\ judged' = judged
  BY DEF EntityInv, AtWork, RejectPendingReference, TypeOK
<1>3. row \in Transactions /\ row.status = "PENDING_REFERENCE" /\ RowRight(row) /\ row # None
  BY <1>2, NoneAssumption DEF TypeOK, Committing, Claimed, RowRight, Complete
<1>4. /\ entity' = Reject(row, "REFERENCE_NOT_FOUND", b) /\ pc' = "save"
      /\ UNCHANGED <<request, work, row, client, error, judged>>
  BY <1>1, <1>2, <1>3 DEF Become, IsOpen
<1>5. /\ entity' \in Transactions /\ Same(entity', row) /\ entity'.status = "REJECTED"
      /\ entity'.code = "REFERENCE_NOT_FOUND" /\ entity'.balance = b /\ entity'.refId = row.refId
  BY <1>3, <1>4 DEF Reject, Same, Transactions, Statuses, Codes
<1>6. TypeOK'
  BY <1>2, <1>4, <1>5, NoneAssumption DEF TypeOK
<1>7. Complete(entity)' /\ entity'.kind # "OPENING"
  BY <1>3, <1>5, NoneAssumption DEF RowRight, Complete, Lasting, Same, Codes, Reversals
<1>8. Saving'
  BY <1>2, <1>3, <1>4, <1>5, <1>7 DEF Committing, RowRight, Saving, Claimed, Same, Explained
<1>9. row # None => RowRight(row)'
  BY <1>2, <1>4 DEF RowRight, Complete, Explained
<1>10. QED
  BY <1>2, <1>4, <1>6, <1>8, <1>9 DEF EntityInv, AtWork, OnlyCurrencyIsRefused

\* What Settle may decide of t: it is the same transaction, and a mismatch is explained.
Outcome(t, u) ==
    /\ u \in Transactions /\ Complete(u) /\ Same(u, t) /\ u.wallet = t.wallet
    /\ u.code = "REFERENCE_MISMATCH" /\ judged' = "matching" => t.wallet # "canonical"

\* An outcome is complete, and its explanation true, whatever the reference is.
LEMMA SettleDecides ==
    ASSUME EntityInv, Settle
    PROVE  /\ Outcome(entity, entity') /\ pc' = "save"
           /\ UNCHANGED <<request, work, row, client, error>>
<1>1. /\ TypeOK /\ pc = "settle" /\ entity \in Transactions /\ Settling
  BY DEF EntityInv, AtWork, Settle, TypeOK
<1>2. /\ Lasting(entity) /\ IsOpen(entity) /\ entity.kind # "OPENING" /\ entity.refId = None
  BY <1>1, NoneAssumption
     DEF EntityInv, RowRight, Settling, Claimed, Fresh, Complete, Lasting, IsOpen, Reversals
<1>3. PICK owner, allowed \in BOOLEAN, b \in Balances,
           reference \in IF NeedsReference(entity) THEN References ELSE {"missing"} :
        LET failure  == Failure(entity, reference)
            resolved == IF NeedsReference(entity) THEN ResolveReference(entity) ELSE entity
        IN /\ judged' = IF owner /\ NeedsReference(entity) THEN reference ELSE None
           /\ CASE ~owner ->
                     Become(IsOpen(entity), Reject(entity, "WALLET_MISMATCH", b))
                [] owner /\ NeedsReference(entity) /\ failure # None ->
                     IF failure = "REFERENCE_PENDING" /\ entity.kind \in Reversals
                     THEN Become(CanWait(entity), MarkPendingReference(entity, b))
                     ELSE Become(IsOpen(entity), Reject(entity, failure, b))
                [] OTHER ->
                     IF allowed \/ entity.kind = "LOSS"
                     THEN Become(CanBeProcessed(resolved), MarkProcessed(resolved, b))
                     ELSE Become(IsOpen(resolved), Reject(resolved, RefusalCode(entity), b))
  BY <1>1 DEF Settle
<1> DEFINE failure  == Failure(entity, reference)
           resolved == IF NeedsReference(entity) THEN ResolveReference(entity) ELSE entity
<1>4. /\ failure \in Codes \cup {None}
      /\ failure = "REFERENCE_MISMATCH" /\ reference = "matching" => entity.wallet # "canonical"
  BY NoneAssumption DEF Failure, Matches, Codes, References
<1>5. /\ resolved \in Transactions /\ Same(resolved, entity) /\ resolved.wallet = entity.wallet
      /\ resolved.status = entity.status
      /\ entity.kind \in Reversals => resolved.refId # None
      /\ IsOpen(resolved) /\ CanBeProcessed(resolved)
  BY <1>1, <1>2, NoneAssumption
     DEF ResolveReference, Transactions, Same, IsOpen, CanBeProcessed, NeedsReference
<1>6. ASSUME NEW t \in Transactions, Same(t, entity), t.wallet = entity.wallet,
             NEW code \in Codes
      PROVE  /\ Reject(t, code, b) \in Transactions /\ Complete(Reject(t, code, b))
             /\ Same(Reject(t, code, b), entity) /\ Reject(t, code, b).wallet = entity.wallet
             /\ Reject(t, code, b).code = code
  <2>1. /\ Reject(t, code, b) \in Transactions /\ Same(Reject(t, code, b), entity)
        /\ Reject(t, code, b).wallet = entity.wallet /\ Reject(t, code, b).code = code
        /\ Reject(t, code, b).status = "REJECTED" /\ Reject(t, code, b).balance = b
    BY <1>6 DEF Reject, Same, Transactions, Statuses
  <2>2. QED
    BY <1>2, <2>1, NoneAssumption DEF Complete, Lasting, Same
<1>7. CASE ~owner
  BY <1>2, <1>3, <1>6, <1>7, <1>1 DEF Become, Outcome, Codes, Same
<1>8. CASE owner /\ NeedsReference(entity) /\ failure # None
  <2>1. CASE failure = "REFERENCE_PENDING" /\ entity.kind \in Reversals
    <3> DEFINE u == MarkPendingReference(entity, b)
    <3>1. entity' = u /\ pc' = "save" /\ UNCHANGED <<request, work, row, client, error>>
      BY <1>2, <1>3, <1>8, <2>1 DEF Become, CanWait
    <3>2. /\ u \in Transactions /\ Same(u, entity) /\ u.wallet = entity.wallet
          /\ u.status = "PENDING_REFERENCE" /\ u.balance = b /\ u.code = "REFERENCE_PENDING"
          /\ u.refId = None
      BY <1>1, <1>2 DEF MarkPendingReference, Transactions, Same, Statuses, Codes
    <3>3. Complete(u)
      BY <1>2, <2>1, <3>2, NoneAssumption DEF Complete, Lasting, Same, Codes
    <3>4. QED
      BY <3>1, <3>2, <3>3 DEF Outcome
  <2>2. CASE ~ (failure = "REFERENCE_PENDING" /\ entity.kind \in Reversals)
    <3>1. /\ entity' = Reject(entity, failure, b) /\ pc' = "save" /\ judged' = reference
          /\ UNCHANGED <<request, work, row, client, error>>
      BY <1>2, <1>3, <1>8, <2>2 DEF Become
    <3>2. QED
      BY <1>1, <1>4, <1>6, <1>8, <3>1 DEF Outcome, Same
  <2>3. QED
    BY <2>1, <2>2
<1>9. CASE ~ (~owner \/ (owner /\ NeedsReference(entity) /\ failure # None))
  <2>1. CASE allowed \/ entity.kind = "LOSS"
    <3> DEFINE u == MarkProcessed(resolved, b)
    <3>1. entity' = u /\ pc' = "save" /\ UNCHANGED <<request, work, row, client, error>>
      BY <1>3, <1>5, <1>9, <2>1 DEF Become
    <3>2. /\ u \in Transactions /\ Same(u, entity) /\ u.wallet = entity.wallet
          /\ u.status = "PROCESSED" /\ u.balance = b /\ u.code = None /\ u.refId = resolved.refId
      <4> HIDE DEF resolved, u
      <4>1. /\ u \in Transactions /\ Same(u, resolved) /\ u.wallet = resolved.wallet
            /\ u.status = "PROCESSED" /\ u.balance = b /\ u.code = None
            /\ u.refId = resolved.refId
        BY <1>5, ProcessedParts DEF u
      <4>2. QED
        BY <1>5, <4>1 DEF Same
    <3>3. Complete(u)
      BY <1>2, <1>5, <3>2, NoneAssumption DEF Complete, Lasting, Same
    <3>4. QED
      BY <3>1, <3>2, <3>3, NoneAssumption DEF Outcome, Codes
  <2>2. CASE ~ (allowed \/ entity.kind = "LOSS")
    <3>1. /\ entity' = Reject(resolved, RefusalCode(entity), b) /\ pc' = "save"
          /\ UNCHANGED <<request, work, row, client, error>>
      BY <1>3, <1>5, <1>9, <2>2 DEF Become
    <3>2. RefusalCode(entity) \in Codes /\ RefusalCode(entity) # "REFERENCE_MISMATCH"
      BY DEF RefusalCode, Codes
    <3>3. QED
      BY <1>5, <1>6, <3>1, <3>2 DEF Outcome
  <2>3. QED
    BY <2>1, <2>2
<1>10. QED
  BY <1>7, <1>8, <1>9

LEMMA SettleStep ==
    ASSUME EntityInv, Settle
    PROVE  EntityInv'
<1>1. /\ TypeOK /\ pc = "settle" /\ Settling /\ work \in Transactions /\ error = "none"
      /\ (row # None => RowRight(row)) /\ entity \in Transactions
  BY DEF EntityInv, AtWork, Settle, TypeOK
<1>2. /\ Outcome(entity, entity') /\ pc' = "save"
      /\ UNCHANGED <<request, work, row, client, error>>
  BY SettleDecides
<1>3. judged' \in References \cup {None}
  BY DEF Settle
<1>4. TypeOK'
  BY <1>1, <1>2, <1>3, NoneAssumption DEF TypeOK, Outcome
<1>5. /\ Same(work, entity) /\ work.wallet = "canonical" /\ (row # None => Same(work, row))
      /\ work.status = IF client THEN "PENDING" ELSE "PENDING_REFERENCE"
  BY <1>1 DEF Settling, Claimed, Fresh, Stored, Same, RowRight, Transactions
<1>6. Explained(entity)'
  BY <1>1, <1>2, Parts DEF Outcome, Explained, Settling, Fresh, RowRight, Claimed
<1>7. entity'.kind # "OPENING"
  BY <1>1, <1>2, NoneAssumption
     DEF Outcome, Same, Settling, Claimed, Fresh, Lasting, RowRight, Complete, Reversals
<1>8. Saving'
  BY <1>1, <1>2, <1>5, <1>6, <1>7 DEF Saving, Settling, Claimed, Outcome, Same
<1>9. row # None => RowRight(row)'
  BY <1>1, <1>2, NoneAssumption DEF Settling, Claimed, RowRight, Complete, Explained
<1>10. QED
  BY <1>1, <1>2, <1>4, <1>8, <1>9 DEF EntityInv, AtWork, OnlyCurrencyIsRefused

LEMMA EntityStep == EntityInv /\ [Next]_vars => EntityInv'
<1> SUFFICES ASSUME EntityInv, [Next]_vars PROVE EntityInv'
  OBVIOUS
<1>1. CASE UNCHANGED vars
  BY <1>1 DEF vars, memory, EntityInv, TypeOK, AtWork, Inserting, Settling, Saving, Committing,
     Fresh, Complete, Claimed, RowRight, Explained, OnlyCurrencyIsRefused
<1>2. QED
  BY <1>1, PrepareStep, NewOpeningStep, InsertStep, LoadStep, SettleStep, SaveStep,
     RejectPendingStep, CommitStep, AbortStep DEF Next

\* Whatever is asked, whatever fails and whenever it fails: what the table has can be
\* rehydrated, says one thing, and waits only as what can be settled.
THEOREM RowsAreSound == Spec => []RowsSound
<1>1. EntityInv => RowsSound
  <2> SUFFICES ASSUME EntityInv PROVE RowsSound
    OBVIOUS
  <2>1. TypeOK /\ error # "entity" /\ (row # None => row \in Transactions /\ Complete(row))
    BY DEF EntityInv, TypeOK, RowRight
  <2>2. NoPoisonedRow
    BY <2>1, CompleteBuilds DEF NoPoisonedRow
  <2>3. OutcomesAreWhole
    BY <2>1 DEF OutcomesAreWhole, Complete
  <2>4. QED
    BY <2>1, <2>2, <2>3 DEF RowsSound
<1>2. QED
  BY <1>1, InitEntity, EntityStep, PTL DEF Spec

\* The schema refuses no outcome the code decides, and no request but for its currency.
THEOREM OnlyTheCurrencyIsRefused == Spec => []OnlyCurrencyIsRefused
<1>1. EntityInv => OnlyCurrencyIsRefused
  BY DEF EntityInv
<1>2. QED
  BY <1>1, InitEntity, EntityStep, PTL DEF Spec

\* Only the spelling of a wallet id in a request makes a matching reference a mismatch.
THEOREM MismatchIsExplained == Spec => []MismatchExplained
<1>1. EntityInv => MismatchExplained
  BY DEF EntityInv, RowRight, Explained, MismatchExplained
<1>2. QED
  BY <1>1, InitEntity, EntityStep, PTL DEF Spec

-----------------------------------------------------------------------------
(* Recursion on the natural numbers.                                       *)

LEMMA LeastNumber ==
    ASSUME NEW T, T \subseteq Nat, T # {}
    PROVE  \E least \in T : \A k \in T : least <= k
<1> DEFINE less == OpToRel(<, Nat)
<1>1. IsWellFoundedOn(less, Nat)
  BY NatLessThanWellFounded
<1>2. \A i, j \in Nat : i < j => <<i, j>> \in less
  BY DEF OpToRel
<1> HIDE DEF less
<1>3. \E least \in T : \A k \in T : ~ (<<k, least>> \in less)
  BY <1>1, WFMin, Zenon
<1>4. PICK least \in T : \A k \in T : ~ (<<k, least>> \in less)
  BY <1>3
<1>5. ASSUME NEW k \in T PROVE least <= k
  <2>1. k \in Nat /\ least \in Nat /\ ~ (k < least)
    BY <1>2, <1>4
  <2>2. QED
    BY <2>1
<1>6. QED
  BY <1>5

\* f is given at 0 and, at a later argument, by its value at an earlier one.
Course(f, n, before, first, step) ==
    /\ f[0] = first
    /\ \A i \in 1..n : f[i] = step[i][f[before[i]]]

LEMMA CourseExists ==
    ASSUME NEW n \in Nat, NEW S, NEW first \in S, NEW step \in [1..n -> [S -> S]],
           NEW before \in [1..n -> Nat], \A i \in 1..n : before[i] < i
    PROVE  \E f \in [0..n -> S] : Course(f, n, before, first, step)
<1> USE DEF Course
<1> DEFINE Missing == {k \in 0..n : ~ \E f \in [0..k -> S] : Course(f, k, before, first, step)}
<1> SUFFICES ASSUME Missing # {} PROVE FALSE
  <2>1. n \in 0..n
    OBVIOUS
  <2>2. QED
    BY <2>1
<1>1. PICK least \in Missing : \A k \in Missing : least <= k
  <2>1. Missing \subseteq Nat
    OBVIOUS
  <2>2. QED
    BY <2>1, LeastNumber
<1>2. least \in 0..n /\ ~ \E f \in [0..least -> S] : Course(f, least, before, first, step)
  BY <1>1
<1>3. CASE least = 0
  <2> DEFINE f == [i \in 0..0 |-> first]
  <2>1. f \in [0..least -> S] /\ Course(f, least, before, first, step)
    BY <1>3
  <2>2. QED
    BY <1>2, <2>1
<1>4. CASE least # 0
  <2>1. least - 1 \in 0..n /\ ~ (least <= least - 1) /\ least \in 1..n
    BY <1>2, <1>4
  <2>2. PICK f \in [0..(least - 1) -> S] : Course(f, least - 1, before, first, step)
    BY <1>1, <2>1
  <2> DEFINE g == [i \in 0..least |-> IF i = least THEN step[i][f[before[i]]] ELSE f[i]]
  <2>3. \A i \in 0..least : i # least => i \in 0..(least - 1)
    BY <1>2
  <2>4. \A i \in 1..least : before[i] \in 0..least /\ before[i] # least /\ before[i] \in 0..(least - 1)
    BY <1>2
  <2>5. f[before[least]] \in S /\ step[least] \in [S -> S]
    BY <2>1, <2>2, <2>4
  <2>6. g \in [0..least -> S]
    BY <2>2, <2>3, <2>5
  <2>7. ASSUME NEW i \in 1..least
        PROVE  g[i] = step[i][g[before[i]]]
    <3>1. i \in 0..least /\ g[before[i]] = f[before[i]] /\ (i # least => i \in 1..(least - 1))
      BY <1>2, <2>4
    <3>2. QED
      BY <2>2, <3>1
  <2>8. g[0] = first
    BY <1>2, <1>4, <2>2
  <2>9. QED
    BY <1>2, <2>6, <2>7, <2>8
<1>5. QED
  BY <1>3, <1>4

-----------------------------------------------------------------------------
(* Digits, and the number they denote.                                     *)

LEMMA Digit ==
    /\ \A i \in 0..9 : Numeral(i) \in Digits /\ DigitValue(Numeral(i)) = i
    /\ \A d \in Digits : DigitValue(d) \in 0..9 /\ d \notin {Point, Minus, Space}
<1>1. Digits = {"0", "1", "2", "3", "4", "5", "6", "7", "8", "9"}
  <2>1. DOMAIN Numerals = 1..10
    BY DEF Numerals
  <2>2. QED
    BY <2>1 DEF Digits, Range, Numerals
<1>2. \A d \in Digits : \E i \in 0..9 : Numerals[i + 1] = d
  BY <1>1 DEF Numerals
<1>3. \A i, j \in 0..9 : Numerals[i + 1] = Numerals[j + 1] => i = j
  BY DEF Numerals
<1>4. \A i \in 0..9 : Numeral(i) \in Digits
  BY <1>1 DEF Numeral, Numerals
<1>5. \A d \in Digits : DigitValue(d) \in 0..9 /\ Numerals[DigitValue(d) + 1] = d
  BY <1>2 DEF DigitValue
<1>6. ASSUME NEW i \in 0..9 PROVE DigitValue(Numeral(i)) = i
  <2>1. Numeral(i) \in Digits /\ Numeral(i) = Numerals[i + 1]
    BY <1>4 DEF Numeral
  <2>2. DigitValue(Numeral(i)) \in 0..9 /\ Numerals[DigitValue(Numeral(i)) + 1] = Numerals[i + 1]
    BY <1>5, <2>1
  <2>3. QED
    BY <1>3, <2>2
<1>7. \A d \in Digits : d \notin {Point, Minus, Space}
  BY <1>1, Zenon DEF Point, Minus, Space
<1>8. QED
  BY <1>4, <1>5, <1>6, <1>7

Counts(f, s) ==
    /\ f \in [0..Len(s) -> Nat]
    /\ f[0] = 0
    /\ \A i \in 1..Len(s) : f[i] = 10 * f[i - 1] + DigitValue(s[i])

LEMMA NumberCounts ==
    ASSUME NEW s \in Seq(Digits)
    PROVE  \E f : Counts(f, s) /\ Number(s) = f[Len(s)]
<1> DEFINE n == Len(s)
           step == [i \in 1..n |-> [v \in Nat |-> 10 * v + DigitValue(s[i])]]
           before == [i \in 1..n |-> i - 1]
           next(f) == [i \in 0..n |-> IF i = 0 THEN 0 ELSE 10 * f[i - 1] + DigitValue(s[i])]
           value == CHOOSE f : f = next(f)
<1>1. n \in Nat /\ \A i \in 1..n : s[i] \in Digits
  BY LenProperties, ElementOfSeq
<1>2. \A i \in 1..n : DigitValue(s[i]) \in 0..9
  BY <1>1, Digit
<1>3. step \in [1..n -> [Nat -> Nat]] /\ before \in [1..n -> Nat] /\ \A i \in 1..n : before[i] < i
  BY <1>1, <1>2
<1> HIDE DEF n
<1>4. PICK f \in [0..n -> Nat] : Course(f, n, before, 0, step)
  <2> HIDE DEF step, before
  <2>1. QED
    BY <1>1, <1>3, CourseExists
<1>5. ASSUME NEW i \in 1..n PROVE f[i] = 10 * f[i - 1] + DigitValue(s[i])
  <2>1. i - 1 \in 0..n
    BY <1>1
  <2>2. QED
    BY <1>4, <2>1 DEF Course
<1>6. f[0] = 0
  BY <1>4 DEF Course
<1>7. f = next(f)
  <2>1. \A i \in 0..n : i = 0 \/ i \in 1..n
    BY <1>1
  <2>2. \A i \in 0..n : f[i] = next(f)[i]
    BY <1>5, <1>6, <2>1
  <2>3. QED
    BY <1>4, <2>2
<1>8. value = next(value)
  <2> HIDE DEF next
  <2>1. QED
    BY <1>7
<1>9. \A i \in 0..n : value[i] = f[i]
  <2> DEFINE Wrong == {i \in 0..n : value[i] # f[i]}
  <2> SUFFICES ASSUME Wrong # {} PROVE FALSE
    OBVIOUS
  <2>1. PICK least \in Wrong : \A i \in Wrong : least <= i
    <3>1. Wrong \subseteq Nat
      BY <1>1
    <3> HIDE DEF Wrong
    <3>2. QED
      BY <3>1, LeastNumber
  <2>2. least \in 0..n /\ value[least] = next(value)[least] /\ value[least] # f[least]
    BY <1>8, <2>1
  <2>3. least # 0
    BY <1>6, <2>2
  <2>4. least - 1 \in 0..n /\ ~ (least <= least - 1) /\ least \in 1..n
    BY <1>1, <2>2, <2>3
  <2>5. value[least - 1] = f[least - 1]
    BY <2>1, <2>4
  <2>6. QED
    BY <1>5, <2>2, <2>3, <2>4, <2>5
<1>10. Number(s) = value[n]
  BY DEF Number, n
<1>11. Counts(f, s)
  BY <1>4, <1>5, <1>6 DEF Counts, n
<1>12. QED
  BY <1>1, <1>9, <1>10, <1>11 DEF n

LEMMA NumberType ==
    ASSUME NEW s \in Seq(Digits)
    PROVE  Number(s) \in Nat
BY NumberCounts, LenProperties DEF Counts

LEMMA NumberEmpty == Number(<< >>) = 0
<1>1. << >> \in Seq(Digits) /\ Len(<< >>) = 0
  OBVIOUS
<1>2. QED
  BY <1>1, NumberCounts DEF Counts

LEMMA NumberAppend ==
    ASSUME NEW s \in Seq(Digits), NEW d \in Digits
    PROVE  Number(Append(s, d)) = 10 * Number(s) + DigitValue(d)
<1> DEFINE n == Len(s)
           a == Append(s, d)
<1>1. n \in Nat /\ a \in Seq(Digits) /\ Len(a) = n + 1 /\ a[n + 1] = d /\ \A i \in 1..n : a[i] = s[i]
  BY LenProperties, AppendProperties
<1>2. PICK f : Counts(f, s) /\ Number(s) = f[n]
  BY NumberCounts
<1>3. PICK g : Counts(g, a) /\ Number(a) = g[n + 1]
  BY <1>1, NumberCounts
<1> HIDE DEF a
<1>4. \A i \in 0..n : g[i] = f[i]
  <2> DEFINE Wrong == {i \in 0..n : g[i] # f[i]}
  <2> SUFFICES ASSUME Wrong # {} PROVE FALSE
    OBVIOUS
  <2>1. PICK least \in Wrong : \A i \in Wrong : least <= i
    <3>1. Wrong \subseteq Nat
      BY <1>1
    <3> HIDE DEF Wrong
    <3>2. QED
      BY <3>1, LeastNumber
  <2>2. least \in 0..n /\ g[least] # f[least]
    BY <2>1
  <2>3. least # 0
    BY <1>2, <1>3, <2>2 DEF Counts
  <2>4. least - 1 \in 0..n /\ ~ (least <= least - 1) /\ least \in 1..n /\ least \in 1..(n + 1)
    BY <1>1, <2>2, <2>3
  <2>5. g[least - 1] = f[least - 1]
    BY <2>1, <2>4
  <2>6. QED
    BY <1>1, <1>2, <1>3, <2>2, <2>4, <2>5 DEF Counts
<1>5. g[n + 1] = 10 * g[n] + DigitValue(d)
  <2>1. n + 1 \in 1..Len(a) /\ (n + 1) - 1 = n
    BY <1>1
  <2>2. g[n + 1] = 10 * g[(n + 1) - 1] + DigitValue(a[n + 1])
    BY <1>3, <2>1 DEF Counts
  <2>3. QED
    BY <1>1, <2>1, <2>2
<1>6. n \in 0..n
  BY <1>1
<1>7. QED
  BY <1>2, <1>3, <1>4, <1>5, <1>6 DEF a

-----------------------------------------------------------------------------
(* Parse.                                                                  *)

\* The ends of a set of natural numbers with a bound.
LEMMA LeastOfSet ==
    ASSUME NEW T, T \subseteq Nat, T # {}
    PROVE  Min(T) \in T /\ \A k \in T : Min(T) <= k
<1>1. \E x \in T : \A y \in T : x =< y
  BY LeastNumber
<1>2. QED
  BY <1>1 DEF Min

LEMMA GreatestOfSet ==
    ASSUME NEW n \in Nat, NEW T, T \subseteq 1..n, T # {}
    PROVE  Max(T) \in T /\ \A k \in T : k <= Max(T)
<1> DEFINE below == {n - k : k \in T}
<1>1. below \subseteq Nat /\ below # {}
  <2>1. PICK x \in T : TRUE
    OBVIOUS
  <2>2. n - x \in below
    BY <2>1
  <2>3. \A k \in T : n - k \in Nat
    OBVIOUS
  <2>4. QED
    BY <2>2, <2>3
<1>2. PICK least \in below : \A k \in below : least <= k
  <2> HIDE DEF below
  <2>1. QED
    BY <1>1, LeastNumber
<1>3. PICK x \in T : least = n - x
  BY <1>2
<1>4. \A y \in T : x >= y
  <2>1. ASSUME NEW y \in T PROVE x >= y
    <3>1. n - y \in below /\ x \in Int /\ y \in Int
      OBVIOUS
    <3>2. n - x <= n - y
      BY <1>2, <1>3, <3>1
    <3>3. QED
      BY <3>1, <3>2
  <2>2. QED
    BY <2>1
<1>5. Max(T) \in T /\ \A y \in T : Max(T) >= y
  BY <1>4 DEF Max
<1>6. QED
  BY <1>5

LEMMA TrimSpaceType ==
    ASSUME NEW S, NEW s \in Seq(S)
    PROVE  TrimSpace(s) \in Seq(S)
<1> DEFINE inside == {i \in DOMAIN s : s[i] # Space}
<1>1. Len(s) \in Nat /\ DOMAIN s = 1..Len(s) /\ \A i \in 1..Len(s) : s[i] \in S
  BY LenProperties, ElementOfSeq
<1>2. CASE inside = {}
  <2>1. TrimSpace(s) = << >>
    BY <1>2, Zenon DEF TrimSpace
  <2>2. QED
    BY <2>1
<1>3. CASE inside # {}
  <2>1. inside \subseteq DOMAIN s
    BY Zenon
  <2> HIDE DEF inside
  <2>2. inside \subseteq 1..Len(s) /\ inside \subseteq Nat
    BY <1>1, <2>1
  <2>3. Min(inside) \in 1..Len(s) /\ Max(inside) \in 1..Len(s)
    BY <1>1, <1>3, <2>2, LeastOfSet, GreatestOfSet
  <2>4. SubSeq(s, Min(inside), Max(inside)) \in Seq(S)
    BY <1>1, <2>3, SubSeqProperties
  <2>5. TrimSpace(s) = SubSeq(s, Min(inside), Max(inside))
    BY <1>3, Zenon DEF TrimSpace, inside
  <2>6. QED
    BY <2>4, <2>5
<1>4. QED
  BY <1>2, <1>3

\* A text that begins and ends with something else than a space is left as it is.
LEMMA NothingToTrim ==
    ASSUME NEW S, NEW s \in Seq(S), s # << >>, s[1] # Space, s[Len(s)] # Space
    PROVE  TrimSpace(s) = s
<1> DEFINE inside == {i \in DOMAIN s : s[i] # Space}
           n == Len(s)
           least == Min(inside)
           greatest == Max(inside)
<1>1. n \in Nat /\ DOMAIN s = 1..n /\ n # 0
  BY LenProperties, EmptySeq
<1>2. \A i : i \in inside <=> i \in DOMAIN s /\ s[i] # Space
  BY Zenon
<1> HIDE DEF inside, n, least, greatest
<1>3. 1 \in 1..n /\ n \in 1..n /\ \A i \in 1..n : i \in Nat /\ 1 <= i /\ i <= n
  BY <1>1
<1>4. 1 \in inside /\ n \in inside
  BY <1>1, <1>2, <1>3 DEF n
<1>5. inside \subseteq 1..n /\ inside \subseteq Nat
  BY <1>1, <1>2, <1>3
<1>6. least = 1
  <2>1. least \in inside /\ least <= 1
    BY <1>4, <1>5, LeastOfSet DEF least
  <2>2. least \in Nat /\ 1 <= least
    BY <1>3, <1>5, <2>1
  <2>3. QED
    BY <2>1, <2>2
<1>7. greatest = n
  <2>1. greatest \in inside /\ n <= greatest
    BY <1>1, <1>4, <1>5, GreatestOfSet DEF greatest
  <2>2. greatest \in Nat /\ greatest <= n
    BY <1>3, <1>5, <2>1
  <2>3. QED
    BY <1>1, <2>1, <2>2
<1>8. SubSeq(s, 1, n) = s
  BY SubSeqFull DEF n
<1>9. TrimSpace(s) = SubSeq(s, least, greatest)
  BY <1>4, Zenon DEF TrimSpace, inside, least, greatest
<1>10. QED
  BY <1>6, <1>7, <1>8, <1>9

\* The first point of a text, one past its end when it has none.
PointOf(t) == IF Points(t) = {} THEN Len(t) + 1 ELSE Min(Points(t))

LEMMA PartsOfText ==
    ASSUME NEW S, NEW t \in Seq(S)
    PROVE  LET p == PointOf(t) IN
           /\ p \in 1..(Len(t) + 1)
           /\ \A j \in 1..Len(t) : j < p => t[j] # Point
           /\ p <= Len(t) => t[p] = Point
           /\ Whole(t) \in Seq(S) /\ Len(Whole(t)) = p - 1
           /\ \A j \in 1..(p - 1) : Whole(t)[j] = t[j]
           /\ Fraction(t) \in Seq(S)
           /\ Len(Fraction(t)) = IF p > Len(t) THEN 0 ELSE Len(t) - p
           /\ \A j \in 1..(Len(t) - p) : Fraction(t)[j] = t[p + j]
<1>1. Len(t) \in Nat /\ DOMAIN t = 1..Len(t) /\ \A i \in 1..Len(t) : t[i] \in S
  BY LenProperties, ElementOfSeq
<1>2. Points(t) \subseteq 1..Len(t) /\ Points(t) \subseteq Nat
  BY <1>1 DEF Points
<1>3. CASE Points(t) = {}
  <2>1. \A j \in 1..Len(t) : t[j] # Point
    BY <1>1, <1>3 DEF Points
  <2>2. << >> \in Seq(S) /\ Len(<< >>) = 0
    OBVIOUS
  <2>3. QED
    BY <1>1, <1>3, <2>1, <2>2 DEF PointOf, Whole, Fraction
<1>4. CASE Points(t) # {}
  <2> DEFINE p == Min(Points(t))
  <2>1. p \in Points(t) /\ \A k \in Points(t) : p <= k
    BY <1>2, <1>4, LeastOfSet
  <2> HIDE DEF p
  <2>2. p \in 1..Len(t) /\ t[p] = Point /\ \A j \in 1..Len(t) : j < p => t[j] # Point
    BY <1>1, <2>1 DEF Points
  <2>3. /\ SubSeq(t, 1, p - 1) \in Seq(S)
        /\ Len(SubSeq(t, 1, p - 1)) = IF 1 <= p - 1 THEN (p - 1) - 1 + 1 ELSE 0
        /\ \A i \in 1 .. (p - 1) - 1 + 1 : SubSeq(t, 1, p - 1)[i] = t[1 + i - 1]
    <3>1. p - 1 \in Int /\ 1 \in Int /\ \A i \in 1..(p - 1) : t[i] \in S
      BY <1>1, <2>2
    <3>2. QED
      BY <3>1, SubSeqProperties
  <2>4. /\ SubSeq(t, p + 1, Len(t)) \in Seq(S)
        /\ Len(SubSeq(t, p + 1, Len(t))) = IF p + 1 <= Len(t) THEN Len(t) - (p + 1) + 1 ELSE 0
        /\ \A i \in 1 .. Len(t) - (p + 1) + 1 : SubSeq(t, p + 1, Len(t))[i] = t[(p + 1) + i - 1]
    <3>1. p + 1 \in Int /\ Len(t) \in Int /\ \A i \in (p + 1)..Len(t) : t[i] \in S
      BY <1>1, <2>2
    <3>2. QED
      BY <3>1, SubSeqProperties
  <2>5. PointOf(t) = p /\ Whole(t) = SubSeq(t, 1, p - 1) /\ Fraction(t) = SubSeq(t, p + 1, Len(t))
    BY <1>4 DEF PointOf, Whole, Fraction, p
  <2>6. /\ Whole(t) \in Seq(S) /\ Len(Whole(t)) = p - 1
        /\ \A j \in 1..(p - 1) : Whole(t)[j] = t[j]
    <3>1. \A j \in 1..(p - 1) : j \in 1 .. (p - 1) - 1 + 1 /\ 1 + j - 1 = j
      BY <1>1, <2>2
    <3>2. QED
      BY <2>2, <2>3, <2>5, <3>1
  <2>7. /\ Fraction(t) \in Seq(S) /\ Len(Fraction(t)) = Len(t) - p
        /\ \A j \in 1..(Len(t) - p) : Fraction(t)[j] = t[p + j]
    <3>1. \A j \in 1..(Len(t) - p) : j \in 1 .. Len(t) - (p + 1) + 1 /\ (p + 1) + j - 1 = p + j
      BY <1>1, <2>2
    <3>2. \A j \in 1..(Len(t) - p) : SubSeq(t, p + 1, Len(t))[j] = t[p + j]
      BY <2>4, <3>1
    <3>3. (IF p + 1 <= Len(t) THEN Len(t) - (p + 1) + 1 ELSE 0) = Len(t) - p
      <4>1. ASSUME NEW n \in Nat, NEW q \in 1..n
            PROVE  (IF q + 1 <= n THEN n - (q + 1) + 1 ELSE 0) = n - q
        OBVIOUS
      <4>2. QED
        BY <1>1, <2>2, <4>1
    <3>4. QED
      BY <2>4, <2>5, <3>2, <3>3, Zenon
  <2>8. PointOf(t) = p
    BY <2>5
  <2>9. p \in 1..(Len(t) + 1) /\ p <= Len(t)
    BY <1>1, <2>2
  <2>10. ~ (p > Len(t))
    BY <1>1, <2>9
  <2>11. QED
    BY <2>2, <2>6, <2>7, <2>8, <2>9, <2>10
<1>5. QED
  BY <1>3, <1>4


\* A second fits: there are positive integers.
LEMMA MaxIntType == MaxInt \in Nat /\ MinInt = -(MaxInt + 1) /\ MinInt \in Int
<1>1. 2 ^ (Word - 1) \in Int
  BY WordAssumption
<1>2. Second \in 1..MaxInt
  BY BackoffAssumption
<1>3. QED
  BY <1>1, <1>2 DEF MaxInt, MinInt

LEMMA SeqOfDigits ==
    ASSUME NEW S, NEW s \in Seq(S), Range(s) \subseteq Digits
    PROVE  s \in Seq(Digits)
<1>1. Len(s) \in Nat /\ s \in [1..Len(s) -> S]
  BY LenProperties
<1>2. Range(s) = {s[i] : i \in 1..Len(s)}
  BY RangeEquality
<1>3. \A i \in 1..Len(s) : s[i] \in Digits
  BY <1>2
<1>4. s \in [1..Len(s) -> Digits]
  BY <1>1, <1>3
<1>5. QED
  BY <1>1, <1>4, SeqDef

\* The first digit of the numerals.
LEMMA ZeroDigit == "0" \in Digits /\ DigitValue("0") = 0
<1>1. Numeral(0) = "0"
  BY DEF Numeral, Numerals
<1>2. QED
  BY <1>1, Digit

LEMMA NumberOfOne ==
    ASSUME NEW a \in Digits
    PROVE  <<a>> \in Seq(Digits) /\ Number(<<a>>) = DigitValue(a)
<1>1. << >> \in Seq(Digits) /\ Append(<< >>, a) = <<a>> /\ <<a>> \in Seq(Digits)
  OBVIOUS
<1>2. Number(Append(<< >>, a)) = 10 * Number(<< >>) + DigitValue(a)
  BY <1>1, NumberAppend
<1>3. Number(<< >>) = 0 /\ DigitValue(a) \in 0..9
  BY NumberEmpty, Digit
<1>4. QED
  BY <1>1, <1>2, <1>3

\* Sequences of one and of two.
LEMMA OneOf ==
    ASSUME NEW S, NEW s \in Seq(S), Len(s) = 1
    PROVE  s[1] \in S /\ s = <<s[1]>>
<1>1. 1 \in 1..Len(s)
  OBVIOUS
<1>2. s[1] \in S
  BY <1>1, ElementOfSeq
<1>3. <<s[1]>> \in Seq(S) /\ Len(<<s[1]>>) = 1 /\ <<s[1]>>[1] = s[1]
  BY <1>2
<1>4. \A i \in 1..Len(s) : s[i] = <<s[1]>>[i]
  BY <1>3
<1>5. QED
  BY <1>2, <1>3, <1>4, SeqEqual

LEMMA AppendToOne ==
    ASSUME NEW S, NEW one \in Seq(S), NEW b \in S
    PROVE  Len(one) = 1 =>
             /\ Append(one, b) \in Seq(S) /\ Len(Append(one, b)) = 2
             /\ Append(one, b)[1] = one[1] /\ Append(one, b)[2] = b
<1> DEFINE n == Len(one)
           app == Append(one, b)
<1>1. /\ app \in Seq(S) /\ Len(app) = n + 1 /\ app[n + 1] = b
      /\ \A i \in 1..n : app[i] = one[i]
  BY AppendProperties
<1> HIDE DEF n, app
<1>2. ASSUME n = 1
      PROVE  app \in Seq(S) /\ Len(app) = 2 /\ app[1] = one[1] /\ app[2] = b
  BY <1>1, <1>2
<1>3. QED
  BY <1>2 DEF n, app

LEMMA PairIsAppend ==
    ASSUME NEW S, NEW a \in S, NEW b \in S
    PROVE  /\ <<a>> \in Seq(S) /\ <<a, b>> \in Seq(S) /\ Len(<<a, b>>) = 2
           /\ Append(<<a>>, b) = <<a, b>>
<1> DEFINE one == <<a>>
           two == <<a, b>>
           app == Append(one, b)
<1>1. one \in Seq(S) /\ Len(one) = 1 /\ one[1] = a
  OBVIOUS
<1>2. two \in Seq(S) /\ Len(two) = 2 /\ two[1] = a /\ two[2] = b
  OBVIOUS
<1> HIDE DEF one, two
<1>3. app \in Seq(S) /\ Len(app) = 2 /\ app[1] = one[1] /\ app[2] = b
  BY <1>1, AppendToOne
<1> HIDE DEF app
<1>4. Len(app) = 2 /\ app[1] = a /\ app[2] = b
  BY <1>1, <1>3
<1>5. \A i \in 1..2 : app[i] = two[i]
  BY <1>2, <1>4
<1>6. app = two
  BY <1>2, <1>3, <1>4, <1>5, SeqEqual
<1>7. QED
  BY <1>1, <1>2, <1>6 DEF one, two, app

LEMMA TwoOf ==
    ASSUME NEW S, NEW s \in Seq(S), Len(s) = 2
    PROVE  s[1] \in S /\ s[2] \in S /\ s = <<s[1], s[2]>>
<1> DEFINE two == <<s[1], s[2]>>
<1>1. 1 \in 1..Len(s) /\ 2 \in 1..Len(s)
  OBVIOUS
<1>2. s[1] \in S /\ s[2] \in S
  BY <1>1, ElementOfSeq
<1>3. two \in Seq(S) /\ Len(two) = 2 /\ two[1] = s[1] /\ two[2] = s[2]
  BY <1>2
<1> HIDE DEF two
<1>4. \A i \in 1..2 : s[i] = two[i]
  BY <1>3
<1>5. s = two
  BY <1>3, <1>4, SeqEqual
<1>6. QED
  BY <1>2, <1>5 DEF two

LEMMA NumberOfTwo ==
    ASSUME NEW a \in Digits, NEW b \in Digits
    PROVE  <<a, b>> \in Seq(Digits) /\ Number(<<a, b>>) = 10 * DigitValue(a) + DigitValue(b)
<1>1. <<a>> \in Seq(Digits) /\ Number(<<a>>) = DigitValue(a)
  BY NumberOfOne
<1>2. Append(<<a>>, b) = <<a, b>> /\ <<a, b>> \in Seq(Digits)
  BY PairIsAppend
<1>3. Number(Append(<<a>>, b)) = 10 * Number(<<a>>) + DigitValue(b)
  BY <1>1, NumberAppend
<1>4. QED
  BY <1>1, <1>2, <1>3

\* The integer that all the digits of a text denote, in hundredths.
Exact(t) == Number(Whole(t) \o Fraction(t)) * LastCounts(t)

\* The digits read at once are the whole and the hundredths read apart.
LEMMA WellFormedValue ==
    ASSUME NEW S, NEW t \in Seq(S), WellFormed(t)
    PROVE  /\ Whole(t) \in Seq(Digits) /\ Fraction(t) \in Seq(Digits)
           /\ Hundredths(t) \in Seq(Digits)
           /\ Number(Whole(t)) \in Nat /\ Number(Hundredths(t)) \in 0..99
           /\ Exact(t) = 100 * Number(Whole(t)) + Number(Hundredths(t))
<1> DEFINE w == Whole(t)
           f == Fraction(t)
           v == Number(w)
<1>1. w \in Seq(S) /\ f \in Seq(S) /\ Len(f) \in Nat
  BY PartsOfText, LenProperties
<1>2. w \in Seq(Digits) /\ f \in Seq(Digits)
  BY <1>1, SeqOfDigits DEF WellFormed
<1>3. Len(f) <= 2
  BY DEF WellFormed
<1>4. v \in Nat
  BY <1>2, NumberType
<1> HIDE DEF w, f, v
<1>5. CASE Len(f) = 0
  <2>1. f = << >> /\ w \o f = w
    BY <1>2, <1>5, EmptySeq, ConcatEmptySeq
  <2>2. Hundredths(t) = <<"0", "0">>
    BY <1>5 DEF Hundredths, f
  <2>3. Hundredths(t) \in Seq(Digits) /\ Number(Hundredths(t)) = 0
    BY <2>2, ZeroDigit, NumberOfTwo
  <2>4. LastCounts(t) = 100
    BY <1>5 DEF LastCounts, f
  <2>5. Exact(t) = v * 100
    BY <2>1, <2>4 DEF Exact, w, f, v
  <2>6. QED
    BY <1>2, <1>4, <2>3, <2>5 DEF w, f, v
<1>6. CASE Len(f) = 1
  <2> DEFINE a == f[1]
  <2>1. a \in Digits /\ f = <<a>>
    BY <1>2, <1>6, OneOf
  <2> HIDE DEF a
  <2>2. w \o f = Append(w, a)
    BY <1>2, <2>1, AppendIsConcat
  <2>3. Number(w \o f) = 10 * v + DigitValue(a)
    BY <1>2, <2>1, <2>2, NumberAppend DEF v
  <2>4. Hundredths(t) = <<a, "0">>
    <3>1. Append(f, "0") = <<a, "0">>
      BY <2>1, ZeroDigit, PairIsAppend
    <3>2. Hundredths(t) = Append(f, "0")
      BY <1>6 DEF Hundredths, f
    <3>3. QED
      BY <3>1, <3>2
  <2>5. DigitValue(a) \in 0..9
    BY <2>1, Digit
  <2>6. Hundredths(t) \in Seq(Digits) /\ Number(Hundredths(t)) = 10 * DigitValue(a)
    BY <2>1, <2>4, <2>5, ZeroDigit, NumberOfTwo
  <2>7. LastCounts(t) = 10
    BY <1>6 DEF LastCounts, f
  <2>8. Exact(t) = (10 * v + DigitValue(a)) * 10
    BY <2>3, <2>7 DEF Exact, w, f
  <2>9. Exact(t) = 100 * v + Number(Hundredths(t)) /\ Number(Hundredths(t)) \in 0..99
    <3>1. ASSUME NEW x \in 0..9, NEW z \in Nat
          PROVE  (10 * z + x) * 10 = 100 * z + 10 * x /\ 10 * x \in 0..99
      OBVIOUS
    <3> DEFINE x == DigitValue(a)
               h == Number(Hundredths(t))
               e == Exact(t)
    <3>2. x \in 0..9 /\ h = 10 * x /\ e = (10 * v + x) * 10
      BY <2>5, <2>6, <2>8
    <3> HIDE DEF x, h, e
    <3>3. e = 100 * v + h /\ h \in 0..99
      BY <1>4, <3>1, <3>2
    <3>4. QED
      BY <3>3 DEF h, e
  <2>10. QED
    BY <1>2, <1>4, <2>6, <2>9 DEF w, f, v
<1>7. CASE Len(f) = 2
  <2> DEFINE a == f[1]
             b == f[2]
             wa == Append(w, a)
  <2>1. a \in Digits /\ b \in Digits /\ f = <<a, b>>
    BY <1>2, <1>7, TwoOf
  <2> HIDE DEF a, b, wa
  <2>2. wa \in Seq(Digits) /\ w \o f = Append(wa, b)
    <3>1. <<a>> \in Seq(Digits) /\ <<b>> \in Seq(Digits) /\ f = Append(<<a>>, b)
      BY <2>1, PairIsAppend
    <3>2. f = <<a>> \o <<b>>
      BY <2>1, <3>1, AppendIsConcat
    <3>3. wa = w \o <<a>> /\ wa \in Seq(Digits)
      BY <1>2, <2>1, AppendIsConcat, AppendProperties DEF wa
    <3>4. (w \o <<a>>) \o <<b>> = w \o (<<a>> \o <<b>>)
      BY <1>2, <3>1, ConcatAssociative
    <3>5. Append(wa, b) = wa \o <<b>>
      BY <2>1, <3>3, AppendIsConcat
    <3>6. QED
      BY <3>2, <3>3, <3>4, <3>5
  <2>3. Number(wa) = 10 * v + DigitValue(a)
    BY <1>2, <2>1, NumberAppend DEF v, wa
  <2>4. Number(w \o f) = 10 * Number(wa) + DigitValue(b)
    BY <2>1, <2>2, NumberAppend
  <2>5. Hundredths(t) = f
    BY <1>7 DEF Hundredths, f
  <2>6. DigitValue(a) \in 0..9 /\ DigitValue(b) \in 0..9
    BY <2>1, Digit
  <2>7. Number(Hundredths(t)) = 10 * DigitValue(a) + DigitValue(b)
    BY <2>1, <2>5, NumberOfTwo
  <2>8. LastCounts(t) = 1
    BY <1>7 DEF LastCounts, f
  <2>9. Exact(t) = (10 * (10 * v + DigitValue(a)) + DigitValue(b)) * 1
    BY <2>3, <2>4, <2>8 DEF Exact, w, f
  <2>10. Exact(t) = 100 * v + Number(Hundredths(t)) /\ Number(Hundredths(t)) \in 0..99
    <3>1. ASSUME NEW x \in 0..9, NEW y \in 0..9, NEW z \in Nat
          PROVE  (10 * (10 * z + x) + y) * 1 = 100 * z + (10 * x + y) /\ 10 * x + y \in 0..99
      OBVIOUS
    <3> DEFINE x == DigitValue(a)
               y == DigitValue(b)
               h == Number(Hundredths(t))
               e == Exact(t)
    <3>2. x \in 0..9 /\ y \in 0..9 /\ h = 10 * x + y /\ e = (10 * (10 * v + x) + y) * 1
      BY <2>6, <2>7, <2>9
    <3> HIDE DEF x, y, h, e
    <3>3. e = 100 * v + h /\ h \in 0..99
      BY <1>4, <3>1, <3>2
    <3>4. QED
      BY <3>3 DEF h, e
  <2>11. QED
    BY <1>2, <1>4, <2>5, <2>10 DEF w, f, v
<1>8. Len(f) \in {0, 1, 2}
  <2>1. ASSUME NEW k \in Nat, k <= 2 PROVE k \in {0, 1, 2}
    BY <2>1
  <2>2. QED
    BY <1>1, <1>3, <2>1 DEF f
<1>9. QED
  BY <1>5, <1>6, <1>7, <1>8

\* The pattern of an amount: a point or the end after digits, and at most two
\* digits after a point.
Pattern(t, i) ==
    /\ i > 1 /\ Len(t) - i <= 2
    /\ \A j \in DOMAIN t : IF j = i THEN t[j] = Point ELSE t[j] \in Digits

LEMMA PatternIsWellFormed ==
    ASSUME NEW S, NEW t \in Seq(S), NEW i \in 1 .. Len(t) + 1, Pattern(t, i)
    PROVE  WellFormed(t)
<1> DEFINE n == Len(t)
           p == PointOf(t)
<1>1. n \in Nat /\ DOMAIN t = 1..n
  BY LenProperties
<1>2. /\ i > 1 /\ n - i <= 2
      /\ \A j \in 1..n : IF j = i THEN t[j] = Point ELSE t[j] \in Digits
  BY <1>1 DEF Pattern
<1>3. \A d \in Digits : d # Point
  BY Digit
<1>4. /\ p \in 1..(n + 1) /\ (p <= n => t[p] = Point)
      /\ \A j \in 1..n : j < p => t[j] # Point
      /\ Whole(t) \in Seq(S) /\ Len(Whole(t)) = p - 1
      /\ \A j \in 1..(p - 1) : Whole(t)[j] = t[j]
      /\ Fraction(t) \in Seq(S) /\ Len(Fraction(t)) = IF p > n THEN 0 ELSE n - p
      /\ \A j \in 1..(n - p) : Fraction(t)[j] = t[p + j]
  BY PartsOfText
<1>5. Points(t) = IF i <= n THEN {i} ELSE {}
  <2>1. \A j : j \in Points(t) <=> j \in 1..n /\ t[j] = Point
    BY <1>1, Zenon DEF Points
  <2>2. \A j \in 1..n : t[j] = Point <=> j = i
    BY <1>2, <1>3
  <2>3. i <= n <=> i \in 1..n
    BY <1>1
  <2>4. QED
    BY <2>1, <2>2, <2>3
<1> HIDE DEF n, p
<1>6. p = i
  <2>1. CASE p \in 1..n
    <3>1. t[p] = Point
      BY <1>1, <1>4, <2>1
    <3>2. QED
      BY <1>2, <1>3, <2>1, <3>1
  <2>2. CASE p = n + 1
    <3>1. i \notin 1..n
      <4>1. i \in 1..n => i < p /\ t[i] = Point
        BY <1>1, <1>2, <2>2
      <4>2. QED
        BY <1>4, <4>1
    <3>2. i = n + 1
      BY <1>1, <3>1 DEF n
    <3>3. QED
      BY <2>2, <3>2
  <2>3. QED
    BY <1>1, <1>4, <2>1, <2>2
<1>7. Cardinality(Points(t)) <= 1
  <2>1. Cardinality({i}) = 1 /\ Cardinality({}) = 0
    BY FS_Singleton, FS_EmptySet
  <2>2. QED
    BY <1>5, <2>1
<1>8. Whole(t) # << >>
  <2>1. Len(Whole(t)) # 0
    BY <1>2, <1>4, <1>6
  <2>2. QED
    BY <2>1
<1>9. Len(Fraction(t)) <= 2
  BY <1>1, <1>2, <1>4, <1>6
<1>10. Range(Whole(t)) \subseteq Digits
  <2>1. Range(Whole(t)) = {Whole(t)[j] : j \in 1..(p - 1)}
    BY <1>4, RangeEquality
  <2>2. \A j \in 1..(p - 1) : j \in 1..n /\ j # i
    BY <1>1, <1>4, <1>6
  <2>3. \A j \in 1..(p - 1) : Whole(t)[j] \in Digits
    BY <1>2, <1>4, <2>2
  <2>4. QED
    BY <2>1, <2>3
<1>11. Range(Fraction(t)) \subseteq Digits
  <2>1. Range(Fraction(t)) = {Fraction(t)[j] : j \in 1..Len(Fraction(t))}
    BY <1>4, RangeEquality
  <2>2. \A j \in 1..Len(Fraction(t)) : j \in 1..(n - p) /\ p + j \in 1..n /\ p + j # i
    BY <1>1, <1>4, <1>6
  <2>3. \A j \in 1..Len(Fraction(t)) : Fraction(t)[j] \in Digits
    BY <1>2, <1>4, <2>2
  <2>4. QED
    BY <2>1, <2>3
<1>12. QED
  BY <1>7, <1>8, <1>9, <1>10, <1>11 DEF WellFormed

\* What no machine integer holds is refused, on each way to find it.
LEMMA TooLargeIsExact ==
    ASSUME NEW S, NEW t \in Seq(S), WellFormed(t)
    PROVE  /\ Exact(t) \in Nat
           /\ TooLarge(t) <=> Exact(t) > MaxInt
           /\ Exact(t) = Number(Whole(t)) * 100 + Number(Hundredths(t))
<1> DEFINE w == Number(Whole(t))
           h == Number(Hundredths(t))
           e == Exact(t)
<1>1. w \in Nat /\ h \in 0..99 /\ e = 100 * w + h
  BY WellFormedValue
<1>2. TooLarge(t) <=> w > MaxInt \/ w > MaxInt \div 100 \/ (w = MaxInt \div 100 /\ h > MaxInt % 100)
  BY Zenon DEF TooLarge
<1> HIDE DEF w, h, e
<1>3. MaxInt \in Nat
  BY MaxIntType
<1>4. ASSUME NEW x \in Nat, NEW y \in 0..99, NEW m \in Nat
      PROVE  /\ 100 * x + y \in Nat /\ 100 * x + y = x * 100 + y
             /\ (x > m \/ x > m \div 100 \/ (x = m \div 100 /\ y > m % 100))
                  <=> 100 * x + y > m
  OBVIOUS
<1>5. e \in Nat /\ (TooLarge(t) <=> e > MaxInt) /\ e = w * 100 + h
  BY <1>1, <1>2, <1>3, <1>4
<1>6. QED
  BY <1>5 DEF w, h, e

LEMMA SignedIsItself ==
    ASSUME NEW n \in Amounts
    PROVE  Signed(n) = n
<1> DEFINE m == MaxInt - MinInt + 1
<1>1. MaxInt \in Nat /\ MinInt = -(MaxInt + 1)
  BY MaxIntType
<1>2. m \in Int /\ n - MinInt \in 0..(m - 1)
  BY <1>1 DEF Amounts, MachineIntegers
<1>3. (n - MinInt) % m = n - MinInt
  <2> HIDE DEF m
  <2>1. ASSUME NEW d \in 0..(m - 1) PROVE d % m = d
    BY <1>2
  <2>2. QED
    BY <1>2, <2>1
<1>4. QED
  BY <1>1, <1>3 DEF Signed, Amounts, MachineIntegers

\* Every text is read as the amount it denotes, or refused for a reason.
LEMMA ParseExact ==
    ASSUME NEW S, NEW s \in Seq(S)
    PROVE  LET t == TrimSpace(s) IN
           IF WellFormed(t)
           THEN /\ Exact(t) \in Nat
                /\ Parse(s) = IF Exact(t) > MaxInt THEN Fails("overflow")
                              ELSE [error |-> "none", amount |-> Exact(t)]
           ELSE Parse(s) = Fails("invalid")
<1> DEFINE t == TrimSpace(s)
<1>1. t \in Seq(S)
  BY TrimSpaceType
<1>2. Parse(s) = IF ~WellFormed(t) THEN Fails("invalid")
                 ELSE IF TooLarge(t) THEN Fails("overflow")
                 ELSE Ok(Number(Whole(t)) * 100 + Number(Hundredths(t)))
  BY Zenon DEF Parse
<1> HIDE DEF t
<1>3. CASE ~WellFormed(t)
  BY <1>2, <1>3 DEF t
<1>4. CASE WellFormed(t)
  <2>1. /\ Exact(t) \in Nat
        /\ TooLarge(t) <=> Exact(t) > MaxInt
        /\ Exact(t) = Number(Whole(t)) * 100 + Number(Hundredths(t))
    BY <1>1, <1>4, TooLargeIsExact
  <2>2. CASE TooLarge(t)
    BY <1>2, <1>4, <2>1, <2>2 DEF t
  <2>3. CASE ~TooLarge(t)
    <3>1. Exact(t) \in Amounts
      BY <2>1, <2>3, MaxIntType DEF Amounts, MachineIntegers
    <3>2. Parse(s) = [error |-> "none", amount |-> Exact(t)]
      BY <1>2, <1>4, <2>1, <2>3, <3>1, SignedIsItself DEF Ok
    <3>3. QED
      BY <1>4, <2>1, <2>3, <3>2 DEF t
  <2>4. QED
    BY <2>2, <2>3
<1>5. QED
  BY <1>3, <1>4

\* The pattern gives the place of the point.
LEMMA PatternPoint ==
    ASSUME NEW S, NEW t \in Seq(S), NEW i \in 1 .. Len(t) + 1, Pattern(t, i)
    PROVE  PointOf(t) = i
<1> DEFINE n == Len(t)
           p == PointOf(t)
<1>1. n \in Nat /\ DOMAIN t = 1..n
  BY LenProperties
<1>2. \A j \in 1..n : IF j = i THEN t[j] = Point ELSE t[j] \in Digits
  BY <1>1 DEF Pattern
<1>3. \A d \in Digits : d # Point
  BY Digit
<1>4. p \in 1..(n + 1) /\ (p <= n => t[p] = Point) /\ \A j \in 1..n : j < p => t[j] # Point
  BY PartsOfText
<1> HIDE DEF n, p
<1>5. CASE p \in 1..n
  <2>1. t[p] = Point
    BY <1>1, <1>4, <1>5
  <2>2. p = i
    BY <1>2, <1>3, <1>5, <2>1
  <2>3. QED
    BY <2>2 DEF p
<1>6. CASE p = n + 1
  <2>1. i \in 1..n => i < p /\ t[i] = Point
    BY <1>1, <1>2, <1>6
  <2>2. i \notin 1..n
    BY <1>4, <2>1
  <2>3. i = n + 1
    BY <1>1, <2>2 DEF n
  <2>4. QED
    BY <1>6, <2>3 DEF p
<1>7. QED
  BY <1>1, <1>4, <1>5, <1>6

-----------------------------------------------------------------------------
(* String.                                                                 *)

\* What is written of a number denotes it.
LEMMA NumberTextExact ==
    ASSUME NEW n \in Nat
    PROVE  NumberText(n) \in Seq(Digits) /\ Len(NumberText(n)) >= 1 /\ Number(NumberText(n)) = n
<1> DEFINE next(f) == [i \in 0..n |-> IF i < 10 THEN <<Numeral(i)>>
                                      ELSE Append(f[i \div 10], Numeral(i % 10))]
           digit(i) == Numeral(i % 10)
           before == [i \in 1..n |-> i \div 10]
           step == [i \in 1..n |-> [s \in Seq(Digits) |->
                       IF i < 10 THEN <<Numeral(i)>> ELSE Append(s, Numeral(i % 10))]]
           value == CHOOSE f : f = next(f)
<1>1. \A i \in Nat : i \div 10 \in Nat /\ i % 10 \in 0..9 /\ 10 * (i \div 10) + (i % 10) = i
                     /\ (i # 0 => i \div 10 < i)
  <2>1. ASSUME NEW i \in Nat PROVE i \div 10 \in Nat /\ i % 10 \in 0..9
    OBVIOUS
  <2>2. ASSUME NEW i \in Nat PROVE 10 * (i \div 10) + (i % 10) = i
    OBVIOUS
  <2>3. ASSUME NEW q \in Nat, NEW r \in 0..9, 10 * q + r # 0 PROVE q < 10 * q + r
    BY <2>3
  <2>4. ASSUME NEW i \in Nat, i # 0 PROVE i \div 10 < i
    <3> DEFINE q == i \div 10
               r == i % 10
    <3>1. q \in Nat /\ r \in 0..9 /\ 10 * q + r = i
      BY <2>1, <2>2
    <3> HIDE DEF q, r
    <3>2. q < i
      BY <2>3, <2>4, <3>1
    <3>3. QED
      BY <3>2 DEF q
  <2>5. QED
    BY <2>1, <2>2, <2>4
<1>2. \A i \in Nat : Numeral(i % 10) \in Digits /\ DigitValue(Numeral(i % 10)) = i % 10
  BY <1>1, Digit
<1>3. \A i \in Nat : i < 10 => /\ Numeral(i) \in Digits /\ DigitValue(Numeral(i)) = i
                               /\ <<Numeral(i)>> \in Seq(Digits)
  <2>1. \A i \in Nat : i < 10 => i \in 0..9
    OBVIOUS
  <2>2. QED
    BY <2>1, Digit
<1>4. /\ <<Numeral(0)>> \in Seq(Digits)
      /\ step \in [1..n -> [Seq(Digits) -> Seq(Digits)]]
      /\ before \in [1..n -> Nat] /\ \A i \in 1..n : before[i] < i
  <2>1. \A i \in 1..n : i \in Nat /\ i # 0
    OBVIOUS
  <2>2. <<Numeral(0)>> \in Seq(Digits)
    BY <1>3
  <2>3. before \in [1..n -> Nat] /\ \A i \in 1..n : before[i] < i
    BY <1>1, <2>1
  <2>4. \A i \in 1..n : \A s \in Seq(Digits) :
            (IF i < 10 THEN <<Numeral(i)>> ELSE Append(s, Numeral(i % 10))) \in Seq(Digits)
    BY <1>2, <1>3, <2>1, AppendProperties
  <2>5. QED
    BY <2>2, <2>3, <2>4
<1>5. PICK f \in [0..n -> Seq(Digits)] : Course(f, n, before, <<Numeral(0)>>, step)
  <2> HIDE DEF step, before
  <2>1. QED
    BY <1>4, CourseExists
<1>6. ASSUME NEW i \in 0..n PROVE f[i] = next(f)[i]
  <2>1. CASE i = 0
    <3>1. f[0] = <<Numeral(0)>>
      BY <1>5 DEF Course
    <3>2. QED
      BY <2>1, <3>1
  <2>2. CASE i # 0
    <3>1. i \in 1..n /\ i \in Nat
      BY <2>2
    <3>2. i \div 10 \in 0..n
      BY <1>1, <3>1, <2>2
    <3>3. f[i] = step[i][f[i \div 10]]
      BY <1>5, <3>1 DEF Course
    <3>4. QED
      BY <3>1, <3>2, <3>3
  <2>3. QED
    BY <2>1, <2>2
<1>7. f = next(f)
  BY <1>5, <1>6
<1>8. value = next(value)
  <2> HIDE DEF next
  <2>1. QED
    BY <1>7
<1>9. NumberText(n) = value[n]
  BY DEF NumberText
<1> HIDE DEF value
<1>10. \A i \in 0..n : /\ value[i] \in Seq(Digits) /\ Len(value[i]) >= 1
                       /\ Number(value[i]) = i
  <2> DEFINE Right(i) == value[i] \in Seq(Digits) /\ Len(value[i]) >= 1 /\ Number(value[i]) = i
             Wrong == {i \in 0..n : ~Right(i)}
  <2> SUFFICES ASSUME Wrong # {} PROVE FALSE
    OBVIOUS
  <2>1. PICK least \in Wrong : \A i \in Wrong : least <= i
    <3>1. Wrong \subseteq Nat
      OBVIOUS
    <3> HIDE DEF Wrong
    <3>2. QED
      BY <3>1, LeastNumber
  <2>2. least \in 0..n /\ least \in Nat /\ ~Right(least)
    <3> HIDE DEF Right
    <3>1. QED
      BY <2>1
  <2>3. CASE least < 10
    <3>1. value[least] = <<Numeral(least)>>
      BY <1>8, <2>2, <2>3
    <3>2. Numeral(least) \in Digits /\ DigitValue(Numeral(least)) = least
      BY <1>3, <2>2, <2>3
    <3>3. <<Numeral(least)>> \in Seq(Digits) /\ Number(<<Numeral(least)>>) = least
      BY <3>2, NumberOfOne
    <3>4. Len(<<Numeral(least)>>) = 1
      OBVIOUS
    <3>5. Right(least)
      BY <3>1, <3>3, <3>4
    <3>6. QED
      BY <2>2, <3>5
  <2>4. CASE ~(least < 10)
    <3> DEFINE q == least \div 10
               d == Numeral(least % 10)
    <3>1. value[least] = Append(value[q], d)
      BY <1>8, <2>2, <2>4
    <3>2. q \in 0..n /\ ~(least <= q)
      BY <1>1, <2>2, <2>4
    <3>3. Right(q)
      BY <2>1, <3>2
    <3>4. d \in Digits /\ DigitValue(d) = least % 10
      BY <1>2, <2>2
    <3>5. /\ Append(value[q], d) \in Seq(Digits) /\ Len(Append(value[q], d)) = Len(value[q]) + 1
          /\ Number(Append(value[q], d)) = 10 * q + (least % 10)
      <4>1. value[q] \in Seq(Digits) /\ Number(value[q]) = q
        BY <3>3
      <4> HIDE DEF q, d
      <4>2. Number(Append(value[q], d)) = 10 * Number(value[q]) + DigitValue(d)
        BY <3>4, <4>1, NumberAppend
      <4>3. QED
        BY <3>4, <4>1, <4>2, AppendProperties
    <3>6. Len(value[q]) \in Nat
      BY <3>3, LenProperties
    <3>7. Number(value[least]) = least
      <4>1. 10 * q + (least % 10) = least
        BY <1>1, <2>2
      <4> HIDE DEF q, d
      <4>2. QED
        BY <3>1, <3>5, <4>1
    <3>8. Len(value[least]) >= 1
      BY <3>1, <3>5, <3>6
    <3>9. Right(least)
      BY <3>1, <3>5, <3>7, <3>8
    <3>10. QED
      BY <2>2, <3>9
  <2>5. QED
    BY <2>3, <2>4
<1>11. QED
  BY <1>9, <1>10

\* An amount without a sign: what is written of it, and what it is read as.
Written(v) == NumberText(v \div 100) \o <<Point, Numeral((v % 100) \div 10), Numeral(v % 10)>>

Signs == Digits \cup {Point, Minus}

\* Digits, a point and two more digits.
Shape(t, digits, x, y) ==
    /\ t \in Seq(Signs) /\ Len(t) = Len(digits) + 3
    /\ \A j \in 1..Len(digits) : t[j] = digits[j] /\ t[j] \in Digits
    /\ t[Len(digits) + 1] = Point
    /\ t[Len(digits) + 2] = x /\ t[Len(digits) + 2] \in Digits
    /\ t[Len(digits) + 3] = y /\ t[Len(digits) + 3] \in Digits

LEMMA WrittenShape ==
    ASSUME NEW v \in Nat
    PROVE  Shape(Written(v), NumberText(v \div 100), Numeral((v % 100) \div 10), Numeral(v % 10))
<1> DEFINE N == NumberText(v \div 100)
           L == Len(N)
           x == Numeral((v % 100) \div 10)
           y == Numeral(v % 10)
           e == <<Point, x, y>>
           t == N \o e
<1>1. v \div 100 \in Nat /\ (v % 100) \div 10 \in 0..9 /\ v % 10 \in 0..9
  OBVIOUS
<1>2. N \in Seq(Digits)
  BY <1>1, NumberTextExact
<1>3. x \in Digits /\ y \in Digits
  BY <1>1, Digit
<1> HIDE DEF N, x, y
<1>4. N \in Seq(Signs) /\ L \in Nat /\ \A j \in 1..L : N[j] \in Digits
  <2>1. L \in Nat /\ N \in [1..L -> Digits] /\ \A j \in 1..L : N[j] \in Digits
    BY <1>2, LenProperties, ElementOfSeq
  <2> HIDE DEF L
  <2>2. N \in [1..L -> Signs]
    BY <2>1 DEF Signs
  <2>3. QED
    BY <2>1, <2>2, SeqDef
<1>5. e \in Seq(Signs) /\ Len(e) = 3 /\ e[1] = Point /\ e[2] = x /\ e[3] = y
  BY <1>3 DEF Signs
<1> HIDE DEF L, e
<1>6. /\ t \in Seq(Signs) /\ Len(t) = L + 3
      /\ \A i \in 1..(L + 3) : t[i] = IF i <= L THEN N[i] ELSE e[i - L]
  <2>1. /\ N \o e \in Seq(Signs) /\ Len(N \o e) = Len(N) + Len(e)
        /\ \A i \in 1 .. Len(N) + Len(e) : (N \o e)[i] = IF i <= Len(N) THEN N[i] ELSE e[i - Len(N)]
    BY <1>4, <1>5, ConcatProperties
  <2>2. Len(N) = L /\ Len(e) = 3
    BY <1>5 DEF L
  <2>3. QED
    BY <2>1, <2>2
<1> HIDE DEF t
<1>7. \A j \in 1..L : t[j] = N[j]
  BY <1>4, <1>6
<1>8. t[L + 1] = Point /\ t[L + 2] = x /\ t[L + 3] = y
  <2>1. /\ \A k \in 1..3 : L + k \in 1..(L + 3) /\ ~(L + k <= L) /\ (L + k) - L = k
    BY <1>4
  <2>2. \A k \in 1..3 : t[L + k] = e[k]
    BY <1>6, <2>1
  <2>3. QED
    BY <1>5, <2>2
<1>9. t = Written(v)
  BY DEF t, Written, N, e, x, y
<1>10. Shape(t, N, x, y)
  BY <1>3, <1>4, <1>6, <1>7, <1>8 DEF Shape, L
<1>11. QED
  BY <1>9, <1>10 DEF N, x, y

\* What is written needs no trimming, is well formed and denotes its amount.
LEMMA WrittenParses ==
    ASSUME NEW v \in Nat
    PROVE  LET t == Written(v) IN
           /\ TrimSpace(t) = t /\ WellFormed(t) /\ Exact(t) = v
<1> DEFINE t == Written(v)
           N == NumberText(v \div 100)
           L == Len(N)
           x == Numeral((v % 100) \div 10)
           y == Numeral(v % 10)
           h == (v % 100) \div 10
           u == v % 10
           w == v \div 100
<1>1. w \in Nat /\ h \in 0..9 /\ u \in 0..9 /\ 100 * w + (10 * h + u) = v
  <2>1. w \in Nat /\ h \in 0..9 /\ u \in 0..9
    OBVIOUS
  <2>2. 100 * w + (v % 100) = v
    OBVIOUS
  <2>3. v % 100 = 10 * h + u
    OBVIOUS
  <2>4. QED
    BY <2>1, <2>2, <2>3
<1>2. N \in Seq(Digits) /\ L \in Nat /\ L >= 1 /\ Number(N) = w
  BY <1>1, NumberTextExact, LenProperties
<1>3. /\ t \in Seq(Signs) /\ Len(t) = L + 3
      /\ \A j \in 1..L : t[j] = N[j] /\ t[j] \in Digits
      /\ t[L + 1] = Point /\ t[L + 2] = x /\ t[L + 3] = y
      /\ t[L + 2] \in Digits /\ t[L + 3] \in Digits
  <2>1. Shape(t, N, x, y)
    BY WrittenShape
  <2> HIDE DEF t, N, x, y
  <2>2. QED
    BY <2>1 DEF Shape
<1>4. x \in Digits /\ DigitValue(x) = h /\ y \in Digits /\ DigitValue(y) = u
  BY <1>1, Digit
<1> HIDE DEF t, N, L, x, y, h, u, w
<1>5. TrimSpace(t) = t
  <2>1. 1 \in 1..L /\ t[1] \in Digits /\ t[Len(t)] \in Digits /\ t # << >>
    <3>1. 1 \in 1..L /\ Len(t) # 0
      BY <1>2, <1>3
    <3>2. QED
      BY <1>3, <3>1
  <2>2. t[1] # Space /\ t[Len(t)] # Space
    BY <2>1, Digit
  <2>3. QED
    BY <1>3, <2>1, <2>2, NothingToTrim
<1>6. L + 1 \in 1 .. Len(t) + 1 /\ Pattern(t, L + 1)
  <2>1. L + 1 > 1 /\ Len(t) - (L + 1) <= 2 /\ L + 1 \in 1 .. Len(t) + 1
    BY <1>2, <1>3
  <2>2. DOMAIN t = 1..(L + 3)
    BY <1>3, LenProperties
  <2>3. \A j \in 1..(L + 3) : j = L + 1 \/ j \in 1..L \/ j = L + 2 \/ j = L + 3
    BY <1>2
  <2>4. \A j \in DOMAIN t : IF j = L + 1 THEN t[j] = Point ELSE t[j] \in Digits
    BY <1>3, <2>2, <2>3
  <2>5. QED
    BY <2>1, <2>4 DEF Pattern
<1>7. WellFormed(t) /\ PointOf(t) = L + 1
  BY <1>3, <1>6, PatternIsWellFormed, PatternPoint
<1>8. Whole(t) = N /\ Len(Fraction(t)) = 2 /\ Fraction(t)[1] = x /\ Fraction(t)[2] = y
      /\ Fraction(t) \in Seq(Signs)
  <2>1. /\ Whole(t) \in Seq(Signs) /\ Len(Whole(t)) = (L + 1) - 1
        /\ \A j \in 1..((L + 1) - 1) : Whole(t)[j] = t[j]
        /\ Fraction(t) \in Seq(Signs)
        /\ Len(Fraction(t)) = IF L + 1 > Len(t) THEN 0 ELSE Len(t) - (L + 1)
        /\ \A j \in 1..(Len(t) - (L + 1)) : Fraction(t)[j] = t[(L + 1) + j]
    <3> DEFINE p == PointOf(t)
    <3>1. /\ Whole(t) \in Seq(Signs) /\ Len(Whole(t)) = p - 1
          /\ \A j \in 1..(p - 1) : Whole(t)[j] = t[j]
          /\ Fraction(t) \in Seq(Signs)
          /\ Len(Fraction(t)) = IF p > Len(t) THEN 0 ELSE Len(t) - p
          /\ \A j \in 1..(Len(t) - p) : Fraction(t)[j] = t[p + j]
      BY <1>3, PartsOfText
    <3>2. p = L + 1
      BY <1>7
    <3> HIDE DEF p
    <3>3. QED
      BY <3>1, <3>2
  <2>2. (L + 1) - 1 = L /\ ~(L + 1 > L + 3) /\ (L + 3) - (L + 1) = 2
    BY <1>2
  <2>3. Len(Fraction(t)) = 2 /\ \A j \in 1..2 : Fraction(t)[j] = t[(L + 1) + j]
    BY <1>3, <2>1, <2>2
  <2>4. (L + 1) + 1 = L + 2 /\ (L + 1) + 2 = L + 3 /\ 1 \in 1..2 /\ 2 \in 1..2
    BY <1>2
  <2>5. Fraction(t)[1] = x /\ Fraction(t)[2] = y
    BY <1>3, <2>3, <2>4
  <2>6. Whole(t) = N
    <3>1. Len(Whole(t)) = L /\ \A j \in 1..L : Whole(t)[j] = N[j]
      BY <1>3, <2>1, <2>2
    <3>2. Len(N) = L
      BY DEF L
    <3>3. QED
      BY <1>2, <2>1, <3>1, <3>2, SeqEqual
  <2>7. QED
    BY <2>1, <2>3, <2>5, <2>6
<1>9. Number(Hundredths(t)) = 10 * h + u
  <2>1. Fraction(t) = <<x, y>>
    BY <1>8, TwoOf
  <2>2. Hundredths(t) = Fraction(t)
    BY <1>8 DEF Hundredths
  <2>3. QED
    BY <1>4, <2>1, <2>2, NumberOfTwo
<1>10. Exact(t) = 100 * w + (10 * h + u)
  BY <1>2, <1>3, <1>7, <1>8, <1>9, WellFormedValue
<1>11. QED
  BY <1>1, <1>5, <1>7, <1>10 DEF t

LEMMA ReadsBack ==
    ASSUME NEW v \in Nat, v \in Amounts
    PROVE  Written(v) \in Seq(Signs) /\ Parse(Written(v)) = Ok(v)
<1> DEFINE t == Written(v)
<1>1. t \in Seq(Signs)
  BY WrittenShape DEF Shape
<1>2. TrimSpace(t) = t /\ WellFormed(t) /\ Exact(t) = v
  BY WrittenParses
<1> HIDE DEF t
<1>3. Parse(t) = IF v > MaxInt THEN Fails("overflow") ELSE [error |-> "none", amount |-> v]
  BY <1>1, <1>2, ParseExact
<1>4. ~(v > MaxInt)
  BY MaxIntType DEF Amounts, MachineIntegers
<1>5. QED
  BY <1>1, <1>3, <1>4, SignedIsItself DEF Ok, t

\* A sign is refused.
LEMMA MinusRefused ==
    ASSUME NEW v \in Nat
    PROVE  /\ Parse(<<Minus>> \o Written(v)) = Fails("invalid")
           /\ Tail(<<Minus>> \o Written(v)) = Written(v)
<1> DEFINE t == Written(v)
           s == <<Minus>> \o t
           n == Len(t)
           one == <<Minus>>
<1>1. one \in Seq(Signs) /\ Len(one) = 1 /\ one[1] = Minus
  BY DEF Signs
<1>2. t \in Seq(Signs) /\ n \in Nat /\ n >= 1 /\ t[n] \in Digits
  <2>1. NumberText(v \div 100) \in Seq(Digits)
    BY NumberTextExact
  <2>2. Len(NumberText(v \div 100)) \in Nat
    BY <2>1, LenProperties
  <2>3. t \in Seq(Signs) /\ n = Len(NumberText(v \div 100)) + 3 /\ t[n] \in Digits
    BY WrittenShape DEF Shape
  <2> HIDE DEF n, t
  <2>4. QED
    BY <2>2, <2>3
<1> HIDE DEF t, n, one
<1>3. /\ one \o t \in Seq(Signs) /\ Len(one \o t) = n + 1
      /\ \A i \in 1..(n + 1) : (one \o t)[i] = IF i <= 1 THEN one[i] ELSE t[i - 1]
  <2>1. /\ one \o t \in Seq(Signs) /\ Len(one \o t) = Len(one) + Len(t)
        /\ \A i \in 1 .. Len(one) + Len(t) :
              (one \o t)[i] = IF i <= Len(one) THEN one[i] ELSE t[i - Len(one)]
    BY <1>1, <1>2, ConcatProperties
  <2>2. Len(one) = 1 /\ Len(t) = n /\ 1 + n = n + 1
    BY <1>1, <1>2 DEF n
  <2>3. QED
    BY <2>1, <2>2
<1>4. s = one \o t
  BY DEF one
<1> HIDE DEF s
<1>5. /\ s \in Seq(Signs) /\ Len(s) = n + 1 /\ s[1] = Minus
      /\ \A i \in 1..n : s[i + 1] = t[i]
  <2>1. 1 \in 1..(n + 1) /\ \A i \in 1..n : i + 1 \in 1..(n + 1) /\ ~(i + 1 <= 1) /\ (i + 1) - 1 = i
    BY <1>2
  <2>2. QED
    BY <1>1, <1>3, <1>4, <2>1
<1>6. Tail(s) = t
  <2>1. Tail(s) \in Seq(Signs) /\ Len(Tail(s)) = Len(s) - 1 /\ \A i \in 1..(Len(s) - 1) : Tail(s)[i] = s[i + 1]
    <3>1. s # << >>
      BY <1>2, <1>5
    <3>2. QED
      BY <1>5, <3>1, HeadTailProperties
  <2>2. (n + 1) - 1 = n
    BY <1>2
  <2>3. Len(Tail(s)) = Len(t) /\ \A i \in 1..Len(t) : Tail(s)[i] = t[i]
    BY <1>5, <2>1, <2>2 DEF n
  <2>4. QED
    BY <1>2, <2>1, <2>3, SeqEqual
<1>7. Minus # Space /\ Minus \notin Digits /\ Minus # Point
  <2>1. Minus # Space /\ Minus # Point
    BY Zenon DEF Minus, Space, Point
  <2>2. Minus \notin Digits
    BY Digit
  <2>3. QED
    BY <2>1, <2>2
<1>8. TrimSpace(s) = s
  <2>1. n \in 1..n /\ n + 1 # 0
    BY <1>2
  <2>2. s[Len(s)] \in Digits /\ s # << >>
    BY <1>2, <1>5, <2>1
  <2>3. s[Len(s)] # Space
    BY <2>2, Digit
  <2>4. QED
    BY <1>5, <1>7, <2>2, <2>3, NothingToTrim
<1>9. ~WellFormed(s)
  <2> SUFFICES ASSUME WellFormed(s) PROVE FALSE
    OBVIOUS
  <2>1. Whole(s) # << >> /\ Range(Whole(s)) \subseteq Digits
    BY DEF WellFormed
  <2>2. /\ Whole(s) \in Seq(Signs) /\ Len(Whole(s)) = PointOf(s) - 1
        /\ \A j \in 1..(PointOf(s) - 1) : Whole(s)[j] = s[j]
    BY <1>5, PartsOfText
  <2>3. Len(Whole(s)) \in Nat /\ Len(Whole(s)) # 0
    BY <2>1, <2>2, LenProperties, EmptySeq
  <2>4. 1 \in 1..Len(Whole(s))
    BY <2>3
  <2>5. Whole(s)[1] \in Range(Whole(s))
    BY <2>2, <2>4, RangeEquality
  <2>6. Whole(s)[1] = Minus
    BY <1>5, <2>2, <2>4
  <2>7. QED
    BY <1>7, <2>1, <2>5, <2>6
<1>10. Parse(s) = Fails("invalid")
  BY <1>5, <1>8, <1>9, ParseExact
<1>11. QED
  BY <1>6, <1>10 DEF s, t

LEMMA StringIsWritten ==
    ASSUME NEW a \in Amounts
    PROVE  /\ a >= 0 => a \in Nat /\ String(a) = Written(a)
           /\ a < 0 => -a \in Nat /\ String(a) = <<Minus>> \o Written(-a)
<1>1. a \in Int
  BY MaxIntType DEF Amounts, MachineIntegers
<1>2. ASSUME a >= 0
      PROVE  a \in Nat /\ String(a) = Written(a)
  <2>1. a \in Nat /\ ~(a < 0)
    BY <1>1, <1>2
  <2>2. String(a) = << >> \o NumberText(a \div 100)
                          \o <<Point, Numeral((a % 100) \div 10), Numeral(a % 10)>>
    BY <2>1, Zenon DEF String
  <2>3. NumberText(a \div 100) \in Seq(Digits)
    BY <2>1, NumberTextExact
  <2>4. << >> \o NumberText(a \div 100) = NumberText(a \div 100)
    BY <2>3, ConcatEmptySeq
  <2>5. QED
    BY <2>1, <2>2, <2>4 DEF Written
<1>3. ASSUME a < 0
      PROVE  -a \in Nat /\ String(a) = <<Minus>> \o Written(-a)
  <2>1. -a \in Nat
    BY <1>1, <1>3
  <2> DEFINE v == -a
             e == <<Point, Numeral((v % 100) \div 10), Numeral(v % 10)>>
             N == NumberText(v \div 100)
  <2>2. String(a) = <<Minus>> \o N \o e
    BY <1>3, Zenon DEF String
  <2>3. N \in Seq(Digits) /\ e \in Seq(Signs)
    <3>1. v \div 100 \in Nat /\ (v % 100) \div 10 \in 0..9 /\ v % 10 \in 0..9
      BY <2>1
    <3>2. N \in Seq(Digits) /\ Numeral((v % 100) \div 10) \in Digits /\ Numeral(v % 10) \in Digits
      BY <3>1, NumberTextExact, Digit
    <3>3. QED
      BY <3>2 DEF Signs
  <2>4. Written(v) = N \o e
    BY DEF Written
  <2> HIDE DEF N, e
  <2>5. <<Minus>> \in Seq(Signs) /\ N \in Seq(Signs)
    <3>1. <<Minus>> \in Seq(Signs)
      BY DEF Signs
    <3>2. Len(N) \in Nat /\ N \in [1..Len(N) -> Digits]
      BY <2>3, LenProperties
    <3>3. N \in [1..Len(N) -> Signs]
      BY <3>2 DEF Signs
    <3>4. QED
      BY <3>1, <3>2, <3>3, SeqDef
  <2>6. (<<Minus>> \o N) \o e = <<Minus>> \o (N \o e)
    BY <2>3, <2>5, ConcatAssociative
  <2>7. QED
    BY <2>1, <2>2, <2>4, <2>6
<1>4. QED
  BY <1>2, <1>3

-----------------------------------------------------------------------------
(* Calls.                                                                  *)

\* What an operation on two amounts is to return.
Returned ==
    CASE call.op = "Add" -> Add(call.m, call.n)
      [] call.op = "Sub" -> Sub(call.m, call.n)
      [] call.op = "Negate" -> Negate(call.m)
      [] OTHER -> Compare(call.m, call.n)

TextRead ==
    call.op = "Parse" =>
        /\ text \in Seq(Characters)
        /\ result # Unanswered => result = Parse(text)

Calculated ==
    call.op \in {"Add", "Sub", "Negate", "Compare"} =>
        /\ call.m \in Moneys /\ call.n \in Moneys
        /\ result # Unanswered => result = Returned

WrittenAndRead ==
    call.op = "String" =>
        /\ call.amount \in Amounts
        /\ result # Unanswered => /\ text = String(call.amount)
                                  /\ result = Parse(text)

AmountInv == TextRead /\ Calculated /\ WrittenAndRead

LEMMA AmountInit ==
    ASSUME Calling
    PROVE  AmountInv
<1>1. result = Unanswered
  BY DEF Calling
<1>2. CASE call = [op |-> "Parse"] /\ text \in SeqOf(Characters, MaxLength)
  <2>1. \A m \in Nat : [1..m -> Characters] \subseteq Seq(Characters)
    BY SeqDef
  <2>2. text \in Seq(Characters)
    BY <1>2, <2>1 DEF SeqOf
  <2>3. call.op = "Parse"
    BY <1>2
  <2>4. QED
    BY <1>1, <2>2, <2>3 DEF AmountInv, TextRead, Calculated, WrittenAndRead
<1>3. CASE \E m, n \in Moneys, op \in {"Add", "Sub", "Negate", "Compare"} :
              call = [op |-> op, m |-> m, n |-> n]
  BY <1>1, <1>3 DEF AmountInv, TextRead, Calculated, WrittenAndRead
<1>4. CASE \E a \in Amounts : call = [op |-> "String", amount |-> a]
  BY <1>1, <1>4 DEF AmountInv, TextRead, Calculated, WrittenAndRead
<1>5. CASE call \in Waits
  <2>1. call.op \in {"worker", "publisher", "consumer"}
    BY <1>5 DEF Waits
  <2>2. QED
    BY <2>1 DEF AmountInv, TextRead, Calculated, WrittenAndRead
<1>6. CASE call = [op |-> "none"]
  BY <1>6 DEF AmountInv, TextRead, Calculated, WrittenAndRead
<1>7. QED
  BY <1>2, <1>3, <1>4, <1>5, <1>6 DEF Calling

LEMMA AmountStep ==
    ASSUME AmountInv, [Call]_callVars
    PROVE  AmountInv'
<1> USE DEF AmountInv, TextRead, Calculated, WrittenAndRead
<1>1. CASE ParseText
  BY <1>1 DEF ParseText, Asked, Answer
<1>2. CASE AddMoney
  BY <1>2 DEF AddMoney, Asked, Answer, Returned
<1>3. CASE SubMoney
  BY <1>3 DEF SubMoney, Asked, Answer, Returned
<1>4. CASE NegateIt
  BY <1>4 DEF NegateIt, Asked, Answer, Returned
<1>5. CASE CompareIt
  BY <1>5 DEF CompareIt, Asked, Answer, Returned
<1>6. CASE WriteAndRead
  BY <1>6 DEF WriteAndRead, Asked
<1>7. CASE WorkerWaits \/ PublisherWaits \/ ConsumerHides
  <2>1. call.op \in {"worker", "publisher", "consumer"} /\ call' = call
    BY <1>7 DEF WorkerWaits, PublisherWaits, ConsumerHides, Asked, Answer
  <2>2. QED
    BY <2>1
<1>8. CASE UNCHANGED callVars
  BY <1>8 DEF callVars, Returned
<1>9. QED
  BY <1>1, <1>2, <1>3, <1>4, <1>5, <1>6, <1>7, <1>8 DEF Call

LEMMA ParseRight ==
    ASSUME AmountInv
    PROVE  ParseIsExact
<1> SUFFICES ASSUME Answered({"Parse"}) PROVE ParseIsExact
  BY Zenon DEF ParseIsExact
<1> DEFINE t == TrimSpace(text)
<1>1. text \in Seq(Characters) /\ result = Parse(text)
  BY DEF Answered, AmountInv, TextRead
<1>2. t \in Seq(Characters)
  BY <1>1, TrimSpaceType
<1>3. IF WellFormed(t)
      THEN /\ Exact(t) \in Nat
           /\ result = IF Exact(t) > MaxInt THEN Fails("overflow")
                       ELSE [error |-> "none", amount |-> Exact(t)]
      ELSE result = Fails("invalid")
  BY <1>1, ParseExact
<1> HIDE DEF t
<1>4. CASE WellFormed(t)
  <2>1. result = IF Exact(t) > MaxInt THEN Fails("overflow")
                 ELSE [error |-> "none", amount |-> Exact(t)]
    BY <1>3, <1>4
  <2>2. result.error # "invalid"
    BY <2>1 DEF Fails
  <2>3. QED
    BY <2>1, <2>2, Zenon DEF ParseIsExact, Exact, t
<1>5. CASE ~WellFormed(t)
  <2>1. result.error = "invalid"
    BY <1>3, <1>5 DEF Fails
  <2>2. ~\E i \in 1 .. Len(t) + 1 : Pattern(t, i)
    BY <1>2, <1>5, PatternIsWellFormed
  <2>3. QED
    BY <2>1, <2>2, Zenon DEF ParseIsExact, Pattern, t
<1>6. QED
  BY <1>4, <1>5

LEMMA NearFits == Near \subseteq Amounts /\ Near \subseteq Int
<1>1. \A n \in Sample : n \in Nat /\ n <= MaxInt
  BY ArithmeticCallsAssumption, MaxIntType
<1>2. \A n \in Sample : {n, -n, MaxInt - n, MinInt + n} \subseteq Amounts
  BY <1>1, MaxIntType DEF Amounts, MachineIntegers
<1>3. Near \subseteq Amounts
  BY <1>2 DEF Near
<1>4. QED
  BY <1>3, MaxIntType DEF Amounts, MachineIntegers

\* The guards refuse a sum exactly when it is no amount.
LEMMA SumExact ==
    ASSUME NEW a \in Amounts, NEW b \in Amounts
    PROVE  Sum(a, b) = IF a + b \in Amounts
                       THEN [error |-> "none", amount |-> a + b]
                       ELSE Fails("overflow")
<1>1. a \in Int /\ b \in Int /\ MaxInt \in Nat /\ MinInt \in Int
  BY MaxIntType DEF Amounts, MachineIntegers
<1>2. a + b \in Amounts <=> ~(\/ b > 0 /\ a > MaxInt - b
                              \/ b < 0 /\ a < MinInt - b)
  BY <1>1 DEF Amounts, MachineIntegers
<1>3. QED
  BY <1>2, SignedIsItself DEF Sum, Ok

LEMMA ArithmeticRight ==
    ASSUME AmountInv
    PROVE  ArithmeticIsExact
<1> SUFFICES ASSUME Answered({"Add", "Sub", "Negate", "Compare"}) PROVE ArithmeticIsExact
  BY Zenon DEF ArithmeticIsExact
<1> DEFINE m == call.m.amount
           n == call.n.amount
<1>1. /\ call.op \in {"Add", "Sub", "Negate", "Compare"}
      /\ call.m \in Moneys /\ call.n \in Moneys /\ result = Returned
  BY DEF Answered, AmountInv, Calculated
<1>2. m \in Amounts /\ n \in Amounts
  BY <1>1, NearFits DEF Moneys
<1>3. m \in Int /\ n \in Int /\ MaxInt \in Nat /\ MinInt = -(MaxInt + 1)
      /\ m \in MinInt..MaxInt /\ n \in MinInt..MaxInt
  BY <1>2, MaxIntType DEF Amounts, MachineIntegers
<1>4. CASE call.m.currency # call.n.currency /\ call.op # "Negate"
  <2>1. result = Fails("mismatch")
    BY <1>1, <1>4 DEF Returned, Add, Sub, Compare
  <2>2. result.error = "mismatch"
    BY <2>1 DEF Fails
  <2>3. QED
    BY <1>4, <2>2, Zenon DEF ArithmeticIsExact
<1>5. CASE call.op = "Add" /\ call.m.currency = call.n.currency
  <2>1. result = Sum(m, n)
    BY <1>1, <1>5 DEF Returned, Add
  <2> HIDE DEF m, n
  <2>2. result = IF m + n \in Amounts THEN [error |-> "none", amount |-> m + n] ELSE Fails("overflow")
    BY <1>2, <2>1, SumExact
  <2>3. QED
    BY <1>5, <2>2 DEF ArithmeticIsExact, Fails, m, n
<1>6. CASE call.op = "Sub" /\ call.m.currency = call.n.currency
  <2>1. result = IF n = MinInt THEN Fails("overflow") ELSE Sum(m, -n)
    BY <1>1, <1>6 DEF Returned, Sub
  <2> HIDE DEF m, n
  <2>2. CASE n = MinInt
    BY <1>6, <2>1, <2>2 DEF ArithmeticIsExact, Fails, m, n
  <2>3. CASE n # MinInt
    <3>1. -n \in Amounts /\ m + (-n) = m - n
      BY <1>3, <2>3 DEF Amounts, MachineIntegers
    <3>2. result = IF m - n \in Amounts THEN [error |-> "none", amount |-> m - n] ELSE Fails("overflow")
      BY <1>2, <2>1, <2>3, <3>1, SumExact
    <3>3. QED
      BY <1>6, <3>2 DEF ArithmeticIsExact, Fails, m, n
  <2>4. QED
    BY <2>2, <2>3
<1>7. CASE call.op = "Negate"
  <2>1. result = IF m = MinInt THEN Fails("overflow") ELSE Ok(-m)
    BY <1>1, <1>7 DEF Returned, Negate
  <2> HIDE DEF m, n
  <2>2. CASE m = MinInt
    <3>1. -m \notin Amounts
      BY <1>3, <2>2 DEF Amounts, MachineIntegers
    <3>2. QED
      BY <1>7, <2>1, <2>2, <3>1 DEF ArithmeticIsExact, Fails, m, n
  <2>3. CASE m # MinInt
    <3>1. -m \in Amounts
      BY <1>3, <2>3 DEF Amounts, MachineIntegers
    <3>2. result = [error |-> "none", amount |-> -m]
      BY <2>1, <2>3, <3>1, SignedIsItself DEF Ok
    <3>3. QED
      BY <1>7, <3>2 DEF ArithmeticIsExact, m, n
  <2>4. QED
    BY <2>2, <2>3
<1>8. CASE call.op = "Compare" /\ call.m.currency = call.n.currency
  <2> DEFINE c == IF m < n THEN -1 ELSE IF m > n THEN 1 ELSE 0
  <2>1. result = Ok(c)
    BY <1>1, <1>8 DEF Returned, Compare
  <2> HIDE DEF m, n
  <2>2. c \in Amounts /\ c = IF m = n THEN 0 ELSE IF m < n THEN -1 ELSE 1
    <3>1. 1 <= MaxInt
      BY MaxIntType, BackoffAssumption
    <3>2. QED
      BY <1>3, <3>1 DEF Amounts, MachineIntegers
  <2> HIDE DEF c
  <2>3. result = [error |-> "none", amount |-> c]
    BY <2>1, <2>2, SignedIsItself DEF Ok
  <2>4. QED
    BY <1>8, <2>2, <2>3 DEF ArithmeticIsExact, m, n
<1>9. QED
  BY <1>1, <1>4, <1>5, <1>6, <1>7, <1>8

LEMMA WrittenRight ==
    ASSUME AmountInv
    PROVE  WrittenReadsBack
<1> SUFFICES ASSUME Answered({"String"}) PROVE WrittenReadsBack
  BY Zenon DEF WrittenReadsBack
<1> DEFINE a == call.amount
<1>1. a \in Amounts /\ text = String(a) /\ result = Parse(text)
  BY DEF Answered, AmountInv, WrittenAndRead
<1> HIDE DEF a
<1>2. a \in Int /\ a \in MinInt..MaxInt
  BY <1>1, MaxIntType DEF Amounts, MachineIntegers
<1>3. CASE a >= 0
  <2>1. a \in Nat /\ text = Written(a)
    BY <1>1, <1>3, StringIsWritten
  <2>2. result = Ok(a)
    BY <1>1, <2>1, ReadsBack
  <2>3. QED
    BY <1>3, <2>2 DEF WrittenReadsBack, a
<1>4. CASE a < 0
  <2>1. -a \in Nat /\ text = <<Minus>> \o Written(-a)
    BY <1>1, <1>4, StringIsWritten
  <2>2. result = Fails("invalid") /\ Tail(text) = Written(-a)
    BY <1>1, <2>1, MinusRefused
  <2>3. ASSUME a # MinInt PROVE Parse(Tail(text)) = Ok(-a)
    <3>1. -a \in Amounts
      BY <1>2, <2>3, MaxIntType DEF Amounts, MachineIntegers
    <3>2. QED
      BY <2>1, <2>2, <3>1, ReadsBack
  <2>4. ~(a >= 0)
    BY <1>2, <1>4
  <2>5. QED
    BY <2>2, <2>3, <2>4, Zenon DEF WrittenReadsBack, a
<1>5. QED
  BY <1>2, <1>3, <1>4

\* For integers of any width and texts of any length: what Parse, the operations and
\* String return is what integers without a limit give, or a refusal for its reason.
THEOREM AmountsExact == CallSpec => []AmountsAreExact
<1>1. Calling => AmountInv
  BY AmountInit
<1>2. AmountInv /\ [Call]_callVars => AmountInv'
  BY AmountStep
<1>3. AmountInv => AmountsAreExact
  BY ParseRight, ArithmeticRight, WrittenRight DEF AmountsAreExact
<1>4. QED
  BY <1>1, <1>2, <1>3, PTL DEF CallSpec
=============================================================================
