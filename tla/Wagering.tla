------------------------------ MODULE Wagering ------------------------------
(***************************************************************************)
(* The wagering service over PostgreSQL (READ COMMITTED): API requests and *)
(* queue messages (Clients) and reference workers (Workers) run the steps  *)
(* of internal/application/wagering in database transactions that          *)
(* interleave.  A step is one SQL statement with the Go code up to the     *)
(* next one.  A transaction writes to its own copies (workWallets and so   *)
(* on), which only it sees; Commit publishes them.  Row locks are          *)
(* owner tables: a step that needs a lock held by another transaction is   *)
(* not enabled.                                                            *)
(*                                                                         *)
(* A wager row is identified by its external id, which the schema keeps    *)
(* unique.  Rows are committed only after a status other than PENDING was  *)
(* written, so a PENDING row is always the uncommitted row of a client     *)
(* between InsertWager and the write of its outcome (see Inserting).       *)
(*                                                                         *)
(* Time is abstracted: MakeDue lets the next attempt of a pending row      *)
(* become due, and the time to live of a pending row may be found elapsed  *)
(* at any attempt.                                                         *)
(***************************************************************************)
EXTENDS WagerDomain, FiniteSets

CONSTANTS
    Clients,      \* API requests and queue messages being processed
    Workers,      \* reference worker instances
    Wallets,      \* the wallets that exist
    WalletIds,    \* the wallet ids a request may name
    Exts, Keys, Players, Rounds,
    Requests,     \* the requests clients send
    PlayerOf,     \* the player of each wallet
    OpeningBalance,  \* the balance each wallet was created with
    BatchSize,    \* rows a worker claims at once
    MaxAttempts,  \* attempts to find a reference before giving up
    Faults        \* TRUE: a transaction may fail at any step

Procs == Clients \cup Workers

RequestSpace ==
    [ext : Exts, key : Keys, wallet : WalletIds, player : Players, round : Rounds,
     kind : ExternalKinds, amount : Nat, ref : Exts \cup {None}]

ASSUME WageringAssumption ==
    /\ Clients \cap Workers = {}
    /\ None \notin Procs \cup Exts \cup Players
    /\ Wallets \subseteq WalletIds
    /\ IsFiniteSet(Exts)
    /\ Requests \subseteq RequestSpace
    /\ PlayerOf \in [Wallets -> Players]
    /\ OpeningBalance \in [Wallets -> 0..MaxMoney]
    /\ BatchSize \in Nat \ {0}
    /\ MaxAttempts \in Nat \ {0}
    /\ Faults \in BOOLEAN

EventTypes == {"PendingReference", "Processed", "Rejected", "BalanceChanged"}

Entries  == [ext : Exts \cup {None}, dir : {"DEBIT", "CREDIT"}, amount : Nat,
             before : Nat, after : Nat]
WalletSpace == [balance : 0..MaxMoney, version : Nat, ledger : Seq(Entries)]
Codes    == {"REFERENCE_PENDING", "REFERENCE_NOT_PROCESSED", "REFERENCE_MISMATCH",
             "INVALID_OPERATION", "DUPLICATE_REVERSAL", "WALLET_MISMATCH",
             "INSUFFICIENT_BALANCE", "REVERSAL_INSUFFICIENT_BALANCE",
             "REFERENCE_NOT_FOUND"}
Rows     == [req : Requests, status : Statuses, balance : Nat \cup {None},
             code : Codes \cup {None}, ref : Exts \cup {None},
             attempts : Nat, due : BOOLEAN]
Replies  == [outcome : {"INVALID", "CONFLICT", "NOT_FOUND", "stored"}, row : Rows \cup {None}]

\* An absent value is none of the values.
ASSUME NoneAssumption ==
    /\ None \notin Codes \cup {"resolved"}
    /\ None \notin WalletSpace /\ None \notin Rows /\ None \notin Replies

VARIABLES
    wallets,      \* committed wallets, each with its ledger in the order of commits
    wagers,       \* committed wager rows, None where there is none
    outbox,       \* how many events of each type were written for each wager
    walletLock,   \* the transaction that holds the row lock of a wallet, or None
    wagerLock,    \* the same for the committed wager rows
    pc,           \* where each process is
    record,       \* the wager a transaction is working on, None outside one
    batch,        \* the claimed rows a worker has still to process
    verdict,      \* what was found about the reference of record
    workWallets,  \* wallets as a transaction has them, None where untouched; the
                  \* ledger of such a copy holds the entries not committed yet
    workWagers,   \* uncommitted wager rows of each transaction
    workEvents,   \* uncommitted outbox events of each transaction
    reply         \* the answer a client is about to receive

db    == <<wallets, wagers, outbox>>
locks == <<walletLock, wagerLock>>
work  == <<workWallets, workWagers, workEvents>>
vars  == <<wallets, wagers, outbox, walletLock, wagerLock, pc, record, batch,
           verdict, workWallets, workWagers, workEvents, reply>>

\* What a client may be told, besides the stored outcome of a wager.
Answer(outcome) == [outcome |-> outcome, row |-> None]
Stored(row)     == [outcome |-> "stored", row |-> row]

NewRecord(r) ==
    [req |-> r, status |-> "PENDING", balance |-> None, code |-> None,
     ref |-> None, attempts |-> 0, due |-> FALSE]

Opening(w) ==
    IF OpeningBalance[w] = 0 THEN << >>
    ELSE << Entry(None, "CREDIT", OpeningBalance[w], 0) >>

Init ==
    /\ wallets = [w \in Wallets |-> [balance |-> OpeningBalance[w], version |-> 1,
                                     ledger |-> Opening(w)]]
    /\ wagers = [e \in Exts |-> None]
    /\ outbox = [t \in EventTypes |-> [e \in Exts |-> 0]]
    /\ walletLock = [w \in Wallets |-> None]
    /\ wagerLock = [e \in Exts |-> None]
    /\ pc = [p \in Procs |-> "idle"]
    /\ record = [p \in Procs |-> None]
    /\ batch = [p \in Procs |-> << >>]
    /\ verdict = [p \in Procs |-> None]
    /\ workWallets = [p \in Procs |-> [w \in Wallets |-> None]]
    /\ workWagers = [p \in Procs |-> [e \in Exts |-> None]]
    /\ workEvents = [p \in Procs |-> {}]
    /\ reply = [c \in Clients |-> None]

-----------------------------------------------------------------------------
(* What a transaction sees, and how it ends.                               *)

\* The row of e as transaction p reads it: its own writes first.
View(p, e) == IF workWagers[p][e] # None THEN workWagers[p][e] ELSE wagers[e]

Req(p)  == record[p].req
Wallet(p) == workWallets[p][Req(p).wallet]

\* Fault: the identifiers are reserved before the insert.
ReservesEarly(c) == pc[c] \in {"insert", "resolve", "reversal", "settle", "commit"}

\* c has inserted its row and not ended its transaction.
Inserting(c) == pc[c] \in {"resolve", "reversal", "settle", "commit"}

Goto(p, label) == pc' = [pc EXCEPT ![p] = label]

\* The end of p's transaction: its locks, copies and local variables go.
EndTransaction(p) ==
    /\ walletLock' = [w \in Wallets |-> IF walletLock[w] = p THEN None ELSE walletLock[w]]
    /\ wagerLock' = [e \in Exts |-> IF wagerLock[e] = p THEN None ELSE wagerLock[e]]
    /\ record' = [record EXCEPT ![p] = None]
    /\ batch' = [batch EXCEPT ![p] = << >>]
    /\ verdict' = [verdict EXCEPT ![p] = None]
    /\ workWallets' = [workWallets EXCEPT ![p] = [w \in Wallets |-> None]]
    /\ workWagers' = [workWagers EXCEPT ![p] = [e \in Exts |-> None]]
    /\ workEvents' = [workEvents EXCEPT ![p] = {}]

\* c ends its transaction without having written anything and answers.
ReplyWithoutEffect(c, answer) ==
    /\ EndTransaction(c)
    /\ Goto(c, "reply")
    /\ reply' = [reply EXCEPT ![c] = answer]
    /\ UNCHANGED db

\* Faults: the stored payload is not compared; the answer is the new record.
ReplayAnything(r, row) == Stored(row)
ReplayNewRecord(r, row) ==
    IF PayloadHash(row.req) = PayloadHash(r) THEN Stored(NewRecord(r)) ELSE Answer("CONFLICT")

ReplayOrConflict(r, row) ==
    IF PayloadHash(row.req) = PayloadHash(r) THEN Stored(row) ELSE Answer("CONFLICT")

-----------------------------------------------------------------------------
(* A client: Process and ProcessInTx.                                      *)

\* A request arrives; an invalid one is refused before any transaction.
Submit(c, r) ==
    /\ pc[c] = "idle"
    /\ IF ValidRequest(r)
       THEN /\ Goto(c, "findKey")
            /\ record' = [record EXCEPT ![c] = NewRecord(r)]
            /\ UNCHANGED reply
       ELSE /\ Goto(c, "reply")
            /\ reply' = [reply EXCEPT ![c] = Answer("INVALID")]
            /\ UNCHANGED record
    /\ UNCHANGED <<db, locks, batch, verdict, work>>

\* One lookup among the committed rows: a hit is replayed or is a conflict,
\* a miss goes on to the next step.
Find(c, here, hits, next) ==
    /\ pc[c] = here
    /\ \/ \E e \in hits : ReplyWithoutEffect(c, ReplayOrConflict(Req(c), wagers[e]))
       \/ /\ hits = {}
          /\ next
          /\ UNCHANGED <<db, locks, record, batch, verdict, work, reply>>

SameKey(c) == {e \in Exts : wagers[e] # None /\ wagers[e].req.key = Req(c).key}

\* Fault: an external id counts as used only together with its key.
SameExtAndKey(c) ==
    {e \in Exts : /\ wagers[e] # None
                  /\ wagers[e].req.ext = Req(c).ext /\ wagers[e].req.key = Req(c).key}

SameExt(c) == {e \in Exts : wagers[e] # None /\ wagers[e].req.ext = Req(c).ext}

FindByIdempotency(c) == Find(c, "findKey", SameKey(c), Goto(c, "findExt"))
FindByBusiness(c)    == Find(c, "findExt", SameExt(c), Goto(c, "lockWallet"))

WalletNotFound(c) ==
    /\ pc[c] = "lockWallet"
    /\ Req(c).wallet \notin Wallets
    /\ ReplyWithoutEffect(c, Answer("NOT_FOUND"))

\* What a transaction reads of a wallet, without entries of its own yet.
Copy(w) == [wallets[w] EXCEPT !.ledger = << >>]

\* Fault: the wallet is read without waiting for its lock.
LockWalletNoWait(p, next) ==
    LET w == Req(p).wallet IN
    /\ pc[p] = "lockWallet"
    /\ w \in Wallets
    /\ walletLock' = [walletLock EXCEPT ![w] = p]
    /\ workWallets' = [workWallets EXCEPT ![p][w] = IF @ = None THEN Copy(w) ELSE @]
    /\ Goto(p, next)
    /\ UNCHANGED <<db, wagerLock, record, batch, verdict, workWagers, workEvents, reply>>

\* SELECT ... FOR UPDATE of the wallet of the record: waits for the lock.
LockWallet(p, next) ==
    LET w == Req(p).wallet IN
    /\ pc[p] = "lockWallet"
    /\ w \in Wallets
    /\ walletLock[w] \in {None, p}
    /\ walletLock' = [walletLock EXCEPT ![w] = p]
    /\ workWallets' = [workWallets EXCEPT ![p][w] = IF @ = None THEN Copy(w) ELSE @]
    /\ Goto(p, next)
    /\ UNCHANGED <<db, wagerLock, record, batch, verdict, workWagers, workEvents, reply>>

\* An uncommitted row of another transaction that has the same external id or
\* the same key: the insert waits for the end of that transaction.
InsertConflicts(c) ==
    {q \in Clients \ {c} : Inserting(q) /\ (Req(q).ext = Req(c).ext \/ Req(q).key = Req(c).key)}

\* Fault: the insert overwrites the row it conflicts with.
InsertOrReplace(c) ==
    /\ pc[c] = "insert"
    /\ InsertConflicts(c) = {}
    /\ Goto(c, "resolve")
    /\ UNCHANGED <<db, locks, record, batch, verdict, work, reply>>

\* INSERT ... ON CONFLICT DO NOTHING.
InsertWager(c) ==
    /\ pc[c] = "insert"
    /\ InsertConflicts(c) = {}
    /\ Goto(c, IF SameExt(c) \cup SameKey(c) = {} THEN "resolve" ELSE "refindKey")
    /\ UNCHANGED <<db, locks, record, batch, verdict, work, reply>>

\* The lookups after a conflicting insert.
RefindByIdempotency(c) == Find(c, "refindKey", SameKey(c), Goto(c, "refindExt"))
RefindByBusiness(c) ==
    /\ pc[c] = "refindExt"
    /\ \E e \in SameExt(c) : ReplyWithoutEffect(c, ReplayOrConflict(Req(c), wagers[e]))

\* The client gets the answer, or it is lost: the caller may send any request next.
ReceiveReply(c) ==
    /\ pc[c] = "reply"
    /\ Goto(c, "idle")
    /\ reply' = [reply EXCEPT ![c] = None]
    /\ UNCHANGED <<db, locks, record, batch, verdict, work>>

-----------------------------------------------------------------------------
(* A reference worker: processBatch.                                       *)

\* The rows ClaimPendingReferences may return: others' locks are skipped.
Claimable ==
    {e \in Exts : /\ wagers[e] # None
                  /\ wagers[e].status = "PENDING_REFERENCE"
                  /\ wagers[e].due
                  /\ wagerLock[e] = None}

Orderings(S) == {s \in [1..Cardinality(S) -> S] : \A e \in S : \E i \in DOMAIN s : s[i] = e}

\* The order by due time is abstracted to any order.
Claim(w) ==
    /\ pc[w] = "idle"
    /\ \E S \in (SUBSET Claimable) \ {{}} :
         /\ Cardinality(S) <= BatchSize
         /\ Cardinality(S) = BatchSize \/ S = Claimable
         /\ \E order \in Orderings(S) :
              /\ batch' = [batch EXCEPT ![w] = Tail(order)]
              /\ record' = [record EXCEPT ![w] = wagers[Head(order)]]
         /\ wagerLock' = [e \in Exts |-> IF e \in S THEN w ELSE wagerLock[e]]
    /\ Goto(w, "lockWallet")
    /\ UNCHANGED <<db, walletLock, verdict, work, reply>>

\* After one record of the batch comes the next, then the commit.
NextRecord(w) ==
    IF batch[w] = << >>
    THEN Goto(w, "commit") /\ UNCHANGED <<record, batch>>
    ELSE /\ Goto(w, "lockWallet")
         /\ record' = [record EXCEPT ![w] = wagers[Head(batch[w])]]
         /\ batch' = [batch EXCEPT ![w] = Tail(batch[w])]

-----------------------------------------------------------------------------
(* Both: applyWithPendingEvent.                                            *)

\* Fault: the transaction stays open until the reference appears.
ConcludeOrPoll(p, v) ==
    /\ verdict' = [verdict EXCEPT ![p] = v]
    /\ Goto(p, IF v = "REFERENCE_PENDING" THEN "resolve" ELSE "settle")

\* What is known about the reference; the outcome is next.
Conclude(p, v) ==
    /\ verdict' = [verdict EXCEPT ![p] = v]
    /\ Goto(p, "settle")

\* What FindReferenceForUpdate sees of p's reference: the row p itself has
\* inserted is PENDING, the uncommitted rows of others are not visible.
Reference(p) ==
    IF p \in Clients /\ Req(p).ref = Req(p).ext THEN record[p] ELSE View(p, Req(p).ref)

\* The wallet belongs to another player, or the transaction needs no reference.
SkipReference(p) ==
    /\ pc[p] = "resolve"
    /\ \/ /\ PlayerOf[Req(p).wallet] # Req(p).player
          /\ Conclude(p, "WALLET_MISMATCH")
       \/ /\ PlayerOf[Req(p).wallet] = Req(p).player
          /\ ~NeedsReference(Req(p))
          /\ Conclude(p, "resolved")
    /\ UNCHANGED <<db, locks, record, batch, work, reply>>

\* Fault: the reference is read without FOR UPDATE.
FindReferenceUnlocked(p) ==
    /\ pc[p] = "resolve"
    /\ PlayerOf[Req(p).wallet] = Req(p).player
    /\ NeedsReference(Req(p))
    /\ \/ /\ Reference(p) = None
          /\ Conclude(p, "REFERENCE_PENDING")
       \/ /\ Reference(p) # None
          /\ LET found == ReferenceVerdict(Req(p), Reference(p)) IN
             IF found = "resolved"
             THEN Goto(p, "reversal") /\ UNCHANGED verdict
             ELSE Conclude(p, found)
    /\ UNCHANGED <<db, locks, record, batch, work, reply>>

\* FindReferenceForUpdate and ValidateReference.
ResolveReference(p) ==
    LET ref == Req(p).ref IN
    /\ pc[p] = "resolve"
    /\ PlayerOf[Req(p).wallet] = Req(p).player
    /\ NeedsReference(Req(p))
    /\ \/ /\ Reference(p) = None
          /\ Conclude(p, "REFERENCE_PENDING")
          /\ UNCHANGED wagerLock
       \/ /\ Reference(p) # None
          /\ wagerLock[ref] \in {None, p}
          /\ wagerLock' = [wagerLock EXCEPT ![ref] = IF wagers[ref] = None THEN @ ELSE p]
          /\ LET found == ReferenceVerdict(Req(p), Reference(p)) IN
             IF found = "resolved"
             THEN Goto(p, "reversal") /\ UNCHANGED verdict
             ELSE Conclude(p, found)
    /\ UNCHANGED <<db, walletLock, record, batch, work, reply>>

\* Fault: the reversals processed earlier in the same batch are not seen.
CommittedReversals(p) ==
    {e \in Exts : /\ wagers[e] # None
                  /\ wagers[e].status = "PROCESSED"
                  /\ wagers[e].req.kind = Req(p).kind
                  /\ wagers[e].req.ref = Req(p).ref}

\* The processed rows of the same kind and reference that p sees.
SuccessfulReversals(p) ==
    {e \in Exts : LET row == View(p, e) IN
        /\ row # None
        /\ row.status = "PROCESSED"
        /\ row.req.kind = Req(p).kind
        /\ row.req.ref = Req(p).ref}

HasSuccessfulReversal(p) ==
    /\ pc[p] = "reversal"
    /\ Conclude(p, IF SuccessfulReversals(p) # {} THEN "DUPLICATE_REVERSAL" ELSE "resolved")
    /\ UNCHANGED <<db, locks, record, batch, work, reply>>

RefKind(p) == IF NeedsReference(Req(p)) THEN Reference(p).req.kind ELSE None
Dir(p)     == Direction(Req(p).kind, RefKind(p))

\* What p writes of its record: the row, the wallet and the events.
Write(p, row, wallet, events) ==
    /\ workWagers' = [workWagers EXCEPT ![p][Req(p).ext] = row]
    /\ workWallets' = [workWallets EXCEPT ![p][Req(p).wallet] = wallet]
    /\ workEvents' = [workEvents EXCEPT ![p] = @ \cup (events \X {Req(p).ext})]

\* p goes on after the write of its record.
Continue(p) ==
    /\ verdict' = [verdict EXCEPT ![p] = None]
    /\ IF p \in Clients
       THEN Goto(p, "commit") /\ UNCHANGED <<record, batch>>
       ELSE NextRecord(p)
    /\ UNCHANGED <<db, locks, reply>>

\* Fault: the reference is set only after the wallet has accepted the movement.
KeptIfAccepted(p) ==
    IF /\ verdict[p] = "resolved"
       /\ NeedsReference(Req(p))
       /\ Accepts(Wallet(p).balance, Dir(p), Req(p).amount)
    THEN Req(p).ref ELSE record[p].ref

\* The reference of the record.  One that passed its checks was set before the
\* movement was tried, and stays set when the wallet refuses it.
KeptReference(p) ==
    IF verdict[p] = "resolved" /\ NeedsReference(Req(p)) THEN Req(p).ref ELSE record[p].ref

\* The row after MarkProcessed, MarkPendingReference or Reject.  UpdateWager
\* clears the next attempt unless the row is pending; a first pending row is
\* due at once.
Outcome(p, status, code) ==
    [record[p] EXCEPT !.status = status, !.code = code, !.balance = Wallet(p).balance,
                      !.ref = KeptReference(p), !.due = FALSE]

\* The reason to refuse the transaction, None if there is none.
Refusal(p) ==
    IF verdict[p] # "resolved" THEN verdict[p]
    ELSE IF /\ Financial(Req(p).kind)
            /\ ~Accepts(Wallet(p).balance, Dir(p), Req(p).amount)
    THEN RefusalCode(Req(p).kind)
    ELSE None

\* The reference does not exist yet and the kind may wait for it.
Waits(p) == verdict[p] = "REFERENCE_PENDING" /\ Req(p).kind \in Reversals

Reject(p) ==
    /\ pc[p] = "settle"
    /\ ~Waits(p)
    /\ Refusal(p) # None
    /\ Write(p, Outcome(p, "REJECTED", Refusal(p)), Wallet(p), {"Rejected"})
    /\ Continue(p)

\* Debit or Credit, UpdateWallet (whose version predicate must hold),
\* InsertLedger, MarkProcessed and the events; a LOSS moves no money.
MarkProcessed(p) ==
    LET r == Req(p)
        moved == Move(Wallet(p), r.ext, Dir(p), r.amount)
        processed == Outcome(p, "PROCESSED", None)
    IN
    /\ pc[p] = "settle"
    /\ verdict[p] = "resolved"
    /\ Refusal(p) = None
    /\ IF Financial(r.kind)
       THEN Write(p, [processed EXCEPT !.balance = moved.balance], moved,
                  {"Processed", "BalanceChanged"})
       ELSE Write(p, processed, Wallet(p), {"Processed"})
    /\ Continue(p)

\* A client stores the transaction to be retried when its reference arrives.
MarkPendingReference(c) ==
    /\ c \in Clients
    /\ pc[c] = "settle"
    /\ Waits(c)
    /\ Write(c, [Outcome(c, "PENDING_REFERENCE", "REFERENCE_PENDING") EXCEPT !.due = TRUE],
             Wallet(c), {"PendingReference"})
    /\ Continue(c)

\* Faults: every retry tells the pending event again; the attempts are not
\* limited.
RetryWithEvent(w) ==
    /\ w \in Workers
    /\ pc[w] = "settle"
    /\ Waits(w)
    /\ record[w].attempts + 1 < MaxAttempts
    /\ Write(w, [Outcome(w, "PENDING_REFERENCE", "REFERENCE_PENDING") EXCEPT
                   !.attempts = @ + 1],
             Wallet(w), {"PendingReference"})
    /\ Continue(w)
RetryForever(w) ==
    /\ w \in Workers
    /\ pc[w] = "settle"
    /\ Waits(w)
    /\ Write(w, Outcome(w, "PENDING_REFERENCE", "REFERENCE_PENDING"), Wallet(w), {})
    /\ Continue(w)

\* A worker finds the reference still missing: one attempt more.
RetryLater(w) ==
    /\ w \in Workers
    /\ pc[w] = "settle"
    /\ Waits(w)
    /\ record[w].attempts + 1 < MaxAttempts
    /\ Write(w, [Outcome(w, "PENDING_REFERENCE", "REFERENCE_PENDING") EXCEPT
                   !.attempts = @ + 1],
             Wallet(w), {})
    /\ Continue(w)

\* ... or the attempts are used up, or the time to live has elapsed.
GiveUp(w) ==
    /\ w \in Workers
    /\ pc[w] = "settle"
    /\ Waits(w)
    /\ Write(w, [Outcome(w, "REJECTED", "REFERENCE_NOT_FOUND") EXCEPT
                   !.attempts = @ + 1],
             Wallet(w), {"Rejected"})
    /\ Continue(w)

-----------------------------------------------------------------------------
(* The end of a transaction, failures and time.                            *)

\* The row of the wallet overwrites the committed one, the entries of the
\* ledger are added to the committed ones.
Merged(committed, copy) ==
    [balance |-> copy.balance, version |-> copy.version,
     ledger |-> committed.ledger \o copy.ledger]

\* The writes of p become visible at once, its locks are released.
Commit(p) ==
    /\ pc[p] = "commit"
    /\ wallets' = [w \in Wallets |->
                     IF workWallets[p][w] # None THEN Merged(wallets[w], workWallets[p][w]) ELSE wallets[w]]
    /\ wagers' = [e \in Exts |-> View(p, e)]
    /\ outbox' = [t \in EventTypes |-> [e \in Exts |->
                     outbox[t][e] + IF <<t, e>> \in workEvents[p] THEN 1 ELSE 0]]
    /\ EndTransaction(p)
    /\ IF p \in Clients
       THEN /\ Goto(p, "reply")
            /\ reply' = [reply EXCEPT ![p] = Stored(workWagers[p][Req(p).ext])]
       ELSE Goto(p, "idle") /\ UNCHANGED reply

\* The transaction is rolled back; a client's caller gets an error.
Rollback(p) ==
    /\ EndTransaction(p)
    /\ Goto(p, "idle")
    /\ UNCHANGED <<db, reply>>

InTransaction(p) == pc[p] \notin {"idle", "reply"}

\* A statement fails, the connection drops or the process dies.
Abort(p) ==
    /\ Faults
    /\ InTransaction(p)
    /\ Rollback(p)

\* The transactions p waits for.
WaitsFor(p) ==
    IF pc[p] = "lockWallet" /\ Req(p).wallet \in Wallets
    THEN {walletLock[Req(p).wallet]} \ {None, p}
    ELSE IF pc[p] = "insert" THEN InsertConflicts(p)
    ELSE IF /\ pc[p] = "resolve"
            /\ PlayerOf[Req(p).wallet] = Req(p).player
            /\ NeedsReference(Req(p)) /\ Reference(p) # None
    THEN {wagerLock[Req(p).ref]} \ {None, p}
    ELSE {}

\* A set of transactions each of which waits for another one of the set.
Deadlocked(S) == S # {} /\ \A p \in S : WaitsFor(p) \cap S # {}

\* PostgreSQL aborts one transaction of a deadlock.
AbortDeadlockVictim(p) ==
    /\ \E S \in SUBSET Procs : p \in S /\ Deadlocked(S)
    /\ Rollback(p)

\* Time passes: the next attempt of a pending row becomes due.
MakeDue(e) ==
    /\ wagers[e] # None
    /\ wagers[e].status = "PENDING_REFERENCE"
    /\ ~wagers[e].due
    /\ wagers' = [wagers EXCEPT ![e].due = TRUE]
    /\ UNCHANGED <<wallets, outbox, locks, pc, record, batch, verdict, work, reply>>

\* The steps a process takes once it has something to do.
ClientStep(c) ==
    \/ FindByIdempotency(c) \/ FindByBusiness(c)
    \/ WalletNotFound(c) \/ LockWallet(c, "insert")
    \/ InsertWager(c) \/ RefindByIdempotency(c) \/ RefindByBusiness(c)
    \/ MarkPendingReference(c)
    \/ ReceiveReply(c)

WorkerStep(w) ==
    \/ Claim(w) \/ LockWallet(w, "resolve")
    \/ RetryLater(w) \/ GiveUp(w)

TransactionStep(p) ==
    \/ SkipReference(p) \/ ResolveReference(p) \/ HasSuccessfulReversal(p)
    \/ Reject(p) \/ MarkProcessed(p) \/ Commit(p)

Next ==
    \/ \E c \in Clients : (\E r \in Requests : Submit(c, r)) \/ ClientStep(c)
    \/ \E w \in Workers : WorkerStep(w)
    \/ \E p \in Procs : TransactionStep(p) \/ Abort(p) \/ AbortDeadlockVictim(p)
    \/ \E e \in Exts : MakeDue(e)

Spec == Init /\ [][Next]_vars

-----------------------------------------------------------------------------
(* Properties.                                                             *)

Labels   == {"idle", "findKey", "findExt", "lockWallet", "insert", "refindKey",
             "refindExt", "resolve", "reversal", "settle", "commit", "reply"}

\* Every variable has its type: the rows, wallets and locks of PostgreSQL and
\* the local variables of the handlers.
TypeOK ==
    /\ wallets \in [Wallets -> WalletSpace]
    /\ wagers \in [Exts -> Rows \cup {None}]
    /\ outbox \in [EventTypes -> [Exts -> Nat]]
    /\ walletLock \in [Wallets -> Procs \cup {None}]
    /\ wagerLock \in [Exts -> Procs \cup {None}]
    /\ pc \in [Procs -> Labels]
    /\ record \in [Procs -> Rows \cup {None}]
    /\ batch \in [Procs -> Seq(Exts)]
    /\ verdict \in [Procs -> Codes \cup {"resolved", None}]
    /\ workWallets \in [Procs -> [Wallets -> WalletSpace \cup {None}]]
    /\ workWagers \in [Procs -> [Exts -> Rows \cup {None}]]
    /\ workEvents \in [Procs -> SUBSET (EventTypes \X Exts)]
    /\ reply \in [Clients -> Replies \cup {None}]

\* The ledger explains the balance: every entry starts from the balance the
\* one before it left, none is negative, and the balance and the version of
\* the wallet are those after the last one.
LedgerExplains(w, wallet) ==
    LET n == Len(wallet.ledger) IN
    /\ wallet.version + Len(Opening(w)) = n + 1
    /\ wallet.balance = IF n = 0 THEN 0 ELSE wallet.ledger[n].after
    /\ \A i \in 1..n : LET entry == wallet.ledger[i] IN
         /\ entry.after = BalanceAfter(entry.before, entry.dir, entry.amount)
         /\ entry.before = IF i = 1 THEN 0 ELSE wallet.ledger[i - 1].after

\* The wallet row and its ledger agree, whatever runs concurrently: no update
\* of a wallet is lost and none escapes the ledger.
LedgerConsistent == \A w \in Wallets : LedgerExplains(w, wallets[w])

\* The ledger entries that record wager e.
EntriesOf(e) ==
    UNION {{w} \X {i \in DOMAIN wallets[w].ledger : wallets[w].ledger[i].ext = e} :
           w \in Wallets}

\* A wager moves money once if it is PROCESSED and not a LOSS, in its own
\* wallet and by its own amount, and never otherwise: whatever is sent twice,
\* raced, resumed by a worker or failed in between.
OneEffectPerWager ==
    \A e \in Exts :
        LET effective == /\ wagers[e] # None
                         /\ wagers[e].status = "PROCESSED"
                         /\ Financial(wagers[e].req.kind) IN
        /\ Cardinality(EntriesOf(e)) = IF effective THEN 1 ELSE 0
        /\ \A x \in EntriesOf(e) : LET entry == wallets[x[1]].ledger[x[2]] IN
             /\ x[1] = wagers[e].req.wallet
             /\ entry.amount = wagers[e].req.amount
             /\ wagers[e].balance = entry.after

\* The outbox tells what happened to each wager, once: the outcome event of a
\* final wager, BalanceChanged exactly with a ledger entry, and the pending
\* event at most once however often a worker retries.
EventsMatchOutcome ==
    \A e \in Exts :
        LET final(status) == wagers[e] # None /\ wagers[e].status = status
            once(b) == IF b THEN 1 ELSE 0 IN
        /\ outbox["Processed"][e] = once(final("PROCESSED"))
        /\ outbox["Rejected"][e] = once(final("REJECTED"))
        /\ outbox["BalanceChanged"][e] = once(EntriesOf(e) # {})
        /\ outbox["PendingReference"][e] \in
             IF final("PENDING_REFERENCE") THEN {1} ELSE {0, once(wagers[e] # None)}

\* What undoes wager e: the PROCESSED refunds and rollbacks that refer to it.
Undoings(e) ==
    {u \in Exts : /\ wagers[u] # None /\ wagers[u].status = "PROCESSED"
                  /\ wagers[u].req.kind \in Reversals /\ wagers[u].req.ref = e}

\* HasSuccessfulReversal is never outrun, by clients, workers or the other rows
\* of a batch, so the unique index on successful reversals never has to fire: a
\* wager is undone at most once by each kind of reversal.  It is undone twice only
\* when it is a bet that was both refunded and rolled back, which nothing prevents.
UndoneOncePerKind ==
    \A e \in Exts : \A u, v \in Undoings(e) :
        u = v \/ /\ wagers[e].req.kind = "BET"
                 /\ wagers[u].req.kind # wagers[v].req.kind

\* A transaction works on a wallet only under its row lock, and its copy is
\* ahead of the committed row by its own movements: the version predicate of
\* UpdateWallet, the second line of defence against a lost update, never has
\* to refuse one.
LockedCopiesFresh ==
    \A p \in Procs, w \in Wallets : workWallets[p][w] # None =>
        /\ walletLock[w] = p
        /\ workWallets[p][w].version = wallets[w].version + Len(workWallets[p][w].ledger)

\* A PROCESSED refund or rollback undoes what it refers to: earlier in the
\* same ledger the reference moved the same amount in the opposite direction.
ReversalUndoesReference ==
    \A e \in Exts :
        (wagers[e] # None /\ wagers[e].status = "PROCESSED"
            /\ wagers[e].req.kind \in Reversals) =>
        LET ledger == wallets[wagers[e].req.wallet].ledger IN
        \E j \in DOMAIN ledger : \E i \in 1..(j - 1) :
            /\ ledger[j].ext = e /\ ledger[i].ext = wagers[e].req.ref
            /\ ledger[j].amount = ledger[i].amount /\ ledger[j].dir # ledger[i].dir

\* What a client is told is the committed outcome of its own payload, and it
\* stays true: only a pending answer may be overtaken, by the worker.
AnswersHold ==
    \A c \in Clients : pc[c] = "reply" /\ reply[c].outcome = "stored" =>
        LET told == reply[c].row
            row  == wagers[told.req.ext] IN
        /\ row # None /\ row.req = told.req
        /\ told.status = "PENDING_REFERENCE" \/ row = told

\* A replay only ever answers the payload that was stored (CONFLICT for any
\* other one under the same key or external id).
ReplayIsFaithful ==
    [][\A c \in Clients :
         pc[c] # "reply" /\ pc'[c] = "reply" /\ reply'[c].outcome = "stored"
            => PayloadHash(reply'[c].row.req) = PayloadHash(Req(c))]_vars

\* A final wager never changes again, and a wager never leaves the table.
FinalRowsImmutable ==
    [][\A e \in Exts : wagers[e] # None =>
         IF wagers[e].status \in Open
         THEN wagers'[e] # None /\ wagers'[e].req = wagers[e].req
         ELSE wagers'[e] = wagers[e]]_vars

\* Clients among themselves never deadlock: each takes the lock of a wallet,
\* then waits for an insert, then for one reference row, in this order.
ClientsNeverDeadlock == ~\E S \in SUBSET Clients : Deadlocked(S)

-----------------------------------------------------------------------------
(* Liveness.                                                               *)

\* A process keeps running (weak fairness).  PostgreSQL queues the waiters of
\* a row lock, so a waiter whose lock is released again and again gets it
\* (strong fairness), and it looks for deadlocks.  Nothing forces a client to
\* submit, a transaction to fail or a worker to give up early.
Fairness ==
    /\ \A c \in Clients : WF_vars(ClientStep(c)) /\ SF_vars(LockWallet(c, "insert"))
    /\ \A w \in Workers : WF_vars(WorkerStep(w)) /\ SF_vars(LockWallet(w, "resolve"))
    /\ \A p \in Procs : /\ WF_vars(TransactionStep(p))
                        /\ SF_vars(ResolveReference(p))
                        /\ WF_vars(AbortDeadlockVictim(p))
    /\ \A e \in Exts : WF_vars(MakeDue(e))

FairSpec == Spec /\ Fairness

\* Every pending wager gets its final status: its reference arrives or the
\* attempts are used up, even when workers and clients deadlock on the way.
PendingIsResolved ==
    \A e \in Exts : (wagers[e] # None /\ wagers[e].status = "PENDING_REFERENCE")
                     ~> (wagers[e] # None /\ wagers[e].status \notin Open)

\* Every transaction a client starts ends, with an answer or an error.
EveryRequestEnds == \A c \in Clients : (pc[c] = "findKey") ~> ~InTransaction(c)
=============================================================================
