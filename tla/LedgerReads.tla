----------------------------- MODULE LedgerReads -----------------------------
(***************************************************************************)
(* What is read back from the ledger of one wallet while transactions add  *)
(* to it: the reconciliation of the balance with the ledger, and the pages *)
(* of the ledger a client walks through with a cursor.                     *)
(*                                                                         *)
(* Both reads order the entries by (created_at, id).  created_at is now(), *)
(* which PostgreSQL fixes when the transaction begins; id is a random      *)
(* UUID.  Neither follows the order in which the wallet lock was held.     *)
(*                                                                         *)
(* The writers stand for every transaction that moves the balance: a wager *)
(* (one entry) or a batch of the reference worker (several).  They take    *)
(* the wallet lock, add entries and commit; Wagering models how they       *)
(* decide to.                                                              *)
(***************************************************************************)
EXTENDS WagerDomain, FiniteSets, SequencesExt

CONSTANTS
    Writers,     \* transactions that move the balance
    Reconciler,  \* the transaction of the reconciliation
    Ids,         \* entry ids, ordered as the column is; a bound on the entries
    Openings,    \* opening balances the wallet may be created with
    Amounts,     \* amounts of the movements
    Limit        \* the page size

ASSUME LedgerReadsAssumption ==
    /\ Reconciler \notin Writers
    /\ None \notin Writers \cup {Reconciler}
    /\ Ids \subseteq Nat
    /\ Openings \subseteq 0 .. MaxMoney
    /\ Amounts \subseteq Nat \ {0}
    /\ Limit \in Nat \ {0}

VARIABLES
    clock,    \* the time of the database server
    balance,  \* the committed balance of the wallet
    ledger,   \* the committed entries, in the order they were written
    lock,     \* who holds the row lock of the wallet
    tx,       \* per writer: its state, its start time and its own entries
    audit,    \* the reconciliation: its state and the figures it read
    paging    \* the walk through the pages

vars == <<clock, balance, ledger, lock, tx, audit, paging>>

Row == [stamp : Nat, id : Ids, after : 0 .. MaxMoney]

ASSUME RowAssumption == None \notin Row

NoTx     == [pc |-> "begin", stamp |-> 0, wrote |-> << >>]
NoAudit  == [pc |-> "idle", stored |-> 0, calculated |-> 0, entries |-> 0]

\* shown: what the client was given; cursor: the row its next cursor names;
\* committed: the rows that were committed when it read its first page;
\* cursors: the rows its cursors have named so far.
NoPaging == [done |-> FALSE, shown |-> << >>, cursor |-> None,
             committed |-> {}, cursors |-> {}]

TypeOK ==
    /\ clock \in Nat
    /\ balance \in 0 .. MaxMoney
    /\ ledger \in Seq(Row)
    /\ lock \in Writers \cup {Reconciler, None}
    /\ tx \in [Writers -> [pc : {"begin", "lock", "write", "end"}, stamp : Nat,
                           wrote : Seq(Row)]]
    /\ audit \in [pc : {"idle", "compare", "done"}, stored : 0 .. MaxMoney,
                  calculated : 0 .. MaxMoney, entries : Nat]
    /\ paging \in [done : BOOLEAN, shown : Seq(Row), cursor : Row \cup {None},
                   committed : SUBSET Row, cursors : SUBSET Row]

\* A wallet with money is created together with its opening entry.
Init ==
    /\ clock = 0
    /\ balance \in Openings
    /\ \E id \in Ids : ledger = IF balance = 0 THEN << >>
                                ELSE <<[stamp |-> 0, id |-> id, after |-> balance]>>
    /\ lock = None
    /\ tx = [t \in Writers |-> NoTx]
    /\ audit = NoAudit
    /\ paging = NoPaging

-----------------------------------------------------------------------------
(* The order of the entries.                                               *)

Newer(a, b) == a.stamp > b.stamp \/ (a.stamp = b.stamp /\ a.id > b.id)

\* The entries of a set, newest first.
Sorted(entries) ==
    CHOOSE s \in SetToSeqs(entries) : \A i, j \in DOMAIN s : i < j => Newer(s[i], s[j])

Committed == ToSet(ledger)

\* balance_after of the newest entry, 0 when there is none.
LedgerBalance ==
    IF ledger = << >> THEN 0
    ELSE (CHOOSE e \in Committed : \A f \in Committed \ {e} : Newer(e, f)).after

-----------------------------------------------------------------------------
(* The writers.                                                            *)

UsedIds == {e.id : e \in Committed}
           \cup UNION {{e.id : e \in ToSet(tx[t].wrote)} : t \in Writers}

\* The balance writer t works on.
Working(t) == IF tx[t].wrote = << >> THEN balance ELSE Last(tx[t].wrote).after

\* Two transactions may begin within the same microsecond.
Begin(t) ==
    /\ tx[t].pc = "begin"
    /\ clock' \in {clock, clock + 1}
    /\ tx' = [tx EXCEPT ![t].pc = "lock", ![t].stamp = clock']
    /\ UNCHANGED <<balance, ledger, lock, audit, paging>>

LockWallet(t) ==
    /\ tx[t].pc = "lock"
    /\ lock = None
    /\ lock' = t
    /\ tx' = [tx EXCEPT ![t].pc = "write"]
    /\ UNCHANGED <<clock, balance, ledger, audit, paging>>

\* Fault: a debit does not look at the balance.
AppendUnchecked(t) ==
    /\ tx[t].pc = "write"
    /\ \E dir \in {"CREDIT", "DEBIT"}, amount \in Amounts, id \in Ids \ UsedIds :
        tx' = [tx EXCEPT ![t].wrote = Append(@,
                 [stamp |-> tx[t].stamp, id |-> id,
                  after |-> BalanceAfter(Working(t), dir, amount)])]
    /\ UNCHANGED <<clock, balance, ledger, lock, audit, paging>>

\* UpdateWallet and InsertLedger of one movement.
AppendEntry(t) ==
    /\ tx[t].pc = "write"
    /\ \E dir \in {"CREDIT", "DEBIT"}, amount \in Amounts, id \in Ids \ UsedIds :
        /\ Accepts(Working(t), dir, amount)
        /\ tx' = [tx EXCEPT ![t].wrote = Append(@,
                    [stamp |-> tx[t].stamp, id |-> id,
                     after |-> BalanceAfter(Working(t), dir, amount)])]
    /\ UNCHANGED <<clock, balance, ledger, lock, audit, paging>>

Commit(t) ==
    /\ tx[t].pc = "write"
    /\ tx' = [tx EXCEPT ![t] = [NoTx EXCEPT !.pc = "end"]]
    /\ ledger' = ledger \o tx[t].wrote
    /\ balance' = Working(t)
    /\ lock' = None
    /\ UNCHANGED <<clock, audit, paging>>

Rollback(t) ==
    /\ tx[t].pc \in {"lock", "write"}
    /\ tx' = [tx EXCEPT ![t] = [NoTx EXCEPT !.pc = "end"]]
    /\ lock' = IF lock = t THEN None ELSE lock
    /\ UNCHANGED <<clock, balance, ledger, audit, paging>>

-----------------------------------------------------------------------------
(* The reconciliation.                                                     *)

\* Fault: the balance is read without waiting for the row lock.
ReadStoredBalance ==
    /\ audit.pc = "idle"
    /\ audit' = [audit EXCEPT !.pc = "compare", !.stored = balance]
    /\ UNCHANGED <<clock, balance, ledger, lock, tx, paging>>

LockStoredBalance ==
    /\ audit.pc = "idle"
    /\ lock = None
    /\ lock' = Reconciler
    /\ audit' = [audit EXCEPT !.pc = "compare", !.stored = balance]
    /\ UNCHANGED <<clock, balance, ledger, tx, paging>>

Compare ==
    /\ audit.pc = "compare"
    /\ audit' = [audit EXCEPT !.pc = "done", !.calculated = LedgerBalance,
                              !.entries = Len(ledger)]
    /\ lock' = IF lock = Reconciler THEN None ELSE lock
    /\ UNCHANGED <<clock, balance, ledger, tx, paging>>

Consistent == audit.stored = audit.calculated

-----------------------------------------------------------------------------
(* The pages.                                                              *)

\* Fault: the cursor compares the timestamps alone.
BeyondTime(cursor, e) == cursor # None => cursor.stamp > e.stamp

\* The rows a page may hold: all, or those older than the one the cursor names.
Beyond(cursor, e) == cursor # None => Newer(cursor, e)

\* Fault: the page is found by its offset.
PageByOffset(cursor) ==
    LET sorted == Sorted(Committed)
        first  == Len(paging.shown) + 1
    IN SubSeq(sorted, first, IF Len(sorted) > first + Limit THEN first + Limit
                             ELSE Len(sorted))

\* The rows a page query returns, newest first: at most Limit + 1 of those
\* beyond the cursor.
Page(cursor) ==
    LET sorted == Sorted({e \in Committed : Beyond(cursor, e)})
    IN SubSeq(sorted, 1, IF Len(sorted) > Limit THEN Limit + 1 ELSE Len(sorted))

\* The handler gives out the first Limit rows; the row after them becomes the
\* next cursor.  Without one this is the last page.
ReadPage ==
    /\ ~paging.done
    /\ LET rows == Page(paging.cursor)
           more == Len(rows) > Limit
           next == IF more THEN rows[Limit + 1] ELSE None
       IN paging' = [done      |-> ~more,
                     shown     |-> paging.shown \o (IF more THEN Front(rows) ELSE rows),
                     cursor    |-> next,
                     committed |-> IF paging = NoPaging THEN Committed
                                   ELSE paging.committed,
                     cursors   |-> IF more THEN paging.cursors \cup {next}
                                   ELSE paging.cursors]
    /\ UNCHANGED <<clock, balance, ledger, lock, tx, audit>>

-----------------------------------------------------------------------------

Next ==
    \/ \E t \in Writers : \/ Begin(t) \/ LockWallet(t) \/ AppendEntry(t)
                          \/ Commit(t) \/ Rollback(t)
    \/ LockStoredBalance \/ Compare
    \/ ReadPage

Spec == Init /\ [][Next]_vars

-----------------------------------------------------------------------------
(* Properties.                                                             *)

\* The README: "Reconciliation only compares the wallet balance with the
\* append-only ledger."  Every balance is written together with its entry, so
\* the comparison should never report a difference.
ReconciliationAgrees == audit.pc = "done" => Consistent

\* A difference is reported only when the last entry written is not the newest
\* one: the wallet lock keeps the balance and the entries the reconciliation
\* reads of one moment, whatever commits around it.
AlarmsExplained ==
    audit.pc = "done" /\ ~Consistent =>
        \E i \in 1 .. audit.entries - 1 : Newer(ledger[i], ledger[audit.entries])

\* The README: "Use the nextCursor returned by the response for the next page".
\* A client that follows the cursors to the end has seen every entry that was
\* there when it began.
PagesAreComplete == paging.done => paging.committed \subseteq ToSet(paging.shown)

\* Following the cursors never shows an entry twice, and always older ones,
\* while entries are being added.
PagesDescend ==
    \A i, j \in DOMAIN paging.shown : i < j => Newer(paging.shown[i], paging.shown[j])

\* The entries a finished walk missed, of those that were there when it began,
\* are those its own cursors named: one for each page boundary.
MissesExplained ==
    paging.done => paging.committed \ ToSet(paging.shown) \subseteq paging.cursors

\* What a client sees that follows the cursors.
WalkExplained == TypeOK /\ PagesDescend /\ MissesExplained
=============================================================================
