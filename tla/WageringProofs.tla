--------------------------- MODULE WageringProofs ---------------------------
(***************************************************************************)
(* Theorems about Wagering, for any number of clients, workers, wallets    *)
(* and requests: its types, its ledgers, and what becomes of a wager (one  *)
(* effect, one outcome, the events and the answers that tell it, what      *)
(* refers to it); that clients never deadlock among themselves; and that   *)
(* Wagering implements Settlement.                                         *)
(*                                                                         *)
(* TypeInv adds to the types what each place in the code implies.          *)
(* LedgerInv says that the committed ledger of a wallet, followed by the   *)
(* entries of a transaction's copy, explains the copy's balance.  RowInv   *)
(* says who may write a row: the client whose insert went through,         *)
(* while the table has no row of that id or key, or the worker that has    *)
(* the lock of a waiting row.  So a commit changes no row that is final,   *)
(* and two transactions never write the same one.  EffectInv says that     *)
(* what a transaction has written so far (its rows, ledger entries and     *)
(* events) agrees in itself, as the committed tables do: a commit puts     *)
(* the two together.  ReversalInv says that a process still sees the       *)
(* reference it has found, and no other reversal of it.  SerialInv says    *)
(* that what it has written is a chain of attempts, each on the state the  *)
(* one before it left, which is why a commit is a step of Settlement.      *)
(***************************************************************************)
EXTENDS WageringRefinement, TLAPS, SequenceTheorems, FiniteSetTheorems,
        WellFoundedInduction

\* Where a process is tells what it has: clients and workers keep to their own
\* steps; a transaction has a record until it commits, a copy of its wallet
\* once it holds the lock, and knows about the reference before it settles.  A
\* worker's batch holds rows of the table.
ControlInv ==
    /\ \A w \in Workers : pc[w] \in {"idle", "lockWallet", "resolve", "reversal",
                                   "settle", "commit"}
    /\ \A p \in Procs :
         /\ pc[p] \notin {"idle", "reply", "commit"} => record[p] # None
         /\ pc[p] \in {"resolve", "reversal", "settle"} =>
               /\ Req(p).wallet \in Wallets
               /\ Wallet(p) # None
         /\ pc[p] = "settle" => verdict[p] # None
         /\ \A i \in DOMAIN batch[p] : wagers[batch[p][i]] # None
    /\ \A c \in Clients :
         /\ pc[c] \notin {"idle", "reply"} => record[c] # None
         /\ pc[c] \in {"insert", "refindKey", "refindExt"} =>
               Req(c).wallet \in Wallets /\ Wallet(c) # None
         /\ pc[c] = "reply" => reply[c] # None

TypeInv == TypeOK /\ ControlInv

\* The facts about the constants that the proofs below use.
LEMMA RequestType ==
    ASSUME NEW r \in Requests
    PROVE  /\ r.ext \in Exts /\ r.amount \in Nat
           /\ r.ref \in Exts \cup {None}
           /\ r.kind \in ExternalKinds
BY WageringAssumption DEF RequestSpace

LEMMA NewRecordType ==
    ASSUME NEW r \in Requests
    PROVE  NewRecord(r) \in Rows /\ NewRecord(r) # None
<1>1. NewRecord(r) \in Rows
  BY DEF NewRecord, Rows, Statuses
<1>2. QED
  BY <1>1, NoneAssumption

\* A movement the wallet accepts leaves a wallet whose ledger has one entry more.
LEMMA MoveType ==
    ASSUME NEW wallet \in WalletSpace, NEW ext \in Exts, NEW amount \in Nat,
           NEW dir \in {"DEBIT", "CREDIT"}, Accepts(wallet.balance, dir, amount)
    PROVE  Move(wallet, ext, dir, amount) \in WalletSpace
<1>1. wallet.balance \in 0..MaxMoney /\ wallet.version \in Nat /\ wallet.ledger \in Seq(Entries)
  BY DEF WalletSpace
<1>2. BalanceAfter(wallet.balance, dir, amount) \in 0..MaxMoney
  BY <1>1, MaxMoneyAssumption DEF Accepts, BalanceAfter
<1>3. Entry(ext, dir, amount, wallet.balance) \in Entries
  BY <1>1, <1>2, MaxMoneyAssumption DEF Entry, Entries
<1>4. Append(wallet.ledger, Entry(ext, dir, amount, wallet.balance)) \in Seq(Entries)
  BY <1>1, <1>3
<1>5. QED
  BY <1>1, <1>2, <1>4 DEF Move, WalletSpace

LEMMA InitType == Init => TypeInv
<1> SUFFICES ASSUME Init PROVE TypeInv
  OBVIOUS
<1>1. ASSUME NEW w \in Wallets PROVE Opening(w) \in Seq(Entries)
  <2>1. OpeningBalance[w] \in Nat
    BY WageringAssumption, MaxMoneyAssumption
  <2>2. Entry(None, "CREDIT", OpeningBalance[w], 0) \in Entries
    BY <2>1 DEF Entry, Entries, BalanceAfter
  <2>3. QED
    BY <2>2 DEF Opening
<1>2. TypeOK
  BY <1>1, WageringAssumption, MaxMoneyAssumption DEF Init, TypeOK, WalletSpace, Labels
<1>3. \A p \in Procs : pc[p] = "idle" /\ DOMAIN batch[p] = {}
  BY DEF Init
<1>4. ControlInv
  BY <1>3 DEF ControlInv, Procs
<1>5. QED
  BY <1>2, <1>4 DEF TypeInv

LEMMA EndType ==
    ASSUME TypeInv, NEW p \in Procs, EndTransaction(p)
    PROVE  /\ walletLock' \in [Wallets -> Procs \cup {None}]
           /\ wagerLock' \in [Exts -> Procs \cup {None}]
           /\ record' \in [Procs -> Rows \cup {None}]
           /\ batch' \in [Procs -> Seq(Exts)]
           /\ verdict' \in [Procs -> Codes \cup {"resolved", None}]
           /\ workWallets' \in [Procs -> [Wallets -> WalletSpace \cup {None}]]
           /\ workWagers' \in [Procs -> [Exts -> Rows \cup {None}]]
           /\ workEvents' \in [Procs -> SUBSET (EventTypes \X Exts)]
BY DEF EndTransaction, TypeInv, TypeOK

-----------------------------------------------------------------------------
(* Each action preserves TypeInv.                                          *)

LEMMA RollbackType ==
    ASSUME TypeInv, NEW p \in Procs, Rollback(p)
    PROVE  TypeInv'
<1> USE DEF Rollback
<1>1. TypeOK'
  BY EndType DEF Goto, TypeInv, TypeOK, Labels, db
<1>2. ControlInv'
  BY DEF EndTransaction, Goto, TypeInv, TypeOK, ControlInv, db, Req, Wallet
<1>3. QED
  BY <1>1, <1>2 DEF TypeInv

LEMMA ReplyType ==
    ASSUME TypeInv, NEW c \in Clients, NEW answer \in Replies,
           ReplyWithoutEffect(c, answer)
    PROVE  TypeInv'
<1> USE DEF ReplyWithoutEffect, Procs
<1>1. TypeOK'
  BY EndType DEF Goto, TypeInv, TypeOK, Labels, db
<1>2. ControlInv'
  BY WageringAssumption, NoneAssumption
     DEF EndTransaction, Goto, TypeInv, TypeOK, ControlInv, db, Req, Wallet
<1>3. QED
  BY <1>1, <1>2 DEF TypeInv

LEMMA FindType ==
    ASSUME TypeInv, NEW c \in Clients, NEW here, NEW hits \in SUBSET Exts, NEW next,
           Find(c, here, hits, Goto(c, next)),
           <<here, next>> \in {<<"findKey", "findExt">>, <<"findExt", "lockWallet">>,
                              <<"refindKey", "refindExt">>},
           \A e \in hits : wagers[e] # None
    PROVE  TypeInv'
<1>1. CASE \E e \in hits : ReplyWithoutEffect(c, ReplayOrConflict(Req(c), wagers[e]))
  <2>1. PICK e \in hits : ReplyWithoutEffect(c, ReplayOrConflict(Req(c), wagers[e]))
    BY <1>1
  <2>2. ReplayOrConflict(Req(c), wagers[e]) \in Replies
    BY DEF ReplayOrConflict, Stored, Answer, Replies, TypeInv, TypeOK
  <2>3. QED
    BY <2>1, <2>2, ReplyType
<1>2. CASE Goto(c, next) /\ UNCHANGED <<db, locks, record, batch, verdict, work, reply>>
  <2>1. pc[c] = here
    BY DEF Find
  <2>2. TypeOK'
    BY <1>2 DEF Goto, TypeInv, TypeOK, Labels, db, locks, work
  <2>3. ControlInv'
    BY <1>2, <2>1, WageringAssumption
       DEF Goto, TypeInv, TypeOK, ControlInv, db, locks, work, Req, Wallet, Procs
  <2>4. QED
    BY <2>2, <2>3 DEF TypeInv
<1>3. QED
  BY <1>1, <1>2 DEF Find

LEMMA SubmitType ==
    ASSUME TypeInv, NEW c \in Clients, NEW r \in Requests, Submit(c, r)
    PROVE  TypeInv'
<1> USE DEF Submit, Procs
<1>1. Answer("INVALID") \in Replies
  BY DEF Answer, Replies
<1>2. NewRecord(r) \in Rows /\ NewRecord(r) # None /\ Answer("INVALID") # None
  BY <1>1, NewRecordType, NoneAssumption
<1>3. TypeOK'
  BY <1>1, <1>2 DEF Goto, TypeInv, TypeOK, Labels, db, locks, work
<1>4. \A q \in Procs : q # c => /\ pc'[q] = pc[q] /\ record'[q] = record[q]
  BY DEF Goto, TypeInv, TypeOK
<1>5. \/ pc'[c] = "findKey" /\ record'[c] = NewRecord(r)
      \/ pc'[c] = "reply" /\ reply'[c] = Answer("INVALID")
  BY DEF Goto, TypeInv, TypeOK
<1>6. \A d \in Clients : d # c => reply'[d] = reply[d]
  BY DEF TypeInv, TypeOK
<1>7. UNCHANGED <<wagers, batch, verdict, workWallets>>
  BY DEF db, work
<1>8. ControlInv'
  BY <1>2, <1>4, <1>5, <1>6, <1>7, WageringAssumption
     DEF TypeInv, ControlInv, Req, Wallet
<1>9. QED
  BY <1>3, <1>8 DEF TypeInv

LEMMA CopyType ==
    ASSUME TypeInv, NEW w \in Wallets
    PROVE  Copy(w) \in WalletSpace /\ Copy(w) # None
<1>1. wallets[w] \in WalletSpace
  BY DEF TypeInv, TypeOK
<1>2. << >> \in Seq(Entries)
  OBVIOUS
<1>3. Copy(w) \in WalletSpace
  BY <1>1, <1>2 DEF WalletSpace, Copy
<1>4. QED
  BY <1>3, NoneAssumption

LEMMA LockWalletType ==
    ASSUME TypeInv, NEW p \in Procs, NEW next, LockWallet(p, next),
           \/ p \in Clients /\ next = "insert"
           \/ p \in Workers /\ next = "resolve"
    PROVE  TypeInv'
<1> USE DEF LockWallet
<1>1. TypeOK'
  <2> DEFINE w == Req(p).wallet
  <2>1. w \in Wallets /\ Copy(w) \in WalletSpace
    BY CopyType
  <2>2. walletLock' \in [Wallets -> Procs \cup {None}]
    BY DEF TypeInv, TypeOK
  <2>3. workWallets' \in [Procs -> [Wallets -> WalletSpace \cup {None}]]
    BY <2>1 DEF TypeInv, TypeOK
  <2>4. pc' \in [Procs -> Labels]
    BY DEF Goto, TypeInv, TypeOK, Labels
  <2>5. QED
    BY <2>2, <2>3, <2>4 DEF TypeInv, TypeOK, db
<1>2. ControlInv'
  <2> DEFINE w == Req(p).wallet
  <2>1. w \in Wallets /\ Copy(w) # None
    BY CopyType
  <2>2. /\ pc'[p] = next /\ Wallet(p)' # None
        /\ UNCHANGED <<wagers, record, batch, verdict, reply>>
    BY <2>1 DEF Goto, TypeInv, TypeOK, Wallet, Req, db
  <2>3. \A q \in Procs : q # p => pc'[q] = pc[q] /\ workWallets'[q] = workWallets[q]
    BY DEF Goto, TypeInv, TypeOK
  <2>4. record[p] # None
    BY DEF TypeInv, ControlInv
  <2>5. ASSUME NEW q \in Procs
        PROVE  /\ pc'[q] \notin {"idle", "reply", "commit"} => record'[q] # None
               /\ pc'[q] \in {"resolve", "reversal", "settle"} =>
                     Req(q)'.wallet \in Wallets /\ Wallet(q)' # None
               /\ pc'[q] = "settle" => verdict'[q] # None
               /\ \A i \in DOMAIN batch'[q] : wagers'[batch'[q][i]] # None
    <3>1. CASE q = p
      BY <2>1, <2>2, <2>4, <3>1 DEF TypeInv, ControlInv, Req
    <3>2. CASE q # p
      BY <2>2, <2>3, <3>2 DEF TypeInv, ControlInv, Req, Wallet
    <3>3. QED
      BY <3>1, <3>2
  <2>6. ASSUME NEW c \in Clients
        PROVE  /\ pc'[c] \notin {"idle", "reply"} => record'[c] # None
               /\ pc'[c] \in {"insert", "refindKey", "refindExt"} =>
                     Req(c)'.wallet \in Wallets /\ Wallet(c)' # None
               /\ pc'[c] = "reply" => reply'[c] # None
    <3>1. CASE c = p
      BY <2>1, <2>2, <2>4, <3>1 DEF TypeInv, ControlInv, Req
    <3>2. CASE c # p
      BY <2>2, <2>3, <3>2 DEF TypeInv, ControlInv, Req, Wallet, Procs
    <3>3. QED
      BY <3>1, <3>2
  <2>7. \A v \in Workers : pc'[v] \in {"idle", "lockWallet", "resolve", "reversal", "settle", "commit"}
    BY <2>2, <2>3, WageringAssumption DEF TypeInv, ControlInv, Procs
  <2>8. QED
    BY <2>5, <2>6, <2>7 DEF ControlInv
<1>3. QED
  BY <1>1, <1>2 DEF TypeInv

LEMMA InsertType ==
    ASSUME TypeInv, NEW c \in Clients, InsertWager(c)
    PROVE  TypeInv'
<1> USE DEF InsertWager, Procs
<1>1. TypeOK'
  BY DEF Goto, TypeInv, TypeOK, Labels, db, locks, work
<1>2. ControlInv'
  BY WageringAssumption
     DEF Goto, TypeInv, TypeOK, ControlInv, db, locks, work, Req, Wallet
<1>3. QED
  BY <1>1, <1>2 DEF TypeInv

LEMMA ReceiveType ==
    ASSUME TypeInv, NEW c \in Clients, ReceiveReply(c)
    PROVE  TypeInv'
<1> USE DEF ReceiveReply, Procs
<1>1. TypeOK'
  BY DEF Goto, TypeInv, TypeOK, Labels, db, locks, work
<1>2. ControlInv'
  BY WageringAssumption
     DEF Goto, TypeInv, TypeOK, ControlInv, db, locks, work, Req, Wallet
<1>3. QED
  BY <1>1, <1>2 DEF TypeInv

LEMMA VerdictIsSomething == \A v \in Codes \cup {"resolved"} : v # None
BY NoneAssumption

\* A process that has concluded about its reference has all it needs to settle.
LEMMA ConcludeControl ==
    ASSUME TypeInv, NEW p \in Procs, NEW v \in Codes \cup {"resolved"}, Conclude(p, v),
           pc[p] \in {"resolve", "reversal"},
           UNCHANGED <<wagers, record, batch, workWallets, reply>>
    PROVE  ControlInv'
<1>1. pc'[p] = "settle" /\ verdict'[p] # None
  BY VerdictIsSomething DEF Conclude, Goto, TypeInv, TypeOK
<1>2. \A q \in Procs : q # p => pc'[q] = pc[q] /\ verdict'[q] = verdict[q]
  BY DEF Conclude, Goto, TypeInv, TypeOK
<1>3. QED
  BY <1>1, <1>2, WageringAssumption DEF TypeInv, ControlInv, Req, Wallet, Procs

LEMMA SkipReferenceType ==
    ASSUME TypeInv, NEW p \in Procs, SkipReference(p)
    PROVE  TypeInv'
<1> USE DEF SkipReference, Conclude
<1>1. TypeOK'
  BY DEF Goto, TypeInv, TypeOK, Labels, Codes, db, locks, work
<1>2. PICK v \in Codes \cup {"resolved"} : Conclude(p, v)
  BY DEF Codes
<1>3. ControlInv'
  BY <1>2, ConcludeControl DEF db, work
<1>4. QED
  BY <1>1, <1>3 DEF TypeInv

LEMMA ReversalType ==
    ASSUME TypeInv, NEW p \in Procs, HasSuccessfulReversal(p)
    PROVE  TypeInv'
<1> USE DEF HasSuccessfulReversal, Conclude
<1>1. TypeOK'
  BY DEF Goto, TypeInv, TypeOK, Labels, Codes, db, locks, work
<1>2. PICK v \in Codes \cup {"resolved"} : Conclude(p, v)
  BY DEF Codes
<1>3. ControlInv'
  BY <1>2, ConcludeControl DEF db, work
<1>4. QED
  BY <1>1, <1>3 DEF TypeInv

LEMMA ResolveType ==
    ASSUME TypeInv, NEW p \in Procs, ResolveReference(p)
    PROVE  TypeInv'
<1>1. PICK v \in {"REFERENCE_PENDING", "REFERENCE_NOT_PROCESSED", "REFERENCE_MISMATCH",
                  "INVALID_OPERATION"} :
        \/ Conclude(p, v)
        \/ Goto(p, "reversal") /\ UNCHANGED verdict
  BY DEF ResolveReference, ReferenceVerdict
<1>2. pc[p] = "resolve" /\ UNCHANGED <<db, walletLock, record, batch, work, reply>>
  BY DEF ResolveReference
<1>3. wagerLock' \in [Exts -> Procs \cup {None}]
  BY DEF ResolveReference, TypeInv, TypeOK
<1>4. TypeOK'
  BY <1>1, <1>2, <1>3 DEF Conclude, Goto, TypeInv, TypeOK, Labels, Codes, db, work
<1>5. CASE Conclude(p, v)
  BY <1>2, <1>4, <1>5, ConcludeControl DEF db, work, Codes, TypeInv
<1>6. CASE Goto(p, "reversal") /\ UNCHANGED verdict
  <2>1. pc'[p] = "reversal" /\ \A q \in Procs : q # p => pc'[q] = pc[q]
    BY <1>6 DEF Goto, TypeInv, TypeOK
  <2>2. UNCHANGED <<wagers, record, batch, verdict, workWallets, reply>>
    BY <1>2, <1>6 DEF db, work
  <2>3. ControlInv'
    BY <1>2, <2>1, <2>2, WageringAssumption DEF TypeInv, ControlInv, Req, Wallet, Procs
  <2>4. QED
    BY <1>4, <2>3 DEF TypeInv
<1>7. QED
  BY <1>1, <1>5, <1>6

LEMMA CommitType ==
    ASSUME TypeInv, NEW p \in Procs, Commit(p)
    PROVE  TypeInv'
<1>0. /\ pc[p] = "commit" /\ EndTransaction(p)
      /\ IF p \in Clients
         THEN /\ Goto(p, "reply")
              /\ reply' = [reply EXCEPT ![p] = Stored(workWagers[p][Req(p).ext])]
         ELSE Goto(p, "idle") /\ UNCHANGED reply
  BY DEF Commit
<1>1. wallets' \in [Wallets -> WalletSpace] /\ wagers' \in [Exts -> Rows \cup {None}]
  <2>1. ASSUME NEW w \in Wallets, workWallets[p][w] # None
        PROVE  Merged(wallets[w], workWallets[p][w]) \in WalletSpace
    <3>1. workWallets[p][w] \in WalletSpace /\ wallets[w] \in WalletSpace
      BY <2>1 DEF TypeInv, TypeOK
    <3>2. wallets[w].ledger \o workWallets[p][w].ledger \in Seq(Entries)
      BY <3>1 DEF WalletSpace
    <3>3. QED
      BY <3>1, <3>2 DEF Merged, WalletSpace
  <2>2. QED
    BY <2>1 DEF TypeInv, TypeOK, View, Commit
<1>2. outbox' \in [EventTypes -> [Exts -> Nat]]
  BY DEF TypeInv, TypeOK, Commit
<1>3. p \in Clients => Stored(workWagers[p][Req(p).ext]) \in Replies
  <2>1. SUFFICES ASSUME p \in Clients PROVE Stored(workWagers[p][Req(p).ext]) \in Replies
    OBVIOUS
  <2>2. record[p] \in Rows
    <3>1. record[p] \in Rows \cup {None}
      BY DEF TypeInv, TypeOK
    <3>2. QED
      BY <1>0, <2>1, <3>1 DEF TypeInv, ControlInv
  <2>3. Req(p).ext \in Exts
    BY <2>2, RequestType DEF Req, Rows
  <2>4. QED
    BY <2>3 DEF Stored, Replies, TypeInv, TypeOK
<1>4. TypeOK'
  <2>1. reply' \in [Clients -> Replies \cup {None}]
    BY <1>0, <1>3 DEF TypeInv, TypeOK
  <2>2. pc \in [Procs -> Labels] /\ {"reply", "idle"} \subseteq Labels
    BY DEF TypeInv, TypeOK, Labels
  <2>3. pc' \in [Procs -> Labels]
    BY <1>0, <2>2 DEF Goto
  <2>4. QED
    BY <1>0, <1>1, <1>2, <2>1, <2>3, EndType DEF TypeOK
<1>5. \A e \in Exts : wagers[e] # None => wagers'[e] # None
  BY DEF View, Commit
<1>6. \A q \in Procs : q # p =>
        /\ pc'[q] = pc[q] /\ record'[q] = record[q] /\ batch'[q] = batch[q]
        /\ verdict'[q] = verdict[q] /\ workWallets'[q] = workWallets[q]
  BY <1>0 DEF EndTransaction, Goto, TypeInv, TypeOK
<1>7. /\ batch'[p] = << >>
      /\ \/ p \in Clients /\ pc'[p] = "reply" /\ reply'[p] # None
         \/ p \notin Clients /\ pc'[p] = "idle"
      /\ \A c \in Clients : c # p => reply'[c] = reply[c]
  BY <1>0, <1>3, NoneAssumption DEF EndTransaction, Goto, TypeInv, TypeOK
<1>8. \A q \in Procs : \A i \in DOMAIN batch'[q] : wagers'[batch'[q][i]] # None
  <2>1. \A q \in Procs : q # p => \A i \in DOMAIN batch[q] :
            batch[q][i] \in Exts /\ wagers[batch[q][i]] # None
    BY DEF TypeInv, TypeOK, ControlInv
  <2>2. QED
    BY <1>5, <1>6, <1>7, <2>1
<1>9. \A w \in Workers : pc'[w] \in {"idle", "lockWallet", "resolve", "reversal",
                                      "settle", "commit"}
  BY <1>6, <1>7, WageringAssumption DEF TypeInv, ControlInv, Procs
<1>10. ControlInv'
  <2>1. ASSUME NEW q \in Procs
        PROVE  /\ pc'[q] \notin {"idle", "reply", "commit"} => record'[q] # None
               /\ pc'[q] \in {"resolve", "reversal", "settle"} =>
                     /\ Req(q)'.wallet \in Wallets
                     /\ Wallet(q)' # None
               /\ pc'[q] = "settle" => verdict'[q] # None
    BY <1>6, <1>7 DEF TypeInv, ControlInv, Req, Wallet
  <2>2. ASSUME NEW c \in Clients
        PROVE  /\ pc'[c] \notin {"idle", "reply"} => record'[c] # None
               /\ pc'[c] \in {"insert", "refindKey", "refindExt"} =>
                     Req(c)'.wallet \in Wallets /\ Wallet(c)' # None
               /\ pc'[c] = "reply" => reply'[c] # None
    BY <1>6, <1>7 DEF TypeInv, ControlInv, Req, Wallet, Procs
  <2>3. QED
    BY <1>8, <1>9, <2>1, <2>2 DEF ControlInv
<1>11. QED
  BY <1>4, <1>10 DEF TypeInv

LEMMA RowDue ==
    ASSUME NEW row \in Rows PROVE [row EXCEPT !.due = TRUE] \in Rows
BY DEF Rows

LEMMA MakeDueType ==
    ASSUME TypeInv, NEW e \in Exts, MakeDue(e)
    PROVE  TypeInv'
<1> USE DEF MakeDue
<1>0. wagers[e] \in Rows
  BY DEF TypeInv, TypeOK
<1>1. wagers' \in [Exts -> Rows \cup {None}]
  BY <1>0, RowDue DEF TypeInv, TypeOK
<1>2. TypeOK'
  BY <1>1 DEF TypeInv, TypeOK, locks, work
<1>3. wagers'[e] \in Rows /\ \A f \in Exts : f # e => wagers'[f] = wagers[f]
  BY <1>0, RowDue DEF TypeInv, TypeOK
<1>4. \A f \in Exts : wagers[f] # None => wagers'[f] # None
  BY <1>3, NoneAssumption
<1>5. ControlInv'
  BY <1>4, WageringAssumption
     DEF TypeInv, TypeOK, ControlInv, locks, work, Req, Wallet, Procs
<1>6. QED
  BY <1>2, <1>5 DEF TypeInv

-----------------------------------------------------------------------------
(* The steps that write the outcome of a record.                           *)

SettleStep(p) ==
    Reject(p) \/ MarkProcessed(p) \/ MarkPendingReference(p) \/ RetryLater(p) \/ GiveUp(p)

LEMMA RowUpdate ==
    ASSUME NEW row \in Rows, NEW balance \in Nat \cup {None}
    PROVE  /\ [row EXCEPT !.balance = balance] \in Rows
           /\ [row EXCEPT !.due = TRUE] \in Rows
           /\ [row EXCEPT !.attempts = @ + 1] \in Rows
<1>1. row.attempts + 1 \in Nat
  BY DEF Rows
<1>2. [row EXCEPT !.attempts = @ + 1] = [row EXCEPT !.attempts = row.attempts + 1]
  OBVIOUS
<1>3. \A n \in Nat : [row EXCEPT !.attempts = n] \in Rows
  BY DEF Rows
<1>4. [row EXCEPT !.balance = balance] \in Rows
  BY DEF Rows
<1>5. QED
  BY <1>1, <1>2, <1>3, <1>4, RowDue

\* What a process that settles works on.
LEMMA SettleContext ==
    ASSUME TypeInv, NEW p \in Procs, pc[p] = "settle"
    PROVE  /\ record[p] \in Rows
           /\ Req(p) \in Requests
           /\ Req(p).ext \in Exts /\ Req(p).amount \in Nat
           /\ Req(p).ref \in Exts \cup {None}
           /\ Req(p).wallet \in Wallets
           /\ Wallet(p) \in WalletSpace
           /\ Wallet(p).balance \in Nat
           /\ verdict[p] \in Codes \cup {"resolved"}
<1>1. record[p] \in Rows /\ verdict[p] \in Codes \cup {"resolved"}
  BY DEF TypeInv, TypeOK, ControlInv
<1>2. Req(p) \in Requests
  BY <1>1 DEF Req, Rows
<1>3. Req(p).wallet \in Wallets /\ Wallet(p) # None
  BY DEF TypeInv, ControlInv
<1>4. Wallet(p) \in WalletSpace
  BY <1>3 DEF Wallet, TypeInv, TypeOK
<1>5. Wallet(p).balance \in Nat
  BY <1>4, MaxMoneyAssumption DEF WalletSpace
<1>6. QED
  BY <1>1, <1>2, <1>3, <1>4, <1>5, RequestType

LEMMA OutcomeType ==
    ASSUME TypeInv, NEW p \in Procs, pc[p] = "settle", NEW status \in Statuses,
           NEW code \in Codes \cup {None}
    PROVE  Outcome(p, status, code) \in Rows
<1>1. record[p] \in Rows /\ Wallet(p).balance \in Nat
  BY SettleContext
<1>2. KeptReference(p) \in Exts \cup {None}
  BY <1>1, SettleContext DEF KeptReference, Rows
<1>3. QED
  BY <1>1, <1>2 DEF Outcome, Rows

LEMMA SettleShape ==
    ASSUME TypeInv, NEW p \in Procs, SettleStep(p)
    PROVE  /\ pc[p] = "settle"
           /\ Continue(p)
           /\ \E row \in Rows, wallet \in WalletSpace, events \in SUBSET EventTypes :
                /\ Write(p, row, wallet, events)
                /\ \/ wallet = Wallet(p)
                   \/ \E dir \in {"DEBIT", "CREDIT"} :
                        wallet = Move(Wallet(p), Req(p).ext, dir, Req(p).amount)
<1>1. pc[p] = "settle" /\ Continue(p)
  BY DEF SettleStep, Reject, MarkProcessed, MarkPendingReference, RetryLater, GiveUp
<1> DEFINE Shape(row, wallet, events) ==
              /\ Write(p, row, wallet, events)
              /\ \/ wallet = Wallet(p)
                 \/ \E dir \in {"DEBIT", "CREDIT"} :
                      wallet = Move(Wallet(p), Req(p).ext, dir, Req(p).amount)
<1> SUFFICES \E row \in Rows, wallet \in WalletSpace, events \in SUBSET EventTypes :
                Shape(row, wallet, events)
  BY <1>1
<1>2. Wallet(p) \in WalletSpace
  BY <1>1, SettleContext
<1>3. CASE Reject(p)
  <2>1. Refusal(p) \in Codes \cup {None}
    BY <1>1, SettleContext DEF Refusal, RefusalCode, Codes
  <2>2. Outcome(p, "REJECTED", Refusal(p)) \in Rows
    BY <1>1, <2>1, OutcomeType DEF Statuses
  <2>3. Shape(Outcome(p, "REJECTED", Refusal(p)), Wallet(p), {"Rejected"})
    BY <1>3 DEF Reject
  <2>4. QED
    BY <1>2, <2>2, <2>3 DEF EventTypes
<1>4. CASE MarkProcessed(p)
  <2> DEFINE r == Req(p)
             moved == Move(Wallet(p), r.ext, Dir(p), r.amount)
             processed == Outcome(p, "PROCESSED", None)
  <2>1. processed \in Rows
    BY <1>1, OutcomeType DEF Statuses
  <2>2. Dir(p) \in {"DEBIT", "CREDIT"}
    BY DEF Dir, Direction
  <2>3. CASE Financial(r.kind)
    <3>1. Accepts(Wallet(p).balance, Dir(p), r.amount)
      <4>1. verdict[p] = "resolved" /\ Refusal(p) = None
        BY <1>4 DEF MarkProcessed
      <4>2. RefusalCode(r.kind) # None
        BY VerdictIsSomething DEF RefusalCode, Codes
      <4>3. QED
        BY <4>1, <4>2, <2>3 DEF Refusal
    <3>2. moved \in WalletSpace
      BY <1>1, <1>2, <2>2, <3>1, SettleContext, MoveType
    <3>3. [processed EXCEPT !.balance = moved.balance] \in Rows
      <4> HIDE DEF processed, moved
      <4>1. moved.balance \in Nat
        BY <3>2, MaxMoneyAssumption DEF WalletSpace
      <4>2. QED
        BY <2>1, <4>1, RowUpdate
    <3>4. Shape([processed EXCEPT !.balance = moved.balance], moved,
                {"Processed", "BalanceChanged"})
      BY <1>4, <2>2, <2>3 DEF MarkProcessed
    <3>5. QED
      BY <3>2, <3>3, <3>4 DEF EventTypes
  <2>4. CASE ~Financial(r.kind)
    <3>1. Shape(processed, Wallet(p), {"Processed"})
      BY <1>4, <2>4 DEF MarkProcessed
    <3>2. QED
      BY <1>2, <2>1, <3>1 DEF EventTypes
  <2>5. QED
    BY <2>3, <2>4
<1>5. CASE MarkPendingReference(p)
  <2> DEFINE row == [Outcome(p, "PENDING_REFERENCE", "REFERENCE_PENDING") EXCEPT !.due = TRUE]
  <2>1. row \in Rows
    BY <1>1, OutcomeType, RowUpdate DEF Statuses, Codes
  <2>2. Shape(row, Wallet(p), {"PendingReference"})
    BY <1>5 DEF MarkPendingReference
  <2>3. QED
    BY <1>2, <2>1, <2>2 DEF EventTypes
<1>6. CASE RetryLater(p)
  <2> DEFINE row == [Outcome(p, "PENDING_REFERENCE", "REFERENCE_PENDING") EXCEPT
                       !.attempts = @ + 1]
  <2>1. row \in Rows
    BY <1>1, OutcomeType, RowUpdate DEF Statuses, Codes
  <2>2. Shape(row, Wallet(p), {})
    BY <1>6 DEF RetryLater
  <2>3. QED
    BY <1>2, <2>1, <2>2
<1>7. CASE GiveUp(p)
  <2> DEFINE row == [Outcome(p, "REJECTED", "REFERENCE_NOT_FOUND") EXCEPT !.attempts = @ + 1]
  <2>1. row \in Rows
    BY <1>1, OutcomeType, RowUpdate DEF Statuses, Codes
  <2>2. Shape(row, Wallet(p), {"Rejected"})
    BY <1>7 DEF GiveUp
  <2>3. QED
    BY <1>2, <2>1, <2>2 DEF EventTypes
<1>8. QED
  BY <1>3, <1>4, <1>5, <1>6, <1>7 DEF SettleStep

LEMMA SettleType ==
    ASSUME TypeInv, NEW p \in Procs, SettleStep(p)
    PROVE  TypeInv'
<1>1. pc[p] = "settle" /\ Continue(p)
  BY SettleShape
<1>2. PICK row \in Rows, wallet \in WalletSpace, events \in SUBSET EventTypes :
        Write(p, row, wallet, events)
  BY SettleShape
<1>3. Req(p).ext \in Exts /\ Req(p).wallet \in Wallets
  BY <1>1, SettleContext
<1>4. workWagers' \in [Procs -> [Exts -> Rows \cup {None}]]
  BY <1>2, <1>3 DEF Write, TypeInv, TypeOK
<1>5. workWallets' \in [Procs -> [Wallets -> WalletSpace \cup {None}]]
  BY <1>2, <1>3 DEF Write, TypeInv, TypeOK
<1>6. workEvents' \in [Procs -> SUBSET (EventTypes \X Exts)]
  BY <1>2, <1>3 DEF Write, TypeInv, TypeOK
<1>7. UNCHANGED <<db, locks, reply>> /\ verdict' = [verdict EXCEPT ![p] = None]
  BY <1>1 DEF Continue
<1>8. \/ /\ pc' = [pc EXCEPT ![p] = "commit"]
         /\ UNCHANGED <<record, batch>>
      \/ /\ p \in Workers
         /\ batch[p] # << >>
         /\ pc' = [pc EXCEPT ![p] = "lockWallet"]
         /\ record' = [record EXCEPT ![p] = wagers[Head(batch[p])]]
         /\ batch' = [batch EXCEPT ![p] = Tail(batch[p])]
  BY <1>1 DEF Continue, NextRecord, Goto, Procs
<1>9. batch[p] # << >> =>
        /\ wagers[Head(batch[p])] \in Rows /\ wagers[Head(batch[p])] # None
        /\ Tail(batch[p]) \in Seq(Exts)
        /\ \A i \in DOMAIN Tail(batch[p]) : wagers[Tail(batch[p])[i]] # None
  <2>1. batch[p] \in Seq(Exts) /\ \A i \in DOMAIN batch[p] : wagers[batch[p][i]] # None
    BY DEF TypeInv, TypeOK, ControlInv
  <2>2. SUFFICES ASSUME batch[p] # << >>
                 PROVE  /\ wagers[Head(batch[p])] \in Rows /\ wagers[Head(batch[p])] # None
                        /\ Tail(batch[p]) \in Seq(Exts)
                        /\ \A i \in DOMAIN Tail(batch[p]) : wagers[Tail(batch[p])[i]] # None
    OBVIOUS
  <2>3. Head(batch[p]) = batch[p][1] /\ 1 \in DOMAIN batch[p] /\ batch[p][1] \in Exts
    BY <2>1, <2>2
  <2>4. wagers[Head(batch[p])] \in Rows /\ wagers[Head(batch[p])] # None
    BY <2>1, <2>3 DEF TypeInv, TypeOK
  <2>5. Tail(batch[p]) \in Seq(Exts) /\ Len(Tail(batch[p])) = Len(batch[p]) - 1
    BY <2>1, <2>2
  <2>6. \A i \in 1..Len(Tail(batch[p])) :
          Tail(batch[p])[i] = batch[p][i + 1] /\ i + 1 \in DOMAIN batch[p]
    BY <2>1, <2>2, <2>5
  <2>7. QED
    BY <2>1, <2>4, <2>5, <2>6
<1>10. TypeOK'
  <2>1. pc' \in [Procs -> Labels] /\ verdict' \in [Procs -> Codes \cup {"resolved", None}]
    BY <1>7, <1>8 DEF TypeInv, TypeOK, Labels
  <2>2. record' \in [Procs -> Rows \cup {None}]
    BY <1>8, <1>9 DEF TypeInv, TypeOK
  <2>3. batch' \in [Procs -> Seq(Exts)]
    BY <1>8, <1>9 DEF TypeInv, TypeOK
  <2>4. QED
    BY <1>4, <1>5, <1>6, <1>7, <2>1, <2>2, <2>3 DEF TypeInv, TypeOK, db, locks
<1>11. \A q \in Procs : q # p =>
        /\ pc'[q] = pc[q] /\ record'[q] = record[q] /\ batch'[q] = batch[q]
        /\ verdict'[q] = verdict[q] /\ workWallets'[q] = workWallets[q]
  BY <1>2, <1>7, <1>8 DEF Write, TypeInv, TypeOK
<1>12. /\ record'[p] # None
       /\ pc'[p] = "commit" \/ (p \in Workers /\ pc'[p] = "lockWallet")
  BY <1>1, <1>8, <1>9 DEF TypeInv, TypeOK, ControlInv
<1>13. \A q \in Procs : \A i \in DOMAIN batch'[q] : wagers'[batch'[q][i]] # None
  <2>1. wagers' = wagers
    BY <1>7 DEF db
  <2>2. \A i \in DOMAIN batch'[p] : wagers[batch'[p][i]] # None
    BY <1>8, <1>9 DEF TypeInv, TypeOK, ControlInv
  <2>3. QED
    BY <1>11, <2>1, <2>2 DEF TypeInv, ControlInv
<1>14. reply' = reply
  BY <1>7
<1>15. ControlInv'
  BY <1>11, <1>12, <1>13, <1>14, WageringAssumption
     DEF TypeInv, ControlInv, Req, Wallet, Procs
<1>16. QED
  BY <1>10, <1>15 DEF TypeInv

LEMMA ClaimType ==
    ASSUME TypeInv, NEW w \in Workers, Claim(w)
    PROVE  TypeInv'
<1>1. PICK S \in (SUBSET Claimable) \ {{}} :
        /\ \E order \in Orderings(S) :
             /\ batch' = [batch EXCEPT ![w] = Tail(order)]
             /\ record' = [record EXCEPT ![w] = wagers[Head(order)]]
        /\ wagerLock' = [e \in Exts |-> IF e \in S THEN w ELSE wagerLock[e]]
  BY DEF Claim
<1>2. PICK order \in Orderings(S) :
        /\ batch' = [batch EXCEPT ![w] = Tail(order)]
        /\ record' = [record EXCEPT ![w] = wagers[Head(order)]]
  BY <1>1
<1>3. S \subseteq Exts /\ S # {} /\ IsFiniteSet(S) /\ \A e \in S : wagers[e] # None
  <2>1. S \subseteq Exts
    BY <1>1 DEF Claimable
  <2>2. IsFiniteSet(S)
    BY <2>1, WageringAssumption, FS_Subset
  <2>3. S # {} /\ \A e \in S : wagers[e] # None
    BY <1>1 DEF Claimable
  <2>4. QED
    BY <2>1, <2>2, <2>3
<1>4. Cardinality(S) \in Nat /\ Cardinality(S) # 0
  BY <1>3, FS_CardinalityType, FS_EmptySet
<1>5. order \in Seq(S) /\ Len(order) = Cardinality(S)
  BY <1>2, <1>4 DEF Orderings
<1>6. Head(order) \in S /\ Tail(order) \in Seq(S)
  BY <1>4, <1>5
<1>7. Tail(order) \in Seq(Exts) /\ \A i \in DOMAIN Tail(order) : Tail(order)[i] \in S
  BY <1>3, <1>6
<1>8. wagers[Head(order)] \in Rows /\ wagers[Head(order)] # None
  BY <1>3, <1>6 DEF TypeInv, TypeOK
<1>9. w \in Procs /\ pc' = [pc EXCEPT ![w] = "lockWallet"]
      /\ UNCHANGED <<db, walletLock, verdict, work, reply>>
  BY DEF Claim, Goto, Procs
<1>10. TypeOK'
  BY <1>1, <1>2, <1>7, <1>8, <1>9 DEF TypeInv, TypeOK, Labels, db, work
<1>11. \A q \in Procs : q # w =>
        pc'[q] = pc[q] /\ record'[q] = record[q] /\ batch'[q] = batch[q]
  BY <1>2, <1>9 DEF TypeInv, TypeOK
<1>12. /\ pc'[w] = "lockWallet" /\ record'[w] # None
       /\ \A i \in DOMAIN batch'[w] : wagers[batch'[w][i]] # None
  BY <1>2, <1>3, <1>7, <1>8, <1>9 DEF TypeInv, TypeOK
<1>13. UNCHANGED <<wagers, verdict, workWallets, reply>>
  BY <1>9 DEF db, work
<1>14. ControlInv'
  BY <1>11, <1>12, <1>13, WageringAssumption DEF TypeInv, ControlInv, Req, Wallet, Procs
<1>15. QED
  BY <1>10, <1>14 DEF TypeInv

-----------------------------------------------------------------------------
(* The theorem of types.                                                   *)

LEMMA TypeStep ==
    ASSUME TypeInv, [Next]_vars
    PROVE  TypeInv'
<1>1. CASE UNCHANGED vars
  BY <1>1 DEF vars, TypeInv, TypeOK, ControlInv, Req, Wallet
<1>2. ASSUME NEW c \in Clients, NEW r \in Requests, Submit(c, r) PROVE TypeInv'
  BY <1>2, SubmitType
<1>3. ASSUME NEW c \in Clients, ClientStep(c) PROVE TypeInv'
  <2>1. c \in Procs /\ SameKey(c) \in SUBSET Exts /\ SameExt(c) \in SUBSET Exts
    BY DEF Procs, SameKey, SameExt
  <2>2. /\ \A e \in SameKey(c) : wagers[e] # None
        /\ \A e \in SameExt(c) : wagers[e] # None
    BY DEF SameKey, SameExt
  <2>3. CASE FindByIdempotency(c)
    BY <2>1, <2>2, <2>3, FindType DEF FindByIdempotency
  <2>4. CASE FindByBusiness(c)
    BY <2>1, <2>2, <2>4, FindType DEF FindByBusiness
  <2>5. CASE WalletNotFound(c)
    <3>1. Answer("NOT_FOUND") \in Replies
      BY DEF Answer, Replies
    <3>2. QED
      BY <2>5, <3>1, ReplyType DEF WalletNotFound
  <2>6. CASE LockWallet(c, "insert")
    BY <2>1, <2>6, LockWalletType
  <2>7. CASE InsertWager(c)
    BY <2>7, InsertType
  <2>8. CASE RefindByIdempotency(c)
    BY <2>1, <2>2, <2>8, FindType DEF RefindByIdempotency
  <2>9. CASE RefindByBusiness(c)
    <3>1. PICK e \in SameExt(c) : ReplyWithoutEffect(c, ReplayOrConflict(Req(c), wagers[e]))
      BY <2>9 DEF RefindByBusiness
    <3>2. ReplayOrConflict(Req(c), wagers[e]) \in Replies
      BY <2>1, <3>1 DEF ReplayOrConflict, Stored, Answer, Replies, TypeInv, TypeOK
    <3>3. QED
      BY <3>1, <3>2, ReplyType
  <2>10. CASE MarkPendingReference(c)
    BY <2>1, <2>10, SettleType DEF SettleStep
  <2>11. CASE ReceiveReply(c)
    BY <2>11, ReceiveType
  <2>12. QED
    BY <1>3, <2>3, <2>4, <2>5, <2>6, <2>7, <2>8, <2>9, <2>10, <2>11 DEF ClientStep
<1>4. ASSUME NEW w \in Workers, WorkerStep(w) PROVE TypeInv'
  <2>1. w \in Procs
    BY DEF Procs
  <2>2. CASE Claim(w)
    BY <2>2, ClaimType
  <2>3. CASE LockWallet(w, "resolve")
    BY <2>1, <2>3, LockWalletType
  <2>4. CASE RetryLater(w) \/ GiveUp(w)
    BY <2>1, <2>4, SettleType DEF SettleStep
  <2>5. QED
    BY <1>4, <2>2, <2>3, <2>4 DEF WorkerStep
<1>5. ASSUME NEW p \in Procs, TransactionStep(p) PROVE TypeInv'
  <2>1. CASE SkipReference(p)
    BY <2>1, SkipReferenceType
  <2>2. CASE ResolveReference(p)
    BY <2>2, ResolveType
  <2>3. CASE HasSuccessfulReversal(p)
    BY <2>3, ReversalType
  <2>4. CASE Reject(p) \/ MarkProcessed(p)
    BY <2>4, SettleType DEF SettleStep
  <2>5. CASE Commit(p)
    BY <2>5, CommitType
  <2>6. QED
    BY <1>5, <2>1, <2>2, <2>3, <2>4, <2>5 DEF TransactionStep
<1>6. ASSUME NEW p \in Procs, Abort(p) \/ AbortDeadlockVictim(p) PROVE TypeInv'
  BY <1>6, RollbackType DEF Abort, AbortDeadlockVictim
<1>7. ASSUME NEW e \in Exts, MakeDue(e) PROVE TypeInv'
  BY <1>7, MakeDueType
<1>8. QED
  BY <1>1, <1>2, <1>3, <1>4, <1>5, <1>6, <1>7 DEF Next

\* Every reachable state has its types, and every process has what its next
\* step reads: no step works on an absent record, wallet or verdict, whatever
\* fails or is rolled back in between.
THEOREM TypeCorrect == Spec => [](TypeOK /\ ControlInv)
<1>1. Init => TypeInv
  BY InitType
<1>2. TypeInv /\ [Next]_vars => TypeInv'
  BY TypeStep
<1>3. TypeInv => TypeOK /\ ControlInv
  BY DEF TypeInv
<1>4. QED
  BY <1>1, <1>2, <1>3, PTL DEF Spec

-----------------------------------------------------------------------------
(***************************************************************************)
(* The wallets and their ledgers.  The inductive invariant says what a     *)
(* commit would leave: a copy of a wallet exists only under the row lock   *)
(* of the wallet, and the committed ledger followed by the entries of the  *)
(* copy explains the balance of the copy.  Without the lock, another       *)
(* commit could come between the two.                                      *)
(***************************************************************************)

CopiesExplained ==
    \A p \in Procs, w \in Wallets :
        workWallets[p][w] # None => LedgerExplains(w, Merged(wallets[w], workWallets[p][w]))

LedgerInv == LockedCopiesFresh /\ CopiesExplained /\ LedgerConsistent

\* One movement extends a ledger.
LEMMA MoveExtends ==
    ASSUME NEW wallet \in WalletSpace, NEW ext \in Exts, NEW amount \in Nat,
           NEW dir \in {"DEBIT", "CREDIT"}
    PROVE  LET moved == Move(wallet, ext, dir, amount) IN
           /\ Len(moved.ledger) = Len(wallet.ledger) + 1
           /\ moved.ledger[Len(wallet.ledger) + 1] = Entry(ext, dir, amount, wallet.balance)
           /\ \A i \in 1..Len(wallet.ledger) : moved.ledger[i] = wallet.ledger[i]
           /\ moved.version = wallet.version + 1
           /\ moved.balance = BalanceAfter(wallet.balance, dir, amount)
<1> DEFINE entry == Entry(ext, dir, amount, wallet.balance)
           moved == Move(wallet, ext, dir, amount)
<1>1. wallet.ledger \in Seq(Entries)
  BY DEF WalletSpace
<1>2. moved.ledger = Append(wallet.ledger, entry)
  BY DEF Move
<1>3. /\ Len(moved.ledger) = Len(wallet.ledger) + 1
      /\ moved.ledger[Len(wallet.ledger) + 1] = entry
      /\ \A i \in 1..Len(wallet.ledger) : moved.ledger[i] = wallet.ledger[i]
  <2> HIDE DEF entry, moved
  <2> QED
    BY <1>1, <1>2
<1>4. moved.version = wallet.version + 1 /\ moved.balance = BalanceAfter(wallet.balance, dir, amount)
  BY DEF Move
<1>5. QED
  BY <1>3, <1>4

LEMMA OpeningType ==
    ASSUME NEW w \in Wallets
    PROVE  Len(Opening(w)) \in {0, 1}
BY DEF Opening

\* One movement leaves a wallet its ledger explains, if the ledger explained
\* it before.
LEMMA MoveExplained ==
    ASSUME NEW w \in Wallets, NEW wallet \in WalletSpace, NEW ext \in Exts, NEW amount \in Nat,
           NEW dir \in {"DEBIT", "CREDIT"}, LedgerExplains(w, wallet)
    PROVE  LedgerExplains(w, Move(wallet, ext, dir, amount))
<1> DEFINE n == Len(wallet.ledger)
           moved == Move(wallet, ext, dir, amount)
           entry == Entry(ext, dir, amount, wallet.balance)
<1>1. wallet.balance \in 0..MaxMoney /\ wallet.version \in Nat /\ wallet.ledger \in Seq(Entries)
      /\ n \in Nat
  BY DEF WalletSpace
<1>2. /\ Len(moved.ledger) = n + 1
      /\ moved.ledger[n + 1] = entry
      /\ \A i \in 1..n : moved.ledger[i] = wallet.ledger[i]
      /\ moved.version = wallet.version + 1
      /\ moved.balance = BalanceAfter(wallet.balance, dir, amount)
  BY MoveExtends
<1>3. /\ entry.before = wallet.balance /\ entry.amount = amount /\ entry.dir = dir
      /\ entry.after = BalanceAfter(wallet.balance, dir, amount)
  BY DEF Entry
<1>4. /\ wallet.version + Len(Opening(w)) = n + 1
      /\ wallet.balance = IF n = 0 THEN 0 ELSE wallet.ledger[n].after
      /\ \A i \in 1..n :
           /\ wallet.ledger[i].after = BalanceAfter(wallet.ledger[i].before,
                                          wallet.ledger[i].dir, wallet.ledger[i].amount)
           /\ wallet.ledger[i].before = IF i = 1 THEN 0 ELSE wallet.ledger[i - 1].after
  BY DEF LedgerExplains
<1> HIDE DEF n, moved, entry
<1>5. moved.version + Len(Opening(w)) = (n + 1) + 1
  BY <1>1, <1>2, <1>4, OpeningType
<1>6. moved.balance = moved.ledger[n + 1].after
  BY <1>2, <1>3
<1>7. ASSUME NEW i \in 1..(n + 1)
      PROVE  /\ moved.ledger[i].after = BalanceAfter(moved.ledger[i].before,
                                          moved.ledger[i].dir, moved.ledger[i].amount)
             /\ moved.ledger[i].before = IF i = 1 THEN 0 ELSE moved.ledger[i - 1].after
  <2>1. CASE i \in 1..n
    <3>1. i - 1 \in 1..n \/ i = 1
      BY <1>1, <2>1
    <3>2. QED
      BY <1>2, <1>4, <2>1, <3>1
  <2>2. CASE i = n + 1
    <3>1. n = 0 \/ (n \in 1..n /\ i - 1 = n /\ i # 1)
      BY <1>1, <2>2
    <3>2. QED
      BY <1>1, <1>2, <1>3, <1>4, <2>2, <3>1
  <2>3. QED
    BY <1>1, <2>1, <2>2
<1>8. QED
  BY <1>1, <1>2, <1>5, <1>6, <1>7 DEF LedgerExplains, moved

\* What a commit of a copy would leave is a wallet, and a movement of the copy
\* is a movement of it.
LEMMA MergedType ==
    ASSUME NEW committed \in WalletSpace, NEW copy \in WalletSpace
    PROVE  Merged(committed, copy) \in WalletSpace
<1>1. committed.ledger \o copy.ledger \in Seq(Entries)
  BY DEF WalletSpace
<1>2. QED
  BY <1>1 DEF Merged, WalletSpace

LEMMA MoveMerged ==
    ASSUME NEW committed \in WalletSpace, NEW copy \in WalletSpace,
           NEW ext \in Exts, NEW amount \in Nat, NEW dir \in {"DEBIT", "CREDIT"}
    PROVE  Merged(committed, Move(copy, ext, dir, amount)) =
             Move(Merged(committed, copy), ext, dir, amount)
<1> DEFINE theirs == committed.ledger
           mine == copy.ledger
           entry == Entry(ext, dir, amount, copy.balance)
<1>1. theirs \in Seq(Entries) /\ mine \in Seq(Entries)
  BY DEF WalletSpace
<1>2. theirs \o Append(mine, entry) = Append(theirs \o mine, entry)
  <2> HIDE DEF theirs, mine, entry
  <2> DEFINE S == Entries \cup {entry}
  <2>1. theirs \in Seq(S) /\ mine \in Seq(S) /\ entry \in S
    BY <1>1
  <2>2. << entry >> \in Seq(S) /\ theirs \o mine \in Seq(S)
    BY <2>1
  <2> HIDE DEF S
  <2>3. Append(mine, entry) = mine \o << entry >>
    BY <2>1, AppendIsConcat
  <2>4. Append(theirs \o mine, entry) = (theirs \o mine) \o << entry >>
    BY <2>1, <2>2, AppendIsConcat
  <2>5. (theirs \o mine) \o << entry >> = theirs \o (mine \o << entry >>)
    BY <2>1, <2>2, ConcatAssociative
  <2>6. QED
    BY <2>3, <2>4, <2>5
<1>3. QED
  BY <1>2 DEF Move, Merged

\* A fresh copy would leave the wallet as it is.
LEMMA MergedCopy ==
    ASSUME TypeInv, NEW w \in Wallets
    PROVE  Merged(wallets[w], Copy(w)) = wallets[w]
<1>1. wallets[w] \in WalletSpace /\ wallets[w].ledger \in Seq(Entries)
  BY DEF TypeInv, TypeOK, WalletSpace
<1>2. wallets[w].ledger \o << >> = wallets[w].ledger
  BY <1>1, ConcatEmptySeq
<1>3. /\ Copy(w).balance = wallets[w].balance /\ Copy(w).version = wallets[w].version
      /\ Copy(w).ledger = << >>
  BY <1>1 DEF Copy, WalletSpace
<1>4. QED
  BY <1>1, <1>2, <1>3 DEF Merged, WalletSpace

LEMMA InitLedger == Init => LedgerInv
<1> SUFFICES ASSUME Init PROVE LedgerInv
  OBVIOUS
<1>1. \A p \in Procs, w \in Wallets : workWallets[p][w] = None
  BY DEF Init
<1>2. ASSUME NEW w \in Wallets PROVE LedgerExplains(w, wallets[w])
  <2>1. wallets[w] = [balance |-> OpeningBalance[w], version |-> 1, ledger |-> Opening(w)]
    BY DEF Init
  <2>2. CASE OpeningBalance[w] = 0
    BY <2>1, <2>2 DEF Opening, LedgerExplains
  <2>3. CASE OpeningBalance[w] # 0
    <3> DEFINE entry == Entry(None, "CREDIT", OpeningBalance[w], 0)
    <3>1. OpeningBalance[w] \in Nat
      BY WageringAssumption, MaxMoneyAssumption
    <3>2. /\ entry.before = 0 /\ entry.after = OpeningBalance[w]
          /\ entry.after = BalanceAfter(entry.before, entry.dir, entry.amount)
      BY <3>1 DEF Entry, BalanceAfter
    <3>3. wallets[w].ledger = << entry >> /\ wallets[w].version = 1
          /\ wallets[w].balance = OpeningBalance[w] /\ Opening(w) = << entry >>
      BY <2>1, <2>3 DEF Opening
    <3> HIDE DEF entry
    <3>4. Len(<< entry >>) = 1 /\ << entry >>[1] = entry
      OBVIOUS
    <3>5. wallets[w].version + Len(Opening(w)) = 1 + 1
      BY <3>3, <3>4
    <3>6. wallets[w].balance = wallets[w].ledger[1].after
      BY <3>2, <3>3, <3>4
    <3>7. \A i \in 1..1 :
            /\ wallets[w].ledger[i].after = BalanceAfter(wallets[w].ledger[i].before,
                                   wallets[w].ledger[i].dir, wallets[w].ledger[i].amount)
            /\ wallets[w].ledger[i].before = 0 /\ i = 1
      BY <3>2, <3>3, <3>4
    <3>8. QED
      BY <3>3, <3>4, <3>5, <3>6, <3>7 DEF LedgerExplains
  <2>4. QED
    BY <2>2, <2>3
<1>3. QED
  BY <1>1, <1>2 DEF LedgerInv, LockedCopiesFresh, CopiesExplained, LedgerConsistent

-----------------------------------------------------------------------------
(* Each kind of step preserves LedgerInv.                                  *)

\* Most steps touch neither a wallet nor its lock.
LEMMA FrameLedger ==
    ASSUME LedgerInv, UNCHANGED <<wallets, walletLock, workWallets>>
    PROVE  LedgerInv'
<1>1. LockedCopiesFresh' /\ LedgerConsistent'
  BY DEF LedgerInv, LockedCopiesFresh, LedgerConsistent, LedgerExplains
<1>2. CopiesExplained'
  <2>1. SUFFICES ASSUME NEW q \in Procs, NEW w \in Wallets, workWallets'[q][w] # None
                 PROVE  LedgerExplains(w, Merged(wallets'[w], workWallets'[q][w]))
    BY DEF CopiesExplained, LedgerExplains, Merged
  <2>2. QED
    BY <2>1 DEF LedgerInv, CopiesExplained
<1>3. QED
  BY <1>1, <1>2 DEF LedgerInv

\* What the end of p's transaction leaves of locks and copies.
LEMMA EndFrame ==
    ASSUME TypeInv, NEW p \in Procs, EndTransaction(p)
    PROVE  /\ \A w \in Wallets : workWallets'[p][w] = None
           /\ \A q \in Procs : q # p => workWallets'[q] = workWallets[q]
           /\ \A w \in Wallets : walletLock[w] # p => walletLock'[w] = walletLock[w]
BY DEF EndTransaction, TypeInv, TypeOK

LEMMA EndLedger ==
    ASSUME TypeInv, LedgerInv, NEW p \in Procs, EndTransaction(p), UNCHANGED wallets
    PROVE  LedgerInv'
<1>1. ASSUME NEW q \in Procs, NEW w \in Wallets, workWallets'[q][w] # None
      PROVE  q # p /\ workWallets'[q][w] = workWallets[q][w] /\ walletLock'[w] = walletLock[w]
  <2>1. q # p /\ workWallets[q][w] # None /\ workWallets'[q][w] = workWallets[q][w]
    BY <1>1, EndFrame
  <2>2. walletLock[w] = q
    BY <2>1 DEF LedgerInv, LockedCopiesFresh
  <2>3. QED
    BY <2>1, <2>2, EndFrame
<1>2. LockedCopiesFresh'
  BY <1>1 DEF LedgerInv, LockedCopiesFresh
<1>3. CopiesExplained'
  <2>1. SUFFICES ASSUME NEW q \in Procs, NEW w \in Wallets, workWallets'[q][w] # None
                 PROVE  LedgerExplains(w, Merged(wallets'[w], workWallets'[q][w]))
    BY DEF CopiesExplained, LedgerExplains, Merged
  <2>2. QED
    BY <1>1, <2>1 DEF LedgerInv, CopiesExplained
<1>4. LedgerConsistent'
  BY DEF LedgerInv, LedgerConsistent, LedgerExplains
<1>5. QED
  BY <1>2, <1>3, <1>4 DEF LedgerInv

\* Taking the lock copies the committed wallet; no other transaction has a
\* copy, since it would hold the lock.
LEMMA LockLedger ==
    ASSUME TypeInv, LedgerInv, NEW p \in Procs, NEW next, LockWallet(p, next)
    PROVE  LedgerInv'
<1> DEFINE w == Req(p).wallet
<1>1. /\ w \in Wallets /\ walletLock[w] \in {None, p} /\ wallets' = wallets
      /\ walletLock' = [walletLock EXCEPT ![w] = p]
      /\ workWallets' = [workWallets EXCEPT ![p][w] = IF @ = None THEN Copy(w) ELSE @]
  BY DEF LockWallet, db
<1> HIDE DEF w
<1>2. \A q \in Procs : q # p => workWallets[q][w] = None
  BY <1>1, WageringAssumption DEF LedgerInv, LockedCopiesFresh
<1>3. /\ walletLock'[w] = p /\ \A x \in Wallets : x # w => walletLock'[x] = walletLock[x]
      /\ \A q \in Procs, x \in Wallets :
           q # p \/ x # w => workWallets'[q][x] = workWallets[q][x]
      /\ workWallets'[p][w] = IF workWallets[p][w] = None THEN Copy(w) ELSE workWallets[p][w]
  BY <1>1 DEF TypeInv, TypeOK
<1>4. Copy(w).version = wallets[w].version + Len(Copy(w).ledger)
  <2>1. wallets[w] \in WalletSpace /\ wallets[w].version \in Nat
    BY <1>1 DEF TypeInv, TypeOK, WalletSpace
  <2>2. Copy(w).version = wallets[w].version /\ Copy(w).ledger = << >>
    BY <2>1 DEF Copy, WalletSpace
  <2>3. QED
    BY <2>1, <2>2
<1>5. LockedCopiesFresh'
  <2>1. SUFFICES ASSUME NEW q \in Procs, NEW x \in Wallets, workWallets'[q][x] # None
                 PROVE  /\ walletLock'[x] = q
                        /\ workWallets'[q][x].version =
                             wallets[x].version + Len(workWallets'[q][x].ledger)
    BY <1>1 DEF LockedCopiesFresh
  <2>2. CASE x # w
    BY <1>3, <2>1, <2>2 DEF LedgerInv, LockedCopiesFresh
  <2>3. CASE x = w
    <3>1. q = p
      BY <1>2, <1>3, <2>1, <2>3
    <3>2. CASE workWallets[p][w] = None
      BY <1>3, <1>4, <2>3, <3>1, <3>2
    <3>3. CASE workWallets[p][w] # None
      BY <1>1, <1>3, <2>3, <3>1, <3>3 DEF LedgerInv, LockedCopiesFresh
    <3>4. QED
      BY <3>2, <3>3
  <2>4. QED
    BY <2>2, <2>3
<1>6. CopiesExplained'
  <2>1. SUFFICES ASSUME NEW q \in Procs, NEW x \in Wallets, workWallets'[q][x] # None
                 PROVE  LedgerExplains(x, Merged(wallets'[x], workWallets'[q][x]))
    BY <1>1 DEF CopiesExplained, LedgerExplains, Merged
  <2>2. workWallets'[q][x] = workWallets[q][x] \/ (x = w /\ workWallets'[q][x] = Copy(w))
    BY <1>3
  <2>3. QED
    BY <1>1, <2>1, <2>2, MergedCopy DEF LedgerInv, CopiesExplained, LedgerConsistent
<1>7. LedgerConsistent'
  BY <1>1 DEF LedgerInv, LedgerConsistent, LedgerExplains
<1>8. QED
  BY <1>5, <1>6, <1>7 DEF LedgerInv

\* Writing an outcome leaves the copy or moves it once.
LEMMA SettleLedger ==
    ASSUME TypeInv, LedgerInv, NEW p \in Procs, SettleStep(p)
    PROVE  LedgerInv'
<1> DEFINE w == Req(p).wallet
           copy == Wallet(p)
<1>1. pc[p] = "settle" /\ UNCHANGED <<wallets, walletLock>>
  BY SettleShape DEF Continue, db, locks
<1>2. PICK wallet \in WalletSpace :
        /\ workWallets' = [workWallets EXCEPT ![p][w] = wallet]
        /\ \/ wallet = copy
           \/ \E dir \in {"DEBIT", "CREDIT"} :
                wallet = Move(copy, Req(p).ext, dir, Req(p).amount)
  BY SettleShape DEF Write
<1>3. /\ w \in Wallets /\ copy \in WalletSpace /\ copy # None
      /\ copy = workWallets[p][w] /\ wallets[w] \in WalletSpace
      /\ Req(p).ext \in Exts /\ Req(p).amount \in Nat
  BY <1>1, SettleContext, NoneAssumption DEF Wallet, TypeInv, TypeOK
<1>4. /\ walletLock[w] = p /\ copy.version = wallets[w].version + Len(copy.ledger)
      /\ LedgerExplains(w, Merged(wallets[w], copy)) /\ Merged(wallets[w], copy) \in WalletSpace
  BY <1>3, MergedType DEF LedgerInv, LockedCopiesFresh, CopiesExplained
<1>5. /\ wallet.version = wallets[w].version + Len(wallet.ledger)
      /\ LedgerExplains(w, Merged(wallets[w], wallet))
  <2> HIDE DEF copy, w
  <2>1. CASE wallet = copy
    BY <1>4, <2>1
  <2>2. ASSUME NEW dir \in {"DEBIT", "CREDIT"},
               wallet = Move(copy, Req(p).ext, dir, Req(p).amount)
        PROVE  /\ wallet.version = wallets[w].version + Len(wallet.ledger)
               /\ LedgerExplains(w, Merged(wallets[w], wallet))
    <3>1. LedgerExplains(w, Move(Merged(wallets[w], copy), Req(p).ext, dir, Req(p).amount))
      BY <1>3, <1>4, MoveExplained
    <3>2. Merged(wallets[w], wallet) = Move(Merged(wallets[w], copy), Req(p).ext, dir, Req(p).amount)
      BY <1>3, <2>2, MoveMerged
    <3>3. /\ Len(wallet.ledger) = Len(copy.ledger) + 1
          /\ wallet.version = copy.version + 1
      BY <1>3, <2>2, MoveExtends
    <3>4. wallets[w].version \in Nat /\ Len(copy.ledger) \in Nat
      BY <1>3 DEF TypeInv, TypeOK, WalletSpace
    <3>5. QED
      BY <1>4, <3>1, <3>2, <3>3, <3>4
  <2>3. QED
    BY <1>2, <2>1, <2>2
<1> HIDE DEF w, copy
<1>6. /\ workWallets'[p][w] = wallet
      /\ \A q \in Procs, x \in Wallets :
           q # p \/ x # w => workWallets'[q][x] = workWallets[q][x]
  BY <1>2, <1>3 DEF TypeInv, TypeOK
<1>7. LockedCopiesFresh'
  <2>1. SUFFICES ASSUME NEW q \in Procs, NEW x \in Wallets, workWallets'[q][x] # None
                 PROVE  /\ walletLock[x] = q
                        /\ workWallets'[q][x].version =
                             wallets[x].version + Len(workWallets'[q][x].ledger)
    BY <1>1 DEF LockedCopiesFresh
  <2>2. CASE q # p \/ x # w
    BY <1>6, <2>1, <2>2 DEF LedgerInv, LockedCopiesFresh
  <2>3. CASE q = p /\ x = w
    BY <1>4, <1>5, <1>6, <2>3
  <2>4. QED
    BY <2>2, <2>3
<1>8. CopiesExplained'
  <2>1. SUFFICES ASSUME NEW q \in Procs, NEW x \in Wallets, workWallets'[q][x] # None
                 PROVE  LedgerExplains(x, Merged(wallets'[x], workWallets'[q][x]))
    BY <1>1 DEF CopiesExplained, LedgerExplains, Merged
  <2>2. (q = p /\ x = w) \/ workWallets'[q][x] = workWallets[q][x]
    BY <1>6
  <2>3. QED
    BY <1>1, <1>5, <1>6, <2>1, <2>2 DEF LedgerInv, CopiesExplained
<1>9. LedgerConsistent'
  BY <1>1 DEF LedgerInv, LedgerConsistent, LedgerExplains
<1>10. QED
  BY <1>7, <1>8, <1>9 DEF LedgerInv

\* Publishing the copies of p: p held the locks, so no other transaction has a
\* copy of a wallet that changes.
LEMMA CommitLedger ==
    ASSUME TypeInv, LedgerInv, NEW p \in Procs, Commit(p)
    PROVE  LedgerInv'
<1>1. /\ EndTransaction(p)
      /\ \A w \in Wallets : wallets'[w] = IF workWallets[p][w] # None
                                            THEN Merged(wallets[w], workWallets[p][w])
                                            ELSE wallets[w]
  BY DEF Commit
<1>2. ASSUME NEW q \in Procs, NEW w \in Wallets, workWallets'[q][w] # None
      PROVE  /\ workWallets'[q][w] = workWallets[q][w] /\ walletLock'[w] = q
             /\ wallets'[w] = wallets[w]
  <2>1. q # p /\ workWallets[q][w] # None /\ workWallets'[q][w] = workWallets[q][w]
    BY <1>1, <1>2, EndFrame
  <2>2. walletLock[w] = q
    BY <2>1 DEF LedgerInv, LockedCopiesFresh
  <2>3. workWallets[p][w] = None
    BY <2>1, <2>2 DEF LedgerInv, LockedCopiesFresh
  <2>4. QED
    BY <1>1, <2>1, <2>2, <2>3, EndFrame
<1>3. LockedCopiesFresh'
  <2>1. SUFFICES ASSUME NEW q \in Procs, NEW w \in Wallets, workWallets'[q][w] # None
                 PROVE  /\ walletLock'[w] = q
                        /\ workWallets'[q][w].version =
                             wallets'[w].version + Len(workWallets'[q][w].ledger)
    BY DEF LockedCopiesFresh
  <2>2. workWallets[q][w] # None /\ workWallets'[q][w] = workWallets[q][w]
        /\ walletLock'[w] = q /\ wallets'[w] = wallets[w]
    BY <1>2, <2>1
  <2>3. QED
    BY <2>2 DEF LedgerInv, LockedCopiesFresh
<1>4. CopiesExplained'
  <2>1. SUFFICES ASSUME NEW q \in Procs, NEW w \in Wallets, workWallets'[q][w] # None
                 PROVE  LedgerExplains(w, Merged(wallets'[w], workWallets'[q][w]))
    BY DEF CopiesExplained, LedgerExplains
  <2>2. /\ workWallets[q][w] # None
        /\ Merged(wallets'[w], workWallets'[q][w]) = Merged(wallets[w], workWallets[q][w])
    BY <1>2, <2>1 DEF Merged
  <2>3. QED
    BY <2>2 DEF LedgerInv, CopiesExplained
<1>5. LedgerConsistent'
  <2>1. SUFFICES ASSUME NEW w \in Wallets PROVE LedgerExplains(w, wallets'[w])
    BY DEF LedgerConsistent, LedgerExplains
  <2>2. QED
    BY <1>1 DEF LedgerInv, CopiesExplained, LedgerConsistent
<1>6. QED
  BY <1>3, <1>4, <1>5 DEF LedgerInv

LEMMA LedgerStep ==
    ASSUME TypeInv, LedgerInv, [Next]_vars
    PROVE  LedgerInv'
<1>2. ASSUME UNCHANGED <<wallets, walletLock, workWallets>> PROVE LedgerInv'
  BY <1>2, FrameLedger
<1>3. ASSUME NEW p \in Procs, EndTransaction(p), UNCHANGED wallets PROVE LedgerInv'
  BY <1>3, EndLedger
<1>4. ASSUME NEW p \in Procs, NEW next, LockWallet(p, next) PROVE LedgerInv'
  BY <1>4, LockLedger
<1>5. ASSUME NEW p \in Procs, SettleStep(p) PROVE LedgerInv'
  BY <1>5, SettleLedger
<1>6. ASSUME NEW p \in Procs, Commit(p) PROVE LedgerInv'
  BY <1>6, CommitLedger
<1>7. ASSUME NEW c \in Clients, NEW answer, ReplyWithoutEffect(c, answer) PROVE LedgerInv'
  BY <1>3, <1>7 DEF ReplyWithoutEffect, db, Procs
<1>8. ASSUME NEW c \in Clients, NEW here, NEW hits, NEW next, Find(c, here, hits, next)
      PROVE  LedgerInv'
  BY <1>2, <1>7, <1>8 DEF Find, db, locks, work
<1>9. CASE UNCHANGED vars
  BY <1>2, <1>9 DEF vars
<1>10. ASSUME NEW c \in Clients, NEW r \in Requests, Submit(c, r) PROVE LedgerInv'
  BY <1>2, <1>10 DEF Submit, db, locks, work
<1>11. ASSUME NEW c \in Clients, ClientStep(c) PROVE LedgerInv'
  <2>1. c \in Procs
    BY DEF Procs
  <2>2. CASE FindByIdempotency(c) \/ FindByBusiness(c) \/ RefindByIdempotency(c)
    BY <1>8, <2>2 DEF FindByIdempotency, FindByBusiness, RefindByIdempotency
  <2>3. CASE WalletNotFound(c) \/ RefindByBusiness(c)
    BY <1>7, <2>3 DEF WalletNotFound, RefindByBusiness
  <2>4. CASE LockWallet(c, "insert")
    BY <1>4, <2>1, <2>4
  <2>5. CASE InsertWager(c) \/ ReceiveReply(c)
    BY <1>2, <2>5 DEF InsertWager, ReceiveReply, db, locks, work
  <2>6. CASE MarkPendingReference(c)
    BY <1>5, <2>1, <2>6 DEF SettleStep
  <2>7. QED
    BY <1>11, <2>2, <2>3, <2>4, <2>5, <2>6 DEF ClientStep
<1>12. ASSUME NEW w \in Workers, WorkerStep(w) PROVE LedgerInv'
  <2>1. w \in Procs
    BY DEF Procs
  <2>2. CASE Claim(w)
    BY <1>2, <2>2 DEF Claim, db, work
  <2>3. CASE LockWallet(w, "resolve")
    BY <1>4, <2>1, <2>3
  <2>4. CASE RetryLater(w) \/ GiveUp(w)
    BY <1>5, <2>1, <2>4 DEF SettleStep
  <2>5. QED
    BY <1>12, <2>2, <2>3, <2>4 DEF WorkerStep
<1>13. ASSUME NEW p \in Procs, TransactionStep(p) PROVE LedgerInv'
  <2>1. CASE SkipReference(p) \/ HasSuccessfulReversal(p)
    BY <1>2, <2>1 DEF SkipReference, HasSuccessfulReversal, db, locks, work
  <2>2. CASE ResolveReference(p)
    BY <1>2, <2>2 DEF ResolveReference, db, work
  <2>3. CASE Reject(p) \/ MarkProcessed(p)
    BY <1>5, <2>3 DEF SettleStep
  <2>4. CASE Commit(p)
    BY <1>6, <2>4
  <2>5. QED
    BY <1>13, <2>1, <2>2, <2>3, <2>4 DEF TransactionStep
<1>14. ASSUME NEW p \in Procs, Abort(p) \/ AbortDeadlockVictim(p) PROVE LedgerInv'
  BY <1>3, <1>14 DEF Abort, AbortDeadlockVictim, Rollback, db
<1>15. ASSUME NEW e \in Exts, MakeDue(e) PROVE LedgerInv'
  BY <1>2, <1>15 DEF MakeDue, locks, work
<1>16. QED
  BY <1>9, <1>10, <1>11, <1>12, <1>13, <1>14, <1>15 DEF Next

-----------------------------------------------------------------------------
(* The theorems.                                                           *)

\* The inductive invariant of this module together with the one of types.
LEMMA LedgerInductive == Spec => [](TypeInv /\ LedgerInv)
<1>1. Init => TypeInv /\ LedgerInv
  BY InitType, InitLedger
<1>2. TypeInv /\ LedgerInv /\ [Next]_vars => TypeInv' /\ LedgerInv'
  BY TypeStep, LedgerStep
<1>3. QED
  BY <1>1, <1>2, PTL DEF Spec

\* Whatever number of clients and workers move money concurrently, fail and
\* deadlock, every wallet row agrees with its ledger: UpdateWallet never loses
\* a balance another transaction wrote.
THEOREM LedgerSound == Spec => []LedgerConsistent
<1>1. LedgerInv => LedgerConsistent
  BY DEF LedgerInv
<1>2. QED
  BY <1>1, LedgerInductive, PTL

\* The row lock alone keeps every uncommitted copy of a wallet ahead of the
\* committed row: the version predicate of UpdateWallet always holds.
THEOREM CopiesFresh == Spec => []LockedCopiesFresh
<1>1. LedgerInv => LockedCopiesFresh
  BY DEF LedgerInv
<1>2. QED
  BY <1>1, LedgerInductive, PTL

-----------------------------------------------------------------------------
(* Rows, effects and events.                                               *)

\* The statuses that are committed.
Settled == {"PENDING_REFERENCE", "PROCESSED", "REJECTED"}

\* The rows of the table are named by their external id.
RowsNamed ==
    \A e \in Exts : wagers[e] # None =>
        wagers[e].req.ext = e /\ wagers[e].status \in Settled

\* A client works on the record it was sent; once it is inserted no committed row
\* and no other insert has its id or key.
ClientsApart ==
    \A c \in Clients :
        /\ pc[c] \notin {"idle", "reply"} => record[c] = NewRecord(Req(c))
        /\ Inserting(c) =>
             /\ \A e \in Exts : wagers[e] # None => e # Req(c).ext /\ wagers[e].req.key # Req(c).key
             /\ \A d \in Clients \ {c} :
                  Inserting(d) => Req(d).ext # Req(c).ext /\ Req(d).key # Req(c).key

\* The row e waits and w has locked it.
Claimed(w, e) ==
    /\ wagerLock[e] = w
    /\ wagers[e] # None /\ wagers[e].status = "PENDING_REFERENCE" /\ wagers[e].due

Working(w) == pc[w] \in {"lockWallet", "resolve", "reversal", "settle"}

\* The rows of a worker's batch are different waiting rows that it has locked and
\* not written yet; the one it works on is as in the table.
WorkersHold ==
    \A w \in Workers :
        /\ ~Working(w) => batch[w] = << >>
        /\ Working(w) => /\ Claimed(w, Req(w).ext)
                         /\ record[w] = wagers[Req(w).ext]
                         /\ workWagers[w][Req(w).ext] = None
        /\ \A i \in DOMAIN batch[w] :
             /\ Claimed(w, batch[w][i])
             /\ workWagers[w][batch[w][i]] = None
             /\ batch[w][i] # Req(w).ext
             /\ \A j \in DOMAIN batch[w] : batch[w][j] = batch[w][i] => j = i

\* A client writes the row of its own id, as its last statement; a worker writes
\* outcomes of the rows it has locked.
WritesOwned ==
    \A p \in Procs : \A e \in Exts : workWagers[p][e] # None =>
        /\ workWagers[p][e].status \in Settled
        /\ p \in Clients =>
             pc[p] = "commit" /\ e = Req(p).ext /\ workWagers[p][e].req = Req(p)
        /\ p \in Workers => Claimed(p, e) /\ workWagers[p][e].req = wagers[e].req

CommitsWritten ==
    \A c \in Clients : pc[c] = "commit" => workWagers[c][Req(c).ext] # None

RowInv == RowsNamed /\ ClientsApart /\ WorkersHold /\ WritesOwned /\ CommitsWritten

\* The wagers that move money.
Effective(row) == row # None /\ row.status = "PROCESSED" /\ Financial(row.req.kind)

\* The entry of a ledger that records the wager of this row in wallet w.
Records(entry, row, w) ==
    /\ Effective(row)
    /\ row.req.wallet = w
    /\ entry.amount = row.req.amount
    /\ entry.after = row.balance
    /\ row.req.kind = "BET" => entry.dir = "DEBIT"
    /\ row.req.kind \in {"WIN", "REFUND"} => entry.dir = "CREDIT"

\* Every entry but an opening one records a row, the only one of the ledger to do so.
LedgerRecords(ledger, rows, w) ==
    \A i \in DOMAIN ledger : ledger[i].ext # None =>
        /\ Records(ledger[i], rows[ledger[i].ext], w)
        /\ \A j \in DOMAIN ledger : ledger[j].ext = ledger[i].ext => j = i

HasEntry(ledger, e) == \E i \in DOMAIN ledger : ledger[i].ext = e

\* Ledgers and rows agree; every wager that moves money has an entry.
EntriesMatch(ws, rows) ==
    /\ \A w \in Wallets : ws[w] # None => LedgerRecords(ws[w].ledger, rows, w)
    /\ \A e \in Exts : Effective(rows[e]) =>
         /\ rows[e].req.wallet \in Wallets /\ ws[rows[e].req.wallet] # None
         /\ HasEntry(ws[rows[e].req.wallet].ledger, e)

\* What p announces with a row it writes.
Announced(p, row) ==
    IF row = None THEN {}
    ELSE CASE row.status = "PROCESSED" ->
                IF Financial(row.req.kind) THEN {"Processed", "BalanceChanged"} ELSE {"Processed"}
           [] row.status = "REJECTED" -> {"Rejected"}
           [] OTHER -> IF p \in Clients THEN {"PendingReference"} ELSE {}

CommittedMatch == EntriesMatch(wallets, wagers)

\* A transaction's own entries and events are those of its own rows.
WorkMatch(p, ws, rows, events) ==
    /\ EntriesMatch(ws, rows)
    /\ \A w \in Wallets : ws[w] # None =>
         \A i \in DOMAIN ws[w].ledger : ws[w].ledger[i].ext # None
    /\ \A t \in EventTypes, e \in Exts : <<t, e>> \in events <=> t \in Announced(p, rows[e])

WorkMatches == \A p \in Procs : WorkMatch(p, workWallets[p], workWagers[p], workEvents[p])

HasStatus(row, status) == row # None /\ row.status = status

\* EventsMatchOutcome for the row of e, with the entry of a wager told by its row.
OutboxMatch(e, row, events) ==
    LET once(b) == IF b THEN 1 ELSE 0 IN
    /\ events["Processed"][e] = once(HasStatus(row, "PROCESSED"))
    /\ events["Rejected"][e] = once(HasStatus(row, "REJECTED"))
    /\ events["BalanceChanged"][e] = once(Effective(row))
    /\ events["PendingReference"][e] \in
         IF HasStatus(row, "PENDING_REFERENCE") THEN {1} ELSE {0, once(row # None)}

OutboxMatches == \A e \in Exts : OutboxMatch(e, wagers[e], outbox)

EffectInv == CommittedMatch /\ WorkMatches /\ OutboxMatches

-----------------------------------------------------------------------------
(* Each kind of step preserves RowInv.                                     *)

\* A worker's rows are rows of the table.
LEMMA WorkerExts ==
    ASSUME TypeInv, NEW w \in Workers
    PROVE  /\ Working(w) => Req(w).ext \in Exts
           /\ \A i \in DOMAIN batch[w] : batch[w][i] \in Exts
<1>1. w \in Procs
  BY DEF Procs
<1>2. Working(w) => record[w] \in Rows
  BY <1>1 DEF Working, TypeInv, TypeOK, ControlInv
<1>3. Working(w) => Req(w).ext \in Exts
  BY <1>2, RequestType DEF Req, Rows
<1>4. batch[w] \in Seq(Exts)
  BY <1>1 DEF TypeInv, TypeOK
<1>5. QED
  BY <1>3, <1>4

LEMMA InitRows == Init => RowInv
BY DEF Init, RowInv, RowsNamed, ClientsApart, WorkersHold, WritesOwned, CommitsWritten,
       Inserting, Working, Procs

\* A step of a client before its last statement.
LEMMA ClientRows ==
    ASSUME TypeInv, RowInv, NEW c \in Clients, UNCHANGED wagers,
           \A q \in Procs : q # c => pc'[q] = pc[q] /\ record'[q] = record[q]
                                     /\ batch'[q] = batch[q] /\ workWagers'[q] = workWagers[q],
           workWagers'[c] = workWagers[c],
           \A e \in Exts : wagerLock[e] # None => wagerLock'[e] = wagerLock[e],
           pc[c] # "commit", pc'[c] # "commit",
           pc'[c] \notin {"idle", "reply"} => record'[c] = NewRecord(Req(c)'),
           Inserting(c)' =>
             /\ record'[c] = record[c]
             /\ Inserting(c) \/ (SameExt(c) \cup SameKey(c) = {} /\ InsertConflicts(c) = {})
    PROVE  RowInv'
<1>1. c \in Procs /\ c \notin Workers /\ \A w \in Workers : w \in Procs /\ w # c
  BY WageringAssumption DEF Procs
<1>2. RowsNamed' /\ CommitsWritten'
  BY <1>1 DEF RowInv, RowsNamed, CommitsWritten, Req, Procs
<1>3. ClientsApart'
  <2>1. ASSUME NEW d \in Clients, Inserting(d)'
        PROVE  /\ Req(d)' = Req(d)
               /\ \A e \in Exts : wagers[e] # None => e # Req(d).ext /\ wagers[e].req.key # Req(d).key
               /\ Inserting(d) \/ d = c
    <3>1. CASE d # c
      BY <2>1, <3>1 DEF RowInv, ClientsApart, Inserting, Req, Procs
    <3>2. CASE d = c /\ Inserting(c)
      BY <2>1, <3>2 DEF RowInv, ClientsApart, Req
    <3>3. CASE d = c /\ SameExt(c) \cup SameKey(c) = {}
      BY <2>1, <3>3 DEF RowInv, RowsNamed, SameExt, SameKey, Req
    <3>4. QED
      BY <2>1, <3>1, <3>2, <3>3
  <2>2. ASSUME NEW d \in Clients, NEW f \in Clients \ {d}, Inserting(d)', Inserting(f)'
        PROVE  Req(f).ext # Req(d).ext /\ Req(f).key # Req(d).key
    <3>1. CASE Inserting(d) /\ Inserting(f)
      BY <3>1 DEF RowInv, ClientsApart
    <3>2. CASE d = c /\ ~Inserting(c)
      <4>1. Inserting(f) /\ InsertConflicts(c) = {}
        BY <2>1, <2>2, <3>2
      <4>2. QED
        BY <3>2, <4>1 DEF InsertConflicts
    <3>3. CASE f = c /\ ~Inserting(c)
      <4>1. Inserting(d) /\ InsertConflicts(c) = {}
        BY <2>1, <2>2, <3>3
      <4>2. QED
        BY <3>3, <4>1 DEF InsertConflicts
    <3>4. QED
      BY <2>1, <2>2, <3>1, <3>2, <3>3
  <2>3. \A d \in Clients : pc'[d] \notin {"idle", "reply"} => record'[d] = NewRecord(Req(d)')
    BY DEF RowInv, ClientsApart, Req, Procs
  <2>4. QED
    BY <2>1, <2>2, <2>3 DEF ClientsApart
<1>4. \A w \in Workers, e \in Exts : Claimed(w, e) => Claimed(w, e)'
  BY WageringAssumption DEF Claimed, Procs
<1>5. WorkersHold'
  BY <1>1, <1>4, WorkerExts DEF RowInv, WorkersHold, Working, Req
<1>6. WritesOwned'
  BY <1>1, <1>4 DEF RowInv, WritesOwned, Req
<1>7. QED
  BY <1>2, <1>3, <1>5, <1>6 DEF RowInv

\* A step of a worker on the record in its hands, before it writes the outcome.
LEMMA WorkerRows ==
    ASSUME TypeInv, RowInv, NEW w \in Workers,
           UNCHANGED <<wagers, record, batch, workWagers>>,
           \A q \in Procs : q # w => pc'[q] = pc[q],
           \A e \in Exts : wagerLock[e] # None => wagerLock'[e] = wagerLock[e],
           Working(w), Working(w)'
    PROVE  RowInv'
<1>1. w \in Procs /\ w \notin Clients /\ \A c \in Clients : c \in Procs /\ c # w
  BY WageringAssumption DEF Procs
<1>2. RowsNamed' /\ ClientsApart' /\ CommitsWritten'
  BY <1>1 DEF RowInv, RowsNamed, ClientsApart, CommitsWritten, Inserting, Req
<1>3. \A v \in Workers, e \in Exts : Claimed(v, e) => Claimed(v, e)'
  BY WageringAssumption DEF Claimed, Procs
<1>4. \A v \in Workers : v # w => (Working(v)' <=> Working(v))
  BY DEF Working, Procs
<1>5. WorkersHold'
  BY <1>3, <1>4, WorkerExts DEF RowInv, WorkersHold, Req
<1>6. WritesOwned'
  BY <1>1, <1>3 DEF RowInv, WritesOwned, Req
<1>7. QED
  BY <1>2, <1>5, <1>6 DEF RowInv

\* The claimed rows are waiting and locked by nobody, so nobody has written them.
LEMMA ClaimRows ==
    ASSUME TypeInv, RowInv, NEW w \in Workers, Claim(w)
    PROVE  RowInv'
<1>1. PICK S \in (SUBSET Claimable) \ {{}} :
        /\ \E order \in Orderings(S) :
             /\ batch' = [batch EXCEPT ![w] = Tail(order)]
             /\ record' = [record EXCEPT ![w] = wagers[Head(order)]]
        /\ wagerLock' = [e \in Exts |-> IF e \in S THEN w ELSE wagerLock[e]]
  BY DEF Claim
<1>2. PICK order \in Orderings(S) :
        /\ batch' = [batch EXCEPT ![w] = Tail(order)]
        /\ record' = [record EXCEPT ![w] = wagers[Head(order)]]
  BY <1>1
<1>3. /\ w \in Procs /\ w \notin Clients /\ \A c \in Clients : c \in Procs /\ c # w
      /\ pc[w] = "idle" /\ pc' = [pc EXCEPT ![w] = "lockWallet"]
      /\ UNCHANGED <<wagers, workWagers>>
  BY WageringAssumption DEF Claim, Goto, Procs, db, work
<1>4. S \subseteq Exts /\ \A e \in S : /\ wagers[e] # None /\ wagers[e].status = "PENDING_REFERENCE"
                                       /\ wagers[e].due /\ wagerLock[e] = None
  BY <1>1 DEF Claimable
<1>5. order \in Seq(S) /\ Len(order) \in Nat \ {0} /\ \A i, j \in DOMAIN order : order[i] = order[j] => i = j
  <2>1. IsFiniteSet(S) /\ S # {}
    BY <1>1, <1>4, WageringAssumption, FS_Subset
  <2>2. Cardinality(S) \in Nat \ {0}
    BY <2>1, FS_CardinalityType, FS_EmptySet
  <2>3. order \in [1..Cardinality(S) -> S] /\ \A e \in S : \E i \in DOMAIN order : order[i] = e
    BY <1>2 DEF Orderings
  <2>4. order \in Surjection(1..Cardinality(S), S)
    BY <2>3 DEF Surjection
  <2>5. IsFiniteSet(1..Cardinality(S)) /\ Cardinality(1..Cardinality(S)) = Cardinality(S)
    BY <2>2, FS_Interval
  <2>6. order \in Injection(1..Cardinality(S), S)
    BY <2>1, <2>4, <2>5, FS_SurjSameCardinalityImpliesInj
  <2>7. order \in Seq(S) /\ DOMAIN order = 1..Cardinality(S) /\ Len(order) = Cardinality(S)
    BY <2>2, <2>3
  <2>8. QED
    BY <2>2, <2>6, <2>7 DEF Injection, IsInjective
<1>6. /\ Head(order) = order[1] /\ Head(order) \in S
      /\ Tail(order) \in Seq(S) /\ Len(Tail(order)) = Len(order) - 1
      /\ \A i \in DOMAIN Tail(order) : Tail(order)[i] = order[i + 1] /\ i + 1 \in DOMAIN order
  BY <1>5
<1>7. /\ \A i \in DOMAIN Tail(order) : Tail(order)[i] \in S /\ Tail(order)[i] # Head(order)
      /\ \A i, j \in DOMAIN Tail(order) : Tail(order)[i] = Tail(order)[j] => j = i
  BY <1>5, <1>6
<1>8. RowsNamed' /\ ClientsApart' /\ CommitsWritten'
  <2>1. \A c \in Clients : pc'[c] = pc[c] /\ record'[c] = record[c]
    BY <1>2, <1>3
  <2>2. QED
    BY <1>3, <2>1 DEF RowInv, RowsNamed, ClientsApart, CommitsWritten, Inserting, Req
<1>9. \A v \in Workers, e \in Exts : Claimed(v, e) => Claimed(v, e)'
  BY <1>1, <1>3, <1>4, WageringAssumption DEF Claimed, Procs
<1>10. \A e \in S : Claimed(w, e)' /\ workWagers'[w][e] = None
  <2>1. \A e \in S : Claimed(w, e)'
    BY <1>1, <1>3, <1>4 DEF Claimed
  <2>2. \A e \in S : workWagers[w][e] = None
    BY <1>3, <1>4, WageringAssumption DEF RowInv, WritesOwned, Claimed
  <2>3. QED
    BY <1>3, <2>1, <2>2
<1>11. record'[w] = wagers[Head(order)] /\ Req(w)'.ext = Head(order) /\ batch'[w] = Tail(order)
  <2>1. record'[w] = wagers[Head(order)] /\ batch'[w] = Tail(order)
    BY <1>2, <1>3 DEF TypeInv, TypeOK
  <2>2. wagers[Head(order)].req.ext = Head(order)
    BY <1>4, <1>6 DEF RowInv, RowsNamed
  <2>3. QED
    BY <2>1, <2>2 DEF Req
<1>12. WorkersHold'
  <2>1. ASSUME NEW v \in Workers, v # w
        PROVE  /\ Working(v)' <=> Working(v)
               /\ batch'[v] = batch[v] /\ Req(v)' = Req(v) /\ record'[v] = record[v]
    <3>1. v \in Procs
      BY DEF Procs
    <3>2. QED
      BY <1>2, <1>3, <2>1, <3>1 DEF Working, Req, TypeInv, TypeOK
  <2>2. Working(w)'
    BY <1>3 DEF Working, TypeInv, TypeOK
  <2>3. /\ Claimed(w, Req(w).ext)' /\ record'[w] = wagers'[Req(w)'.ext]
        /\ workWagers'[w][Req(w)'.ext] = None
    BY <1>3, <1>6, <1>10, <1>11 DEF Claimed
  <2>4. \A i \in DOMAIN batch'[w] :
          /\ Claimed(w, batch[w][i])'
          /\ workWagers'[w][batch'[w][i]] = None
          /\ batch'[w][i] # Req(w)'.ext
          /\ \A j \in DOMAIN batch'[w] : batch'[w][j] = batch'[w][i] => j = i
    BY <1>7, <1>10, <1>11 DEF Claimed
  <2>5. ASSUME NEW v \in Workers, v # w
        PROVE  /\ ~Working(v)' => batch'[v] = << >>
               /\ Working(v)' => /\ Claimed(v, Req(v).ext)'
                                 /\ record'[v] = wagers'[Req(v)'.ext]
                                 /\ workWagers'[v][Req(v)'.ext] = None
               /\ \A i \in DOMAIN batch'[v] :
                    /\ Claimed(v, batch[v][i])'
                    /\ workWagers'[v][batch'[v][i]] = None
                    /\ batch'[v][i] # Req(v)'.ext
                    /\ \A j \in DOMAIN batch'[v] : batch'[v][j] = batch'[v][i] => j = i
    BY <1>3, <1>9, <2>1, <2>5, WorkerExts DEF RowInv, WorkersHold, Claimed
  <2>6. QED
    BY <2>2, <2>3, <2>4, <2>5 DEF WorkersHold
<1>13. WritesOwned'
  <2>1. \A c \in Clients : pc'[c] = pc[c] /\ record'[c] = record[c]
    BY <1>2, <1>3
  <2>2. QED
    BY <1>3, <1>9, <2>1, WageringAssumption DEF RowInv, WritesOwned, Req
<1>14. QED
  BY <1>8, <1>12, <1>13 DEF RowInv

\* The end of a transaction, provided the rows the others hold stay as they are
\* and no row appears that an insert of theirs excludes.
LEMMA EndRows ==
    ASSUME TypeInv, RowInv, NEW p \in Procs, EndTransaction(p),
           \A q \in Procs : q # p => pc'[q] = pc[q],
           pc'[p] \in {"idle", "reply"},
           RowsNamed',
           \A w \in Workers, e \in Exts : w # p /\ Claimed(w, e) => wagers'[e] = wagers[e],
           \A c \in Clients : c # p /\ Inserting(c) => \A e \in Exts :
              wagers'[e] # None => e # Req(c).ext /\ wagers'[e].req.key # Req(c).key
    PROVE  RowInv'
<1>1. \A q \in Procs : q # p =>
         /\ pc'[q] = pc[q] /\ record'[q] = record[q] /\ batch'[q] = batch[q]
         /\ workWagers'[q] = workWagers[q]
  BY DEF EndTransaction, TypeInv, TypeOK
<1>2. batch'[p] = << >> /\ \A e \in Exts : workWagers'[p][e] = None
  BY DEF EndTransaction, TypeInv, TypeOK
<1>3. \A c \in Clients : c \in Procs
  BY DEF Procs
<1>4. \A w \in Workers : w \in Procs
  BY DEF Procs
<1>5. \A w \in Workers, e \in Exts : w # p /\ Claimed(w, e) => Claimed(w, e)'
  BY DEF Claimed, EndTransaction
<1>6. ClientsApart' /\ CommitsWritten'
  BY <1>1, <1>3 DEF RowInv, ClientsApart, CommitsWritten, Inserting, Req
<1>7. WorkersHold'
  <2>1. ASSUME NEW w \in Workers, w # p
        PROVE  /\ ~Working(w)' => batch'[w] = << >>
               /\ Working(w)' => /\ Claimed(w, Req(w).ext)'
                                 /\ record'[w] = wagers'[Req(w)'.ext]
                                 /\ workWagers'[w][Req(w)'.ext] = None
               /\ \A i \in DOMAIN batch'[w] :
                    /\ Claimed(w, batch[w][i])'
                    /\ workWagers'[w][batch'[w][i]] = None
                    /\ batch'[w][i] # Req(w)'.ext
                    /\ \A j \in DOMAIN batch'[w] : batch'[w][j] = batch'[w][i] => j = i
    <3>1. /\ Req(w)' = Req(w) /\ (Working(w)' <=> Working(w)) /\ record'[w] = record[w]
          /\ batch'[w] = batch[w] /\ workWagers'[w] = workWagers[w]
      BY <1>1, <1>4, <2>1 DEF Req, Working
    <3>2. Working(w) => wagers'[Req(w).ext] = wagers[Req(w).ext] /\ Claimed(w, Req(w).ext)'
      BY <1>5, <2>1, <3>1, WorkerExts DEF RowInv, WorkersHold, Claimed
    <3>3. \A i \in DOMAIN batch[w] : Claimed(w, batch[w][i])'
      BY <1>5, <2>1, <3>1, WorkerExts DEF RowInv, WorkersHold, Claimed
    <3>4. QED
      BY <3>1, <3>2, <3>3 DEF RowInv, WorkersHold
  <2>2. p \in Workers => ~Working(p)' /\ DOMAIN batch'[p] = {}
    BY <1>2 DEF Working
  <2>3. QED
    BY <1>2, <2>1, <2>2 DEF WorkersHold
<1>8. WritesOwned'
  <2>1. SUFFICES ASSUME NEW q \in Procs, NEW e \in Exts, workWagers'[q][e] # None
                 PROVE  /\ workWagers'[q][e].status \in Settled
                        /\ q \in Clients => /\ pc'[q] = "commit" /\ e = Req(q)'.ext
                                            /\ workWagers'[q][e].req = Req(q)'
                        /\ q \in Workers => /\ Claimed(q, e)'
                                            /\ workWagers'[q][e].req = wagers'[e].req
    BY DEF WritesOwned
  <2>2. /\ q # p /\ workWagers'[q][e] = workWagers[q][e] /\ Req(q)' = Req(q)
        /\ pc'[q] = pc[q]
    BY <1>1, <1>2, <2>1 DEF Req
  <2>3. QED
    BY <1>5, <2>1, <2>2 DEF RowInv, WritesOwned
<1>9. QED
  BY <1>6, <1>7, <1>8 DEF RowInv

\* A transaction that ends without a commit.
LEMMA QuitRows ==
    ASSUME TypeInv, RowInv, NEW p \in Procs, EndTransaction(p), UNCHANGED wagers,
           \A q \in Procs : q # p => pc'[q] = pc[q],
           pc'[p] \in {"idle", "reply"}
    PROVE  RowInv'
<1>1. RowsNamed'
  BY DEF RowInv, RowsNamed
<1>2. \A c \in Clients : Inserting(c) => \A e \in Exts :
         wagers'[e] # None => e # Req(c).ext /\ wagers'[e].req.key # Req(c).key
  BY DEF RowInv, ClientsApart
<1>3. QED
  BY <1>1, <1>2, EndRows

\* A commit changes the rows that its transaction alone may write.
LEMMA CommitRows ==
    ASSUME TypeInv, RowInv, NEW p \in Procs, Commit(p)
    PROVE  RowInv'
<1>1. /\ EndTransaction(p) /\ pc[p] = "commit"
      /\ \A e \in Exts : wagers'[e] = IF workWagers[p][e] # None THEN workWagers[p][e]
                                      ELSE wagers[e]
  BY DEF Commit, View
<1>2. /\ \A q \in Procs : q # p => pc'[q] = pc[q]
      /\ pc'[p] \in {"idle", "reply"}
  BY DEF Commit, Goto, TypeInv, TypeOK
<1>3. RowsNamed'
  BY <1>1, WageringAssumption DEF RowInv, RowsNamed, WritesOwned, Claimed, Procs
<1>4. ASSUME NEW w \in Workers, NEW e \in Exts, w # p, Claimed(w, e)
      PROVE  wagers'[e] = wagers[e]
  <2>1. workWagers[p][e] = None
    <3>1. CASE p \in Workers
      BY <1>4, <3>1 DEF RowInv, WritesOwned, Claimed
    <3>2. CASE p \in Clients
      BY <1>1, <1>4, <3>2 DEF RowInv, WritesOwned, ClientsApart, Inserting, Claimed
    <3>3. QED
      BY <3>1, <3>2 DEF Procs
  <2>2. QED
    BY <1>1, <2>1
<1>5. ASSUME NEW c \in Clients, c # p, Inserting(c), NEW e \in Exts, wagers'[e] # None
      PROVE  e # Req(c).ext /\ wagers'[e].req.key # Req(c).key
  <2>1. CASE workWagers[p][e] = None
    BY <1>1, <1>5, <2>1 DEF RowInv, ClientsApart
  <2>2. CASE workWagers[p][e] # None /\ p \in Workers
    BY <1>1, <1>5, <2>2 DEF RowInv, ClientsApart, WritesOwned, Claimed
  <2>3. CASE workWagers[p][e] # None /\ p \in Clients
    <3>1. wagers'[e].req = Req(p) /\ e = Req(p).ext /\ Inserting(p)
      BY <1>1, <2>3 DEF RowInv, WritesOwned, Inserting
    <3>2. Req(p).ext # Req(c).ext /\ Req(p).key # Req(c).key
      BY <1>5, <2>3, <3>1 DEF RowInv, ClientsApart
    <3>3. QED
      BY <3>1, <3>2
  <2>4. QED
    BY <2>1, <2>2, <2>3 DEF Procs
<1>6. QED
  BY <1>1, <1>2, <1>3, <1>4, <1>5, EndRows

\* A row somebody has claimed is due already.
LEMMA MakeDueRows ==
    ASSUME TypeInv, RowInv, NEW e \in Exts, MakeDue(e)
    PROVE  RowInv'
<1>1. /\ wagers[e] # None /\ wagers[e] \in Rows /\ ~wagers[e].due
      /\ wagers[e].status = "PENDING_REFERENCE"
      /\ wagers' = [wagers EXCEPT ![e].due = TRUE]
      /\ UNCHANGED <<wagerLock, pc, record, batch, workWagers>>
  BY DEF MakeDue, TypeInv, TypeOK, locks, work
<1>2. /\ \A f \in Exts : f # e => wagers'[f] = wagers[f]
      /\ wagers'[e].req = wagers[e].req /\ wagers'[e].status = wagers[e].status
      /\ wagers'[e] \in Rows
  BY <1>1, RowDue DEF TypeInv, TypeOK, Rows
<1>3. \A w \in Workers, f \in Exts : Claimed(w, f) => Claimed(w, f)' /\ wagers'[f] = wagers[f]
  BY <1>1, <1>2 DEF Claimed
<1>4. RowsNamed'
  BY <1>1, <1>2 DEF RowInv, RowsNamed
<1>5. ClientsApart' /\ CommitsWritten'
  BY <1>1, <1>2 DEF RowInv, ClientsApart, CommitsWritten, Inserting, Req
<1>6. WorkersHold'
  BY <1>1, <1>3, WorkerExts DEF RowInv, WorkersHold, Working, Req
<1>7. WritesOwned'
  BY <1>1, <1>3 DEF RowInv, WritesOwned, Req
<1>8. QED
  BY <1>4, <1>5, <1>6, <1>7 DEF RowInv

-----------------------------------------------------------------------------
(* The outcome a process writes.                                           *)

\* What p writes at the end of a record: a settled row of its request, the events
\* that tell it, and the movement of the wallet if the row says that there is one.
WritesOutcome(p, row, wallet) ==
    /\ row.req = Req(p)
    /\ row.status \in Settled
    /\ Write(p, row, wallet, Announced(p, row))
    /\ row.status = "PROCESSED" => verdict[p] = "resolved"
    /\ IF Effective(row)
       THEN /\ wallet = Move(Wallet(p), Req(p).ext, Dir(p), Req(p).amount)
            /\ row.balance = wallet.balance
       ELSE wallet = Wallet(p)

LEMMA OutcomeFields ==
    ASSUME TypeInv, NEW p \in Procs, pc[p] = "settle", NEW status \in Statuses,
           NEW code \in Codes \cup {None}
    PROVE  /\ Outcome(p, status, code) \in Rows
           /\ Outcome(p, status, code).req = Req(p)
           /\ Outcome(p, status, code).status = status
<1>1. record[p] \in Rows
  BY SettleContext
<1>2. QED
  BY <1>1, OutcomeType DEF Outcome, Rows, Req

\* An outcome may come with a due time or one attempt more.
LEMMA RowTouched ==
    ASSUME NEW row \in Rows
    PROVE  /\ LET due == [row EXCEPT !.due = TRUE] IN
              due \in Rows /\ due.req = row.req /\ due.status = row.status
           /\ LET later == [row EXCEPT !.attempts = @ + 1] IN
              later \in Rows /\ later.req = row.req /\ later.status = row.status
<1>1. [row EXCEPT !.due = TRUE] \in Rows /\ [row EXCEPT !.attempts = @ + 1] \in Rows
  <2>1. None \in Nat \cup {None}
    OBVIOUS
  <2>2. QED
    BY <2>1, RowUpdate
<1>2. QED
  BY <1>1 DEF Rows

LEMMA SettleOutcome ==
    ASSUME TypeInv, NEW p \in Procs, SettleStep(p)
    PROVE  \E row \in Rows, wallet \in WalletSpace : WritesOutcome(p, row, wallet)
<1>1. pc[p] = "settle"
  BY SettleShape
<1>2. Wallet(p) \in WalletSpace
  BY <1>1, SettleContext
<1>3. CASE Reject(p)
  <2> DEFINE row == Outcome(p, "REJECTED", Refusal(p))
  <2>1. Refusal(p) \in Codes \cup {None}
    BY <1>1, SettleContext DEF Refusal, RefusalCode, Codes
  <2>2. row \in Rows /\ row.req = Req(p) /\ row.status = "REJECTED"
    BY <1>1, <2>1, OutcomeFields DEF Statuses
  <2>3. Write(p, row, Wallet(p), {"Rejected"})
    BY <1>3 DEF Reject
  <2> HIDE DEF row
  <2>4. ~Effective(row) /\ Announced(p, row) = {"Rejected"}
    BY <2>2, NoneAssumption DEF Effective, Announced
  <2>5. WritesOutcome(p, row, Wallet(p))
    BY <2>2, <2>3, <2>4 DEF WritesOutcome, Settled
  <2>6. QED
    BY <1>2, <2>2, <2>5
<1>4. CASE MarkProcessed(p)
  <2> DEFINE r == Req(p)
             moved == Move(Wallet(p), r.ext, Dir(p), r.amount)
             processed == Outcome(p, "PROCESSED", None)
             row == [processed EXCEPT !.balance = moved.balance]
  <2>1. r.ref \in Exts \cup {None} /\ r.ext \in Exts /\ r.amount \in Nat
    BY <1>1, SettleContext
  <2>2. processed \in Rows /\ processed.req = r /\ processed.status = "PROCESSED"
    BY <1>1, OutcomeFields DEF Statuses
  <2>3. /\ verdict[p] = "resolved" /\ Refusal(p) = None
        /\ IF Financial(r.kind)
           THEN Write(p, row, moved, {"Processed", "BalanceChanged"})
           ELSE Write(p, processed, Wallet(p), {"Processed"})
    BY <1>4 DEF MarkProcessed
  <2>4. CASE Financial(r.kind)
    <3>1. Dir(p) \in {"DEBIT", "CREDIT"}
      BY DEF Dir, Direction
    <3>2. RefusalCode(r.kind) # None
      BY VerdictIsSomething DEF RefusalCode, Codes
    <3>3. Accepts(Wallet(p).balance, Dir(p), r.amount)
      BY <2>3, <2>4, <3>2 DEF Refusal
    <3>4. moved \in WalletSpace
      BY <1>2, <2>1, <3>1, <3>3, MoveType
    <3> HIDE DEF processed, moved
    <3>5. moved.balance \in Nat \cup {None}
      BY <3>4, MaxMoneyAssumption DEF WalletSpace
    <3>6. row \in Rows /\ row.req = r /\ row.status = "PROCESSED" /\ row.balance = moved.balance
      BY <2>2, <3>5 DEF Rows
    <3> HIDE DEF row
    <3>7. Effective(row) /\ Announced(p, row) = {"Processed", "BalanceChanged"}
      BY <2>4, <3>6, NoneAssumption DEF Effective, Announced
    <3>8. WritesOutcome(p, row, moved)
      BY <2>3, <2>4, <3>6, <3>7 DEF WritesOutcome, Settled, moved
    <3>9. QED
      BY <3>4, <3>6, <3>8
  <2>5. CASE ~Financial(r.kind)
    <3> HIDE DEF processed
    <3>1. ~Effective(processed) /\ Announced(p, processed) = {"Processed"}
      BY <2>2, <2>5, NoneAssumption DEF Effective, Announced
    <3>2. WritesOutcome(p, processed, Wallet(p))
      BY <2>2, <2>3, <2>5, <3>1 DEF WritesOutcome, Settled
    <3>3. QED
      BY <1>2, <2>2, <3>2
  <2>6. QED
    BY <2>4, <2>5
<1>5. CASE MarkPendingReference(p)
  <2> DEFINE row == [Outcome(p, "PENDING_REFERENCE", "REFERENCE_PENDING") EXCEPT !.due = TRUE]
  <2>1. row \in Rows /\ row.req = Req(p) /\ row.status = "PENDING_REFERENCE"
    <3>1. LET o == Outcome(p, "PENDING_REFERENCE", "REFERENCE_PENDING") IN
          o \in Rows /\ o.req = Req(p) /\ o.status = "PENDING_REFERENCE"
      BY <1>1, OutcomeFields DEF Statuses, Codes
    <3>2. QED
      BY <3>1, RowTouched
  <2>2. p \in Clients /\ Write(p, row, Wallet(p), {"PendingReference"})
    BY <1>5 DEF MarkPendingReference
  <2> HIDE DEF row
  <2>3. ~Effective(row) /\ Announced(p, row) = {"PendingReference"}
    BY <2>1, <2>2, NoneAssumption DEF Effective, Announced
  <2>4. WritesOutcome(p, row, Wallet(p))
    BY <2>1, <2>2, <2>3 DEF WritesOutcome, Settled
  <2>5. QED
    BY <1>2, <2>1, <2>4
<1>6. CASE RetryLater(p)
  <2> DEFINE row == [Outcome(p, "PENDING_REFERENCE", "REFERENCE_PENDING") EXCEPT
                       !.attempts = @ + 1]
  <2>1. row \in Rows /\ row.req = Req(p) /\ row.status = "PENDING_REFERENCE"
    <3>1. LET o == Outcome(p, "PENDING_REFERENCE", "REFERENCE_PENDING") IN
          o \in Rows /\ o.req = Req(p) /\ o.status = "PENDING_REFERENCE"
      BY <1>1, OutcomeFields DEF Statuses, Codes
    <3>2. QED
      BY <3>1, RowTouched
  <2>2. p \notin Clients /\ Write(p, row, Wallet(p), {})
    BY <1>6, WageringAssumption DEF RetryLater
  <2> HIDE DEF row
  <2>3. ~Effective(row) /\ Announced(p, row) = {}
    BY <2>1, <2>2, NoneAssumption DEF Effective, Announced
  <2>4. WritesOutcome(p, row, Wallet(p))
    BY <2>1, <2>2, <2>3 DEF WritesOutcome, Settled
  <2>5. QED
    BY <1>2, <2>1, <2>4
<1>7. CASE GiveUp(p)
  <2> DEFINE row == [Outcome(p, "REJECTED", "REFERENCE_NOT_FOUND") EXCEPT !.attempts = @ + 1]
  <2>1. row \in Rows /\ row.req = Req(p) /\ row.status = "REJECTED"
    <3>1. LET o == Outcome(p, "REJECTED", "REFERENCE_NOT_FOUND") IN
          o \in Rows /\ o.req = Req(p) /\ o.status = "REJECTED"
      BY <1>1, OutcomeFields DEF Statuses, Codes
    <3>2. QED
      BY <3>1, RowTouched
  <2>2. Write(p, row, Wallet(p), {"Rejected"})
    BY <1>7 DEF GiveUp
  <2> HIDE DEF row
  <2>3. ~Effective(row) /\ Announced(p, row) = {"Rejected"}
    BY <2>1, NoneAssumption DEF Effective, Announced
  <2>4. WritesOutcome(p, row, Wallet(p))
    BY <2>1, <2>2, <2>3 DEF WritesOutcome, Settled
  <2>5. QED
    BY <1>2, <2>1, <2>4
<1>8. QED
  BY <1>3, <1>4, <1>5, <1>6, <1>7 DEF SettleStep

\* What the continuation after a write leaves of the rows in hand.
LEMMA ContinueShape ==
    ASSUME TypeInv, NEW p \in Procs, Continue(p)
    PROVE  /\ UNCHANGED <<wallets, wagers, outbox, walletLock, wagerLock, reply>>
           /\ verdict' = [verdict EXCEPT ![p] = None]
           /\ \A q \in Procs : q # p =>
                pc'[q] = pc[q] /\ record'[q] = record[q] /\ batch'[q] = batch[q]
           /\ \/ /\ pc'[p] = "commit"
                 /\ UNCHANGED <<record, batch>>
                 /\ p \in Workers => batch[p] = << >>
              \/ /\ p \in Workers
                 /\ batch[p] # << >>
                 /\ pc'[p] = "lockWallet"
                 /\ record'[p] = wagers[Head(batch[p])]
                 /\ batch'[p] = Tail(batch[p])
BY WageringAssumption DEF Continue, NextRecord, Goto, Procs, TypeInv, TypeOK, db, locks

\* The write of an outcome: the row is the one its process may write.
LEMMA SettleRows ==
    ASSUME TypeInv, RowInv, NEW p \in Procs, SettleStep(p)
    PROVE  RowInv'
<1>1. pc[p] = "settle" /\ Continue(p)
  BY SettleShape
<1>2. PICK row \in Rows, wallet \in WalletSpace : WritesOutcome(p, row, wallet)
  BY SettleOutcome
<1> DEFINE e == Req(p).ext
<1>3. e \in Exts /\ row # None /\ row.req = Req(p) /\ row.status \in Settled
  BY <1>1, <1>2, SettleContext, NoneAssumption DEF WritesOutcome
<1>4. /\ workWagers'[p][e] = row
      /\ \A q \in Procs, f \in Exts : q # p \/ f # e => workWagers'[q][f] = workWagers[q][f]
      /\ \A q \in Procs : q # p => workWagers'[q] = workWagers[q]
  BY <1>2, <1>3 DEF WritesOutcome, Write, TypeInv, TypeOK
<1>5. /\ UNCHANGED <<wagers, wagerLock>>
      /\ \A q \in Procs : q # p =>
           pc'[q] = pc[q] /\ record'[q] = record[q] /\ batch'[q] = batch[q]
  BY <1>1, ContinueShape
<1> HIDE DEF e
<1>6. /\ RowsNamed'
      /\ \A v \in Workers, f \in Exts : Claimed(v, f)' <=> Claimed(v, f)
  BY <1>5 DEF RowInv, RowsNamed, Claimed
<1>7. CASE p \in Clients
  <2>1. p \notin Workers /\ pc'[p] = "commit" /\ UNCHANGED <<record, batch>>
    BY <1>1, <1>7, ContinueShape, WageringAssumption
  <2>2. \A w \in Workers : w \in Procs /\ w # p
    BY <2>1 DEF Procs
  <2>3. \A c \in Clients : Inserting(c)' <=> Inserting(c)
    BY <1>1, <1>5, <2>1 DEF Inserting, Procs
  <2>4. ClientsApart'
    BY <1>1, <1>5, <2>1, <2>3 DEF RowInv, ClientsApart, Req, Procs
  <2>5. WorkersHold'
    BY <1>4, <1>5, <1>6, <2>1, <2>2, WorkerExts DEF RowInv, WorkersHold, Working, Req
  <2>6. WritesOwned'
    BY <1>1, <1>3, <1>4, <1>5, <1>6, <2>1, <2>2 DEF RowInv, WritesOwned, Req, e
  <2>7. CommitsWritten'
    <3>1. ASSUME NEW c \in Clients, pc'[c] = "commit"
          PROVE  workWagers'[c][Req(c)'.ext] # None
      <4>1. CASE c = p
        BY <1>3, <1>4, <2>1, <4>1 DEF Req, e
      <4>2. CASE c # p
        BY <1>4, <1>5, <2>1, <3>1, <4>2 DEF RowInv, CommitsWritten, Req, Procs
      <4>3. QED
        BY <4>1, <4>2
    <3>2. QED
      BY <3>1 DEF CommitsWritten
  <2>8. QED
    BY <1>6, <2>4, <2>5, <2>6, <2>7 DEF RowInv
<1>8. CASE p \in Workers
  <2>1. p \notin Clients /\ \A c \in Clients : c \in Procs /\ c # p
    BY <1>8, WageringAssumption DEF Procs
  <2>2. ClientsApart' /\ CommitsWritten'
    BY <1>4, <1>5, <2>1 DEF RowInv, ClientsApart, CommitsWritten, Inserting, Req
  <2>3. /\ Claimed(p, e) /\ record[p] = wagers[e] /\ wagers[e].req = row.req
        /\ \A i \in DOMAIN batch[p] :
             /\ Claimed(p, batch[p][i]) /\ workWagers[p][batch[p][i]] = None
             /\ batch[p][i] # e
             /\ \A j \in DOMAIN batch[p] : batch[p][j] = batch[p][i] => j = i
    BY <1>1, <1>3, <1>8 DEF RowInv, WorkersHold, Working, Req, e
  <2>4. WritesOwned'
    <3>1. SUFFICES ASSUME NEW q \in Procs, NEW f \in Exts, workWagers'[q][f] # None
                   PROVE  /\ workWagers'[q][f].status \in Settled
                          /\ q \in Clients => /\ pc'[q] = "commit" /\ f = Req(q)'.ext
                                              /\ workWagers'[q][f].req = Req(q)'
                          /\ q \in Workers => /\ Claimed(q, f)'
                                              /\ workWagers'[q][f].req = wagers'[f].req
      BY DEF WritesOwned
    <3>2. CASE q = p /\ f = e
      BY <1>3, <1>4, <1>5, <1>6, <2>1, <2>3, <3>2
    <3>3. CASE q # p \/ f # e
      <4>1. workWagers'[q][f] = workWagers[q][f] /\ workWagers[q][f] # None
        BY <1>4, <3>1, <3>3
      <4>2. /\ workWagers[q][f].status \in Settled
            /\ q \in Clients => pc[q] = "commit" /\ f = Req(q).ext /\ workWagers[q][f].req = Req(q)
            /\ q \in Workers => Claimed(q, f) /\ workWagers[q][f].req = wagers[f].req
        BY <4>1 DEF RowInv, WritesOwned
      <4>3. q \in Clients => pc'[q] = pc[q] /\ Req(q)' = Req(q)
        BY <1>5, <2>1 DEF Req
      <4>4. QED
        BY <1>5, <1>6, <4>1, <4>2, <4>3
    <3>4. QED
      BY <3>2, <3>3
  <2>5. ASSUME NEW v \in Workers, v # p
        PROVE  /\ ~Working(v)' => batch'[v] = << >>
               /\ Working(v)' => /\ Claimed(v, Req(v).ext)'
                                 /\ record'[v] = wagers'[Req(v)'.ext]
                                 /\ workWagers'[v][Req(v)'.ext] = None
               /\ \A i \in DOMAIN batch'[v] :
                    /\ Claimed(v, batch[v][i])'
                    /\ workWagers'[v][batch'[v][i]] = None
                    /\ batch'[v][i] # Req(v)'.ext
                    /\ \A j \in DOMAIN batch'[v] : batch'[v][j] = batch'[v][i] => j = i
    <3>1. /\ Req(v)' = Req(v) /\ (Working(v)' <=> Working(v)) /\ record'[v] = record[v]
          /\ batch'[v] = batch[v]
      BY <1>5, <2>5 DEF Req, Working, Procs
    <3>2. \A f \in Exts : workWagers'[v][f] = workWagers[v][f]
      BY <1>4, <2>5 DEF Procs
    <3>3. QED
      BY <1>5, <1>6, <3>1, <3>2, WorkerExts DEF RowInv, WorkersHold, Claimed
  <2>6. /\ ~Working(p)' => batch'[p] = << >>
        /\ Working(p)' => /\ Claimed(p, Req(p).ext)'
                          /\ record'[p] = wagers'[Req(p)'.ext]
                          /\ workWagers'[p][Req(p)'.ext] = None
        /\ \A i \in DOMAIN batch'[p] :
             /\ Claimed(p, batch[p][i])'
             /\ workWagers'[p][batch'[p][i]] = None
             /\ batch'[p][i] # Req(p)'.ext
             /\ \A j \in DOMAIN batch'[p] : batch'[p][j] = batch'[p][i] => j = i
    <3>1. CASE pc'[p] = "commit" /\ UNCHANGED <<record, batch>> /\ batch[p] = << >>
      BY <3>1 DEF Working
    <3>2. CASE /\ batch[p] # << >> /\ pc'[p] = "lockWallet"
               /\ record'[p] = wagers[Head(batch[p])] /\ batch'[p] = Tail(batch[p])
      <4>1. batch[p] \in Seq(Exts)
        BY DEF TypeInv, TypeOK
      <4>2. /\ Head(batch[p]) = batch[p][1] /\ 1 \in DOMAIN batch[p]
            /\ Tail(batch[p]) \in Seq(Exts) /\ Len(Tail(batch[p])) = Len(batch[p]) - 1
        BY <3>2, <4>1
      <4>3. \A i \in DOMAIN Tail(batch[p]) :
              Tail(batch[p])[i] = batch[p][i + 1] /\ i + 1 \in DOMAIN batch[p] /\ i + 1 # 1
        BY <3>2, <4>1, <4>2
      <4>4. /\ Head(batch[p]) \in Exts /\ Claimed(p, Head(batch[p]))
            /\ workWagers[p][Head(batch[p])] = None /\ Head(batch[p]) # e
        BY <2>3, <4>1, <4>2
      <4>5. Req(p)'.ext = Head(batch[p])
        BY <3>2, <4>4 DEF Req, RowInv, RowsNamed, Claimed
      <4>6. \A i \in DOMAIN Tail(batch[p]) :
              /\ Tail(batch[p])[i] \in Exts /\ Claimed(p, Tail(batch[p])[i])
              /\ workWagers[p][Tail(batch[p])[i]] = None /\ Tail(batch[p])[i] # e
              /\ Tail(batch[p])[i] # Head(batch[p])
        BY <2>3, <4>1, <4>2, <4>3
      <4>7. \A i, j \in DOMAIN Tail(batch[p]) : Tail(batch[p])[j] = Tail(batch[p])[i] => j = i
        BY <2>3, <4>1, <4>2, <4>3
      <4>8. /\ workWagers'[p][Head(batch[p])] = None
            /\ \A i \in DOMAIN Tail(batch[p]) : workWagers'[p][Tail(batch[p])[i]] = None
        BY <1>4, <4>4, <4>6
      <4>9. QED
        BY <1>5, <1>6, <3>2, <4>4, <4>5, <4>6, <4>7, <4>8 DEF Working, Claimed
    <3>3. QED
      BY <1>1, <1>8, <3>1, <3>2, ContinueShape
  <2>7. QED
    BY <1>6, <2>2, <2>4, <2>5, <2>6 DEF RowInv, WorkersHold
<1>9. QED
  BY <1>7, <1>8 DEF Procs

\* A step on the record in hand that moves p from one statement to the next.
LEMMA MoveOnRows ==
    ASSUME TypeInv, RowInv, NEW p \in Procs, NEW next, pc[p] # "commit",
           UNCHANGED <<wagers, record, batch, workWagers>>,
           Goto(p, next), next \in Labels \ {"commit"},
           \A e \in Exts : wagerLock[e] # None => wagerLock'[e] = wagerLock[e],
           p \in Clients =>
             /\ pc[p] \notin {"idle", "reply"} \/ next \in {"idle", "reply"}
             /\ next \in {"resolve", "reversal", "settle"} =>
                  Inserting(p) \/ (SameExt(p) \cup SameKey(p) = {} /\ InsertConflicts(p) = {}),
           p \in Workers => Working(p) /\ next \in {"lockWallet", "resolve", "reversal", "settle"}
    PROVE  RowInv'
<1>1. pc'[p] = next /\ \A q \in Procs : q # p => pc'[q] = pc[q]
  BY DEF Goto, TypeInv, TypeOK
<1>2. CASE p \in Clients
  <2>1. next \notin {"idle", "reply"} => record'[p] = NewRecord(Req(p)')
    BY <1>2 DEF RowInv, ClientsApart, Req
  <2>2. QED
    BY <1>1, <1>2, <2>1, ClientRows DEF Inserting
<1>3. CASE p \in Workers
  BY <1>1, <1>3, WorkerRows DEF Working
<1>4. QED
  BY <1>2, <1>3 DEF Procs

LEMMA RowStep ==
    ASSUME TypeInv, RowInv, [Next]_vars
    PROVE  RowInv'
<1>1. CASE UNCHANGED vars
  BY <1>1 DEF vars, RowInv, RowsNamed, ClientsApart, WorkersHold, WritesOwned, CommitsWritten,
              Inserting, Working, Claimed, Req
<1>2. ASSUME NEW p \in Procs, SettleStep(p) PROVE RowInv'
  BY <1>2, SettleRows
<1>3. ASSUME NEW c \in Clients, NEW answer, ReplyWithoutEffect(c, answer) PROVE RowInv'
  <2>1. /\ \A q \in Procs : q # c => pc'[q] = pc[q]
        /\ c \in Procs /\ pc'[c] = "reply" /\ UNCHANGED wagers /\ EndTransaction(c)
    BY <1>3 DEF ReplyWithoutEffect, Goto, Procs, TypeInv, TypeOK, db
  <2>2. QED
    BY <2>1, QuitRows
<1>4. ASSUME NEW c \in Clients, NEW here, NEW hits, NEW next,
             Find(c, here, hits, Goto(c, next)),
             here \in {"findKey", "findExt", "refindKey"},
             next \in {"findExt", "lockWallet", "refindExt"}
      PROVE  RowInv'
  <2>1. CASE Goto(c, next) /\ UNCHANGED <<db, locks, record, batch, verdict, work, reply>>
    <3>1. /\ pc[c] = here /\ c \in Procs /\ c \notin Workers
          /\ UNCHANGED <<wagers, wagerLock, record, batch, workWagers>>
          /\ next \in Labels \ {"commit"}
      BY <1>4, <2>1, WageringAssumption DEF Find, db, locks, work, Procs, Labels
    <3>2. QED
      BY <1>4, <2>1, <3>1, MoveOnRows
  <2>2. QED
    BY <1>3, <1>4, <2>1 DEF Find
<1>5. ASSUME NEW c \in Clients, NEW r \in Requests, Submit(c, r) PROVE RowInv'
  <2>1. /\ pc[c] = "idle" /\ c \in Procs
        /\ UNCHANGED <<wagers, wagerLock, batch, workWagers>>
        /\ \A q \in Procs : q # c => pc'[q] = pc[q] /\ record'[q] = record[q]
        /\ \/ pc'[c] = "reply"
           \/ pc'[c] = "findKey" /\ record'[c] = NewRecord(r)
    BY <1>5 DEF Submit, Goto, Procs, db, locks, work, TypeInv, TypeOK
  <2>2. NewRecord(r) = NewRecord(NewRecord(r).req)
    BY DEF NewRecord
  <2>3. QED
    BY <2>1, <2>2, ClientRows DEF Inserting, Req
<1>6. ASSUME NEW c \in Clients, ClientStep(c) PROVE RowInv'
  <2>1. c \in Procs /\ c \notin Workers
    BY WageringAssumption DEF Procs
  <2>2. CASE FindByIdempotency(c) \/ FindByBusiness(c) \/ RefindByIdempotency(c)
    BY <1>4, <2>2 DEF FindByIdempotency, FindByBusiness, RefindByIdempotency
  <2>3. CASE WalletNotFound(c) \/ RefindByBusiness(c)
    BY <1>3, <2>3 DEF WalletNotFound, RefindByBusiness
  <2>4. CASE LockWallet(c, "insert")
    BY <2>1, <2>4, MoveOnRows DEF LockWallet, db, locks, Labels
  <2>5. CASE InsertWager(c)
    BY <2>1, <2>5, MoveOnRows DEF InsertWager, db, locks, work, Labels
  <2>6. CASE ReceiveReply(c)
    BY <2>1, <2>6, MoveOnRows DEF ReceiveReply, db, locks, work, Labels
  <2>7. CASE MarkPendingReference(c)
    BY <1>2, <2>1, <2>7 DEF SettleStep
  <2>8. QED
    BY <1>6, <2>2, <2>3, <2>4, <2>5, <2>6, <2>7 DEF ClientStep
<1>7. ASSUME NEW w \in Workers, WorkerStep(w) PROVE RowInv'
  <2>1. w \in Procs /\ w \notin Clients
    BY WageringAssumption DEF Procs
  <2>2. CASE Claim(w)
    BY <2>2, ClaimRows
  <2>3. CASE LockWallet(w, "resolve")
    BY <2>1, <2>3, MoveOnRows DEF LockWallet, db, locks, Labels, Working
  <2>4. CASE RetryLater(w) \/ GiveUp(w)
    BY <1>2, <2>1, <2>4 DEF SettleStep
  <2>5. QED
    BY <1>7, <2>2, <2>3, <2>4 DEF WorkerStep
<1>8. ASSUME NEW p \in Procs, TransactionStep(p) PROVE RowInv'
  <2>1. ASSUME NEW next \in {"reversal", "settle"}, Goto(p, next), pc[p] \in {"resolve", "reversal"},
               UNCHANGED <<wagers, record, batch, workWagers>>,
               \A e \in Exts : wagerLock[e] # None => wagerLock'[e] = wagerLock[e]
        PROVE  RowInv'
    BY <2>1, MoveOnRows DEF Inserting, Working, Labels
  <2>2. CASE SkipReference(p)
    BY <2>1, <2>2 DEF SkipReference, Conclude, db, locks, work
  <2>3. CASE HasSuccessfulReversal(p)
    BY <2>1, <2>3 DEF HasSuccessfulReversal, Conclude, db, locks, work
  <2>4. CASE ResolveReference(p)
    <3>1. /\ pc[p] = "resolve" /\ UNCHANGED <<wagers, record, batch, workWagers>>
          /\ \E next \in {"reversal", "settle"} : Goto(p, next)
      BY <2>4 DEF ResolveReference, Conclude, db, work
    <3>2. \A e \in Exts : wagerLock[e] # None => wagerLock'[e] = wagerLock[e]
      BY <2>4 DEF ResolveReference, TypeInv, TypeOK
    <3>3. QED
      BY <2>1, <3>1, <3>2
  <2>5. CASE Reject(p) \/ MarkProcessed(p)
    BY <1>2, <2>5 DEF SettleStep
  <2>6. CASE Commit(p)
    BY <2>6, CommitRows
  <2>7. QED
    BY <1>8, <2>2, <2>3, <2>4, <2>5, <2>6 DEF TransactionStep
<1>9. ASSUME NEW p \in Procs, Abort(p) \/ AbortDeadlockVictim(p) PROVE RowInv'
  <2>1. /\ \A q \in Procs : q # p => pc'[q] = pc[q]
        /\ pc'[p] = "idle" /\ UNCHANGED wagers /\ EndTransaction(p)
    BY <1>9 DEF Abort, AbortDeadlockVictim, Rollback, Goto, Procs, TypeInv, TypeOK, db
  <2>2. QED
    BY <2>1, QuitRows
<1>10. ASSUME NEW e \in Exts, MakeDue(e) PROVE RowInv'
  BY <1>10, MakeDueRows
<1>11. QED
  BY <1>1, <1>5, <1>6, <1>7, <1>8, <1>9, <1>10 DEF Next

-----------------------------------------------------------------------------
(* The steps by what they do to rows, wallets and events.                  *)

LEMMA StepKinds ==
    ASSUME TypeInv, [Next]_vars
    PROVE  \/ UNCHANGED <<db, work>>
           \/ \E p \in Procs : \E next \in Labels : LockWallet(p, next)
           \/ \E p \in Procs : SettleStep(p)
           \/ \E p \in Procs : Commit(p)
           \/ \E p \in Procs : EndTransaction(p) /\ UNCHANGED db
           \/ \E e \in Exts : MakeDue(e)
<1> DEFINE Kind == \/ UNCHANGED <<db, work>>
                   \/ \E p \in Procs : \E next \in Labels : LockWallet(p, next)
                   \/ \E p \in Procs : SettleStep(p)
                   \/ \E p \in Procs : Commit(p)
                   \/ \E p \in Procs : EndTransaction(p) /\ UNCHANGED db
                   \/ \E e \in Exts : MakeDue(e)
<1> SUFFICES Kind
  OBVIOUS
<1>1. CASE UNCHANGED vars
  BY <1>1 DEF vars, db, work
<1>2. ASSUME NEW c \in Clients, NEW answer, ReplyWithoutEffect(c, answer) PROVE Kind
  BY <1>2 DEF ReplyWithoutEffect, Procs
<1>3. ASSUME NEW c \in Clients, NEW here, NEW hits, NEW next, Find(c, here, hits, next) PROVE Kind
  BY <1>2, <1>3 DEF Find, db, work
<1>4. ASSUME NEW c \in Clients, NEW r \in Requests, Submit(c, r) PROVE Kind
  BY <1>4 DEF Submit, db, work
<1>5. ASSUME NEW c \in Clients, ClientStep(c) PROVE Kind
  <2>1. CASE FindByIdempotency(c) \/ FindByBusiness(c) \/ RefindByIdempotency(c)
    BY <1>3, <2>1 DEF FindByIdempotency, FindByBusiness, RefindByIdempotency
  <2>2. CASE WalletNotFound(c) \/ RefindByBusiness(c)
    BY <1>2, <2>2 DEF WalletNotFound, RefindByBusiness
  <2>3. CASE LockWallet(c, "insert")
    BY <2>3 DEF Procs, Labels
  <2>4. CASE InsertWager(c) \/ ReceiveReply(c)
    BY <2>4 DEF InsertWager, ReceiveReply, db, work
  <2>5. CASE MarkPendingReference(c)
    BY <2>5 DEF SettleStep, Procs
  <2>6. QED
    BY <1>5, <2>1, <2>2, <2>3, <2>4, <2>5 DEF ClientStep
<1>6. ASSUME NEW w \in Workers, WorkerStep(w) PROVE Kind
  BY <1>6 DEF WorkerStep, Claim, SettleStep, db, work, Procs, Labels
<1>7. ASSUME NEW p \in Procs, TransactionStep(p) PROVE Kind
  <2>1. CASE SkipReference(p) \/ HasSuccessfulReversal(p) \/ ResolveReference(p)
    BY <2>1 DEF SkipReference, HasSuccessfulReversal, ResolveReference, db, work
  <2>2. CASE Reject(p) \/ MarkProcessed(p) \/ Commit(p)
    BY <2>2 DEF SettleStep
  <2>3. QED
    BY <1>7, <2>1, <2>2 DEF TransactionStep
<1>8. ASSUME NEW p \in Procs, Abort(p) \/ AbortDeadlockVictim(p) PROVE Kind
  BY <1>8 DEF Abort, AbortDeadlockVictim, Rollback, db
<1>9. QED
  BY <1>1, <1>4, <1>5, <1>6, <1>7, <1>8 DEF Next

\* Whatever a transaction has written was not there, or was waiting.
LEMMA WrittenRows ==
    ASSUME TypeInv, RowInv, NEW p \in Procs, NEW e \in Exts, workWagers[p][e] # None
    PROVE  /\ workWagers[p][e].status \in Settled
           /\ \/ p \in Clients /\ p \notin Workers /\ wagers[e] = None
              \/ /\ p \in Workers /\ p \notin Clients /\ wagers[e] # None
                 /\ wagers[e].status = "PENDING_REFERENCE" /\ workWagers[p][e].req = wagers[e].req
<1>1. CASE p \in Clients
  BY <1>1, WageringAssumption DEF RowInv, WritesOwned, ClientsApart, Inserting
<1>2. CASE p \in Workers
  BY <1>2, WageringAssumption DEF RowInv, WritesOwned, Claimed
<1>3. QED
  BY <1>1, <1>2 DEF Procs

\* A process that writes an outcome has not written that row before.
LEMMA NotYetWritten ==
    ASSUME TypeInv, RowInv, NEW p \in Procs, pc[p] = "settle"
    PROVE  workWagers[p][Req(p).ext] = None
<1>1. Req(p).ext \in Exts
  BY SettleContext
<1>2. CASE p \in Clients
  BY <1>1, <1>2 DEF RowInv, WritesOwned
<1>3. CASE p \in Workers
  BY <1>3 DEF RowInv, WorkersHold, Working
<1>4. QED
  BY <1>2, <1>3 DEF Procs

-----------------------------------------------------------------------------
(* Each kind of step preserves EffectInv.                                  *)

LEMMA NothingEffective == ~Effective(None) /\ \A p : Announced(p, None) = {}
BY DEF Effective, Announced

LEMMA InitEffect == Init => EffectInv
<1> SUFFICES ASSUME Init PROVE EffectInv
  OBVIOUS
<1>1. \A e \in Exts : wagers[e] = None
  BY DEF Init
<1>2. ASSUME NEW w \in Wallets, NEW i \in DOMAIN wallets[w].ledger PROVE wallets[w].ledger[i].ext = None
  <2>1. wallets[w].ledger = Opening(w)
    BY DEF Init
  <2>2. QED
    BY <2>1 DEF Opening, Entry
<1>3. CommittedMatch
  BY <1>1, <1>2, NothingEffective DEF CommittedMatch, EntriesMatch, LedgerRecords
<1>4. WorkMatches
  BY NothingEffective DEF Init, WorkMatches, WorkMatch, EntriesMatch
<1>5. OutboxMatches
  BY <1>1, NothingEffective DEF Init, OutboxMatches, OutboxMatch, HasStatus, EventTypes
<1>6. QED
  BY <1>3, <1>4, <1>5 DEF EffectInv

LEMMA EndEffect ==
    ASSUME TypeInv, EffectInv, NEW p \in Procs, EndTransaction(p)
    PROVE  \A q \in Procs : WorkMatch(q, workWallets'[q], workWagers'[q], workEvents'[q])
<1>1. \A q \in Procs : q # p =>
        /\ workWallets'[q] = workWallets[q] /\ workWagers'[q] = workWagers[q]
        /\ workEvents'[q] = workEvents[q]
  BY DEF EndTransaction, TypeInv, TypeOK
<1>2. /\ \A w \in Wallets : workWallets'[p][w] = None
      /\ \A e \in Exts : workWagers'[p][e] = None
      /\ workEvents'[p] = {}
  BY DEF EndTransaction, TypeInv, TypeOK
<1>3. WorkMatch(p, workWallets'[p], workWagers'[p], workEvents'[p])
  BY <1>2, NothingEffective DEF WorkMatch, EntriesMatch
<1>4. QED
  BY <1>1, <1>3 DEF EffectInv, WorkMatches

LEMMA LockEffect ==
    ASSUME TypeInv, EffectInv, NEW p \in Procs, NEW next, LockWallet(p, next)
    PROVE  EffectInv'
<1> DEFINE w == Req(p).wallet
<1>1. /\ w \in Wallets
      /\ UNCHANGED <<wallets, wagers, outbox, workWagers, workEvents>>
      /\ workWallets' = [workWallets EXCEPT ![p][w] = IF @ = None THEN Copy(w) ELSE @]
  BY DEF LockWallet, db
<1> HIDE DEF w
<1>2. \A q \in Procs, x \in Wallets :
        \/ workWallets'[q][x] = workWallets[q][x]
        \/ workWallets[q][x] = None /\ workWallets'[q][x] = Copy(w)
  BY <1>1 DEF TypeInv, TypeOK
<1>3. Copy(w) # None /\ DOMAIN Copy(w).ledger = {}
  <2>1. wallets[w] \in WalletSpace
    BY <1>1 DEF TypeInv, TypeOK
  <2>2. Copy(w).ledger = << >>
    BY <2>1 DEF Copy, WalletSpace
  <2>3. QED
    BY <1>1, <2>2, CopyType
<1>4. ASSUME NEW q \in Procs
      PROVE  WorkMatch(q, workWallets'[q], workWagers'[q], workEvents'[q])
  <2>1. WorkMatch(q, workWallets[q], workWagers[q], workEvents[q])
    BY DEF EffectInv, WorkMatches
  <2>2. EntriesMatch(workWallets'[q], workWagers[q])
    <3>1. \A x \in Wallets : workWallets'[q][x] # None =>
            LedgerRecords(workWallets'[q][x].ledger, workWagers[q], x)
      BY <1>2, <1>3, <2>1 DEF WorkMatch, EntriesMatch, LedgerRecords
    <3>2. \A x \in Wallets : workWallets[q][x] # None => workWallets'[q][x] = workWallets[q][x]
      BY <1>2
    <3>3. QED
      BY <2>1, <3>1, <3>2 DEF WorkMatch, EntriesMatch
  <2>3. QED
    BY <1>1, <1>2, <1>3, <2>1, <2>2 DEF WorkMatch
<1>5. QED
  BY <1>1, <1>4 DEF EffectInv, WorkMatches, CommittedMatch, OutboxMatches

LEMMA Appended ==
    ASSUME NEW T, NEW old \in Seq(T), NEW x, NEW new, new = Append(old, x)
    PROVE  /\ Len(old) \in Nat /\ Len(new) = Len(old) + 1 /\ new[Len(old) + 1] = x
           /\ \A i \in DOMAIN old : i \in DOMAIN new /\ new[i] = old[i]
<1>1. old \in Seq(T \cup {x}) /\ x \in T \cup {x}
  OBVIOUS
<1>2. QED
  BY <1>1

LEMMA EntryExts ==
    ASSUME NEW wallet \in WalletSpace, NEW i \in DOMAIN wallet.ledger
    PROVE  wallet.ledger[i].ext \in Exts \cup {None}
<1>1. wallet.ledger \in Seq(Entries)
  BY DEF WalletSpace
<1>2. wallet.ledger[i] \in Entries
  BY <1>1
<1>3. QED
  BY <1>2 DEF Entries

LEMMA MakeDueEffect ==
    ASSUME TypeInv, EffectInv, NEW e \in Exts, MakeDue(e)
    PROVE  EffectInv'
<1>1. /\ UNCHANGED <<wallets, outbox, workWallets, workWagers, workEvents>>
      /\ wagers[e] # None /\ wagers[e] \in Rows
      /\ wagers' = [wagers EXCEPT ![e].due = TRUE]
  BY DEF MakeDue, work, TypeInv, TypeOK
<1>2. wagers'[e] \in Rows /\ wagers'[e] # None
      /\ wagers'[e].req = wagers[e].req /\ wagers'[e].status = wagers[e].status
      /\ wagers'[e].balance = wagers[e].balance
  <2>1. wagers'[e] = [wagers[e] EXCEPT !.due = TRUE]
    BY <1>1 DEF TypeInv, TypeOK
  <2>2. [wagers[e] EXCEPT !.due = TRUE] \in Rows
    BY <1>1, RowDue
  <2>3. wagers'[e] \in Rows
    BY <2>1, <2>2
  <2>4. wagers'[e] # None
    BY <2>3, NoneAssumption
  <2>5. /\ wagers'[e].req = wagers[e].req /\ wagers'[e].status = wagers[e].status
        /\ wagers'[e].balance = wagers[e].balance
    BY <1>1, <2>1 DEF Rows
  <2>6. QED
    BY <2>3, <2>4, <2>5
<1>3. \A f \in Exts : f # e => wagers'[f] = wagers[f]
  BY <1>1 DEF TypeInv, TypeOK
<1>4. \A f \in Exts : /\ Effective(wagers'[f]) <=> Effective(wagers[f])
                      /\ wagers[f] # None <=> wagers'[f] # None
                      /\ wagers[f] # None => /\ wagers'[f].req = wagers[f].req
                                             /\ wagers'[f].status = wagers[f].status
                                             /\ wagers'[f].balance = wagers[f].balance
  BY <1>1, <1>2, <1>3 DEF Effective
<1>5. ASSUME NEW f \in Exts PROVE OutboxMatch(f, wagers'[f], outbox')
  <2>1. OutboxMatch(f, wagers[f], outbox)
    BY DEF EffectInv, OutboxMatches
  <2>2. \A status : HasStatus(wagers'[f], status) <=> HasStatus(wagers[f], status)
    BY <1>4 DEF HasStatus
  <2>3. QED
    BY <1>1, <1>4, <2>1, <2>2 DEF OutboxMatch
<1>6. EntriesMatch(wallets, wagers')
  <2>1. \A w \in Wallets : \A i \in DOMAIN wallets[w].ledger :
          wallets[w].ledger[i].ext \in Exts \cup {None}
    BY EntryExts DEF TypeInv, TypeOK
  <2>2. \A f \in Exts : \A entry, w : Records(entry, wagers[f], w) => Records(entry, wagers'[f], w)
    BY <1>4 DEF Records, Effective
  <2>3. EntriesMatch(wallets, wagers)
    BY DEF EffectInv, CommittedMatch
  <2>4. \A w \in Wallets : wallets[w] # None => LedgerRecords(wallets[w].ledger, wagers', w)
    BY <2>1, <2>2, <2>3 DEF EntriesMatch, LedgerRecords
  <2>5. \A f \in Exts : Effective(wagers'[f]) =>
          Effective(wagers[f]) /\ wagers'[f].req = wagers[f].req
    BY <1>4 DEF Effective
  <2>6. QED
    BY <2>3, <2>4, <2>5 DEF EntriesMatch
<1>7. QED
  BY <1>1, <1>5, <1>6 DEF EffectInv, CommittedMatch, WorkMatches, OutboxMatches

\* A new row leaves what the ledger says of the others, and its entry may be added.
LEMMA RecordsKept ==
    ASSUME NEW ledger \in Seq(Entries), NEW rows \in [Exts -> Rows \cup {None}],
           NEW e \in Exts, rows[e] = None, NEW row, NEW w, LedgerRecords(ledger, rows, w)
    PROVE  /\ LedgerRecords(ledger, [rows EXCEPT ![e] = row], w)
           /\ ~HasEntry(ledger, e)
<1>1. \A i \in DOMAIN ledger : ledger[i] \in Entries
  OBVIOUS
<1>2. \A i \in DOMAIN ledger : ledger[i].ext \in Exts \cup {None}
  BY <1>1 DEF Entries
<1>3. \A i \in DOMAIN ledger : ledger[i].ext # None => ledger[i].ext # e
  BY NothingEffective DEF LedgerRecords, Records
<1>4. e # None
  BY WageringAssumption
<1>5. QED
  BY <1>2, <1>3, <1>4 DEF LedgerRecords, HasEntry

LEMMA RecordAdded ==
    ASSUME NEW ledger \in Seq(Entries), NEW entry \in Entries, NEW rows, NEW w,
           entry.ext # None, LedgerRecords(ledger, rows, w), ~HasEntry(ledger, entry.ext),
           Records(entry, rows[entry.ext], w)
    PROVE  LedgerRecords(Append(ledger, entry), rows, w)
<1> DEFINE longer == Append(ledger, entry)
<1>1. /\ DOMAIN longer = 1..(Len(ledger) + 1) /\ DOMAIN ledger = 1..Len(ledger)
      /\ \A i \in DOMAIN ledger : longer[i] = ledger[i]
      /\ longer[Len(ledger) + 1] = entry
      /\ Len(ledger) \in Nat
  OBVIOUS
<1>2. \A i \in DOMAIN longer : i \in DOMAIN ledger \/ (longer[i] = entry /\ i = Len(ledger) + 1)
  BY <1>1
<1> HIDE DEF longer
<1>3. \A i \in DOMAIN ledger : ledger[i].ext # entry.ext
  BY DEF HasEntry
<1>4. ASSUME NEW i \in DOMAIN longer, longer[i].ext # None
      PROVE  Records(longer[i], rows[longer[i].ext], w)
  BY <1>1, <1>2, <1>4 DEF LedgerRecords
<1>5. ASSUME NEW i \in DOMAIN longer, longer[i].ext # None, NEW j \in DOMAIN longer,
             longer[j].ext = longer[i].ext
      PROVE  j = i
  BY <1>1, <1>2, <1>3, <1>5 DEF LedgerRecords
<1>6. QED
  BY <1>4, <1>5 DEF LedgerRecords, longer

\* The outcome of a record brings its row, its entry and its events together.
LEMMA SettleEffect ==
    ASSUME TypeInv, RowInv, EffectInv, NEW p \in Procs, SettleStep(p)
    PROVE  EffectInv'
<1> DEFINE e == Req(p).ext
           w == Req(p).wallet
           ws == workWallets[p]
           rows == workWagers[p]
<1>1. pc[p] = "settle" /\ Continue(p)
  BY SettleShape
<1>2. PICK row \in Rows, wallet \in WalletSpace : WritesOutcome(p, row, wallet)
  BY SettleOutcome
<1> DEFINE newRows == [rows EXCEPT ![e] = row]
           newWs == [ws EXCEPT ![w] = wallet]
<1>3. /\ e \in Exts /\ w \in Wallets /\ Wallet(p) \in WalletSpace /\ Wallet(p) = ws[w]
      /\ Req(p).amount \in Nat /\ Req(p) \in Requests
      /\ rows[e] = None /\ row # None /\ wallet # None /\ ws[w] # None
      /\ rows \in [Exts -> Rows \cup {None}] /\ ws \in [Wallets -> WalletSpace \cup {None}]
  BY <1>1, SettleContext, NotYetWritten, NoneAssumption DEF Wallet, TypeInv, TypeOK
<1>4. /\ workWagers'[p] = newRows /\ workWallets'[p] = newWs
      /\ workEvents'[p] = workEvents[p] \cup (Announced(p, row) \X {e})
      /\ \A q \in Procs : q # p => /\ workWagers'[q] = workWagers[q]
                                   /\ workWallets'[q] = workWallets[q]
                                   /\ workEvents'[q] = workEvents[q]
  BY <1>2, <1>3 DEF WritesOutcome, Write, TypeInv, TypeOK
<1>5. WorkMatch(p, ws, rows, workEvents[p])
  BY DEF EffectInv, WorkMatches
<1> HIDE DEF ws, rows
<1>6. \A x \in Wallets : ws[x] # None =>
        /\ ws[x].ledger \in Seq(Entries)
        /\ LedgerRecords(ws[x].ledger, newRows, x)
        /\ ~HasEntry(ws[x].ledger, e)
        /\ \A i \in DOMAIN ws[x].ledger : ws[x].ledger[i].ext # None
  <2>1. ASSUME NEW x \in Wallets, ws[x] # None
        PROVE  /\ ws[x].ledger \in Seq(Entries) /\ LedgerRecords(ws[x].ledger, rows, x)
               /\ \A i \in DOMAIN ws[x].ledger : ws[x].ledger[i].ext # None
    BY <1>3, <1>5, <2>1 DEF WalletSpace, WorkMatch, EntriesMatch
  <2>2. QED
    BY <1>3, <2>1, RecordsKept
<1>7. /\ LedgerRecords(wallet.ledger, newRows, w)
      /\ \A i \in DOMAIN wallet.ledger : wallet.ledger[i].ext # None
      /\ \A f \in Exts : HasEntry(ws[w].ledger, f) => HasEntry(wallet.ledger, f)
      /\ Effective(row) => HasEntry(wallet.ledger, e)
      /\ row.req.wallet = w
  <2>1. CASE ~Effective(row)
    BY <1>2, <1>3, <1>6, <2>1 DEF WritesOutcome
  <2>2. CASE Effective(row)
    <3> DEFINE entry == Entry(e, Dir(p), Req(p).amount, ws[w].balance)
    <3>1. /\ wallet.ledger = Append(ws[w].ledger, entry) /\ row.balance = wallet.balance
          /\ wallet.balance = BalanceAfter(ws[w].balance, Dir(p), Req(p).amount)
          /\ row.req = Req(p)
      BY <1>2, <1>3, <2>2 DEF WritesOutcome, Move
    <3>2. /\ entry.ext = e /\ entry.dir = Dir(p) /\ entry.amount = Req(p).amount
          /\ entry.after = wallet.balance
      BY <3>1 DEF Entry
    <3>3. Records(entry, row, w)
      BY <2>2, <3>1, <3>2 DEF Records, Dir, Direction
    <3>4. wallet.ledger \in Seq(Entries) /\ ws[w].ledger \in Seq(Entries)
      BY <1>3 DEF WalletSpace
    <3> HIDE DEF entry
    <3>5. /\ Len(ws[w].ledger) \in Nat /\ Len(wallet.ledger) = Len(ws[w].ledger) + 1
          /\ wallet.ledger[Len(ws[w].ledger) + 1] = entry
          /\ \A i \in DOMAIN ws[w].ledger : i \in DOMAIN wallet.ledger /\ wallet.ledger[i] = ws[w].ledger[i]
      <4>1. PICK old, new : old = ws[w].ledger /\ new = wallet.ledger
        OBVIOUS
      <4>2. old \in Seq(Entries) /\ new = Append(old, entry)
        BY <3>1, <3>4, <4>1
      <4>3. /\ Len(old) \in Nat /\ Len(new) = Len(old) + 1 /\ new[Len(old) + 1] = entry
            /\ \A i \in DOMAIN old : i \in DOMAIN new /\ new[i] = old[i]
        BY <4>2, Appended
      <4>4. QED
        BY <4>1, <4>3
    <3>6. entry \in Entries
      BY <3>4, <3>5
    <3>7. newRows[e] = row /\ e # None
      BY <1>3, WageringAssumption
    <3>8. LedgerRecords(wallet.ledger, newRows, w)
      BY <1>3, <1>6, <3>1, <3>2, <3>3, <3>4, <3>6, <3>7, RecordAdded
    <3>9. \A i \in DOMAIN wallet.ledger : i \in DOMAIN ws[w].ledger \/ wallet.ledger[i] = entry
      BY <3>4, <3>5
    <3>10. \A i \in DOMAIN wallet.ledger : wallet.ledger[i].ext # None
      BY <1>3, <1>6, <3>2, <3>5, <3>7, <3>9
    <3>11. HasEntry(wallet.ledger, e)
      BY <3>2, <3>4, <3>5 DEF HasEntry
    <3>12. \A f \in Exts : HasEntry(ws[w].ledger, f) => HasEntry(wallet.ledger, f)
      BY <3>5 DEF HasEntry
    <3>13. QED
      BY <3>1, <3>8, <3>10, <3>11, <3>12
  <2>3. QED
    BY <2>1, <2>2
<1>8. /\ \A x \in Wallets : x # w => newWs[x] = ws[x]
      /\ newWs[w] = wallet
      /\ \A f \in Exts : f # e => newRows[f] = rows[f]
      /\ newRows[e] = row
  BY <1>3
<1> HIDE DEF newRows, newWs, e, w
<1>9. EntriesMatch(newWs, newRows)
  <2>1. \A x \in Wallets : newWs[x] # None => LedgerRecords(newWs[x].ledger, newRows, x)
    BY <1>6, <1>7, <1>8
  <2>2. ASSUME NEW f \in Exts, Effective(newRows[f])
        PROVE  /\ newRows[f].req.wallet \in Wallets /\ newWs[newRows[f].req.wallet] # None
               /\ HasEntry(newWs[newRows[f].req.wallet].ledger, f)
    <3>1. CASE f = e
      BY <1>3, <1>7, <1>8, <2>2, <3>1
    <3>2. CASE f # e
      <4>1. /\ newRows[f] = rows[f] /\ rows[f].req.wallet \in Wallets
            /\ ws[rows[f].req.wallet] # None /\ HasEntry(ws[rows[f].req.wallet].ledger, f)
        BY <1>5, <1>8, <2>2, <3>2 DEF WorkMatch, EntriesMatch
      <4>2. QED
        BY <1>3, <1>7, <1>8, <4>1
    <3>3. QED
      BY <3>1, <3>2
  <2>3. QED
    BY <2>1, <2>2 DEF EntriesMatch
<1>10. WorkMatch(p, newWs, newRows, workEvents'[p])
  <2>1. \A x \in Wallets : newWs[x] # None =>
          \A i \in DOMAIN newWs[x].ledger : newWs[x].ledger[i].ext # None
    BY <1>6, <1>7, <1>8
  <2>2. ASSUME NEW t \in EventTypes, NEW f \in Exts
        PROVE  <<t, f>> \in workEvents'[p] <=> t \in Announced(p, newRows[f])
    <3>1. <<t, f>> \in workEvents[p] <=> t \in Announced(p, rows[f])
      BY <1>5 DEF WorkMatch
    <3>2. <<t, f>> \in workEvents'[p] <=>
            <<t, f>> \in workEvents[p] \/ (t \in Announced(p, row) /\ f = e)
      BY <1>4
    <3>3. QED
      BY <1>3, <1>8, <3>1, <3>2, NothingEffective
  <2>3. QED
    BY <1>9, <2>1, <2>2 DEF WorkMatch
<1>11. \A q \in Procs : WorkMatch(q, workWallets'[q], workWagers'[q], workEvents'[q])
  BY <1>4, <1>10 DEF EffectInv, WorkMatches
<1>12. UNCHANGED <<wallets, wagers, outbox>>
  BY <1>1, ContinueShape
<1>13. QED
  BY <1>11, <1>12 DEF EffectInv, WorkMatches, CommittedMatch, OutboxMatches

\* The committed ledger and the entries of the transaction record different wagers.
LEMMA RecordsJoined ==
    ASSUME NEW theirs \in Seq(Entries), NEW mine \in Seq(Entries), NEW rows, NEW w,
           LedgerRecords(theirs, rows, w), LedgerRecords(mine, rows, w),
           \A f \in Exts : ~(HasEntry(theirs, f) /\ HasEntry(mine, f))
    PROVE  LedgerRecords(theirs \o mine, rows, w)
<1> DEFINE both == theirs \o mine
           n == Len(theirs)
<1>1. /\ n \in Nat /\ Len(mine) \in Nat /\ DOMAIN theirs = 1..n /\ DOMAIN mine = 1..Len(mine)
      /\ DOMAIN both = 1..(n + Len(mine))
      /\ \A i \in DOMAIN both : both[i] = IF i <= n THEN theirs[i] ELSE mine[i - n]
  OBVIOUS
<1>2. /\ \A i \in DOMAIN theirs : theirs[i].ext \in Exts \cup {None}
      /\ \A i \in DOMAIN mine : mine[i].ext \in Exts \cup {None}
  <2>1. /\ \A i \in DOMAIN theirs : theirs[i] \in Entries
        /\ \A i \in DOMAIN mine : mine[i] \in Entries
    OBVIOUS
  <2>2. QED
    BY <2>1 DEF Entries
<1> HIDE DEF both, n
<1>3. \A i \in DOMAIN both :
        \/ i <= n /\ i \in DOMAIN theirs /\ both[i] = theirs[i]
        \/ i > n /\ i - n \in DOMAIN mine /\ both[i] = mine[i - n]
  BY <1>1
<1>4. \A i \in DOMAIN theirs, j \in DOMAIN mine : theirs[i].ext # None => theirs[i].ext # mine[j].ext
  BY <1>2 DEF HasEntry
<1>5. ASSUME NEW i \in DOMAIN both, both[i].ext # None
      PROVE  Records(both[i], rows[both[i].ext], w)
  BY <1>3, <1>5 DEF LedgerRecords
<1>6. ASSUME NEW i \in DOMAIN both, both[i].ext # None, NEW j \in DOMAIN both,
             both[j].ext = both[i].ext
      PROVE  j = i
  <2>1. CASE i <= n /\ j <= n
    BY <1>1, <1>3, <1>6, <2>1 DEF LedgerRecords
  <2>2. CASE i > n /\ j > n
    <3>1. i - n = j - n
      BY <1>1, <1>3, <1>6, <2>2 DEF LedgerRecords
    <3>2. QED
      BY <1>1, <3>1
  <2>3. CASE ~(i <= n) /\ j <= n
    BY <1>1, <1>3, <1>4, <1>6, <2>3
  <2>4. CASE i <= n /\ ~(j <= n)
    BY <1>1, <1>3, <1>4, <1>6, <2>4
  <2>5. QED
    BY <1>1, <2>1, <2>2, <2>3, <2>4
<1>7. QED
  BY <1>5, <1>6 DEF LedgerRecords, both

LEMMA EntriesJoined ==
    ASSUME NEW theirs \in Seq(Entries), NEW mine \in Seq(Entries), NEW f
    PROVE  HasEntry(theirs \o mine, f) <=> HasEntry(theirs, f) \/ HasEntry(mine, f)
<1>1. /\ Len(theirs) \in Nat /\ Len(mine) \in Nat
      /\ DOMAIN theirs = 1..Len(theirs) /\ DOMAIN mine = 1..Len(mine)
      /\ DOMAIN (theirs \o mine) = 1..(Len(theirs) + Len(mine))
      /\ \A i \in DOMAIN (theirs \o mine) :
           (theirs \o mine)[i] = IF i <= Len(theirs) THEN theirs[i] ELSE mine[i - Len(theirs)]
  OBVIOUS
<1>2. ASSUME NEW i \in DOMAIN mine, mine[i].ext = f PROVE HasEntry(theirs \o mine, f)
  <2>1. /\ i + Len(theirs) \in DOMAIN (theirs \o mine)
        /\ (theirs \o mine)[i + Len(theirs)] = mine[i]
    BY <1>1
  <2>2. QED
    BY <1>2, <2>1 DEF HasEntry
<1>3. ASSUME NEW i \in DOMAIN theirs, theirs[i].ext = f PROVE HasEntry(theirs \o mine, f)
  BY <1>1, <1>3 DEF HasEntry
<1>4. ASSUME HasEntry(theirs \o mine, f) PROVE HasEntry(theirs, f) \/ HasEntry(mine, f)
  BY <1>1, <1>4 DEF HasEntry
<1>5. QED
  BY <1>2, <1>3, <1>4 DEF HasEntry

LEMMA MergedLedger ==
    ASSUME NEW committed, NEW copy
    PROVE  Merged(committed, copy).ledger = committed.ledger \o copy.ledger
BY DEF Merged

\* A commit joins the entries and events of a transaction to the committed ones:
\* its rows are new or were waiting, so they had no entry and no final event.
LEMMA CommitEffect ==
    ASSUME TypeInv, RowInv, EffectInv, NEW p \in Procs, Commit(p)
    PROVE  EffectInv'
<1> DEFINE ws == workWallets[p]
           rows == workWagers[p]
<1>1. /\ \A w \in Wallets : wallets'[w] = IF ws[w] # None THEN Merged(wallets[w], ws[w]) ELSE wallets[w]
      /\ \A e \in Exts : wagers'[e] = IF rows[e] # None THEN rows[e] ELSE wagers[e]
      /\ outbox' = [t \in EventTypes |-> [e \in Exts |->
                      outbox[t][e] + IF <<t, e>> \in workEvents[p] THEN 1 ELSE 0]]
      /\ EndTransaction(p)
  BY DEF Commit, View
<1>2. /\ WorkMatch(p, ws, rows, workEvents[p])
      /\ EntriesMatch(wallets, wagers)
  BY DEF EffectInv, WorkMatches, CommittedMatch
<1>3. /\ ws \in [Wallets -> WalletSpace \cup {None}] /\ rows \in [Exts -> Rows \cup {None}]
      /\ wallets \in [Wallets -> WalletSpace]
      /\ outbox \in [EventTypes -> [Exts -> Nat]]
  BY DEF TypeInv, TypeOK
<1>4. \A e \in Exts : rows[e] # None => ~Effective(wagers[e])
  BY WrittenRows DEF Effective
<1>5. ASSUME NEW e \in Exts PROVE OutboxMatch(e, wagers'[e], outbox')
  <2>1. OutboxMatch(e, wagers[e], outbox)
    BY DEF EffectInv, OutboxMatches
  <2>2. \A t \in EventTypes :
          outbox'[t][e] = outbox[t][e] + IF t \in Announced(p, rows[e]) THEN 1 ELSE 0
    BY <1>1, <1>2 DEF WorkMatch
  <2>3. \A t \in EventTypes : outbox[t][e] \in Nat
    BY <1>3
  <2>4. {"Processed", "Rejected", "BalanceChanged", "PendingReference"} = EventTypes
    BY DEF EventTypes
  <2>5. CASE rows[e] = None
    <3>1. \A t \in EventTypes : outbox'[t][e] = outbox[t][e]
      BY <2>2, <2>3, <2>5, NothingEffective
    <3>2. QED
      BY <1>1, <2>1, <2>4, <2>5, <3>1 DEF OutboxMatch
  <2>6. CASE rows[e] # None
    <3>1. rows[e].status \in Settled /\ wagers'[e] = rows[e]
      BY <1>1, <2>6, WrittenRows
    <3>2. CASE p \in Clients /\ wagers[e] = None
      <4>1. \A t \in EventTypes : outbox[t][e] = 0
        BY <2>1, <2>4, <3>2, NothingEffective DEF OutboxMatch, HasStatus
      <4>2. \A t \in EventTypes : outbox'[t][e] = IF t \in Announced(p, rows[e]) THEN 1 ELSE 0
        BY <2>2, <4>1
      <4>3. QED
        BY <2>4, <2>6, <3>1, <3>2, <4>2
           DEF OutboxMatch, HasStatus, Announced, Settled, Effective
    <3>3. CASE p \notin Clients /\ wagers[e] # None /\ wagers[e].status = "PENDING_REFERENCE"
      <4>1. /\ outbox["Processed"][e] = 0 /\ outbox["Rejected"][e] = 0
            /\ outbox["BalanceChanged"][e] = 0 /\ outbox["PendingReference"][e] = 1
        BY <2>1, <3>3 DEF OutboxMatch, HasStatus, Effective
      <4>2. /\ outbox'["Processed"][e] = IF "Processed" \in Announced(p, rows[e]) THEN 1 ELSE 0
            /\ outbox'["Rejected"][e] = IF "Rejected" \in Announced(p, rows[e]) THEN 1 ELSE 0
            /\ outbox'["BalanceChanged"][e] =
                 IF "BalanceChanged" \in Announced(p, rows[e]) THEN 1 ELSE 0
            /\ outbox'["PendingReference"][e] =
                 1 + IF "PendingReference" \in Announced(p, rows[e]) THEN 1 ELSE 0
        BY <2>2, <2>4, <4>1
      <4>3. QED
        BY <2>6, <3>1, <3>3, <4>2 DEF OutboxMatch, HasStatus, Announced, Settled, Effective
    <3>4. QED
      BY <2>6, <3>2, <3>3, WrittenRows
  <2>7. QED
    BY <2>5, <2>6
<1>6. ASSUME NEW w \in Wallets
      PROVE  /\ LedgerRecords(wallets'[w].ledger, wagers', w)
             /\ \A f \in Exts : HasEntry(wallets'[w].ledger, f) <=>
                  HasEntry(wallets[w].ledger, f) \/ (ws[w] # None /\ HasEntry(ws[w].ledger, f))
  <2>1. wallets[w] # None /\ wallets[w].ledger \in Seq(Entries)
    BY <1>3, NoneAssumption DEF WalletSpace
  <2>2. LedgerRecords(wallets[w].ledger, wagers, w)
    BY <1>2, <2>1 DEF EntriesMatch
  <2>3. \A i \in DOMAIN wallets[w].ledger : wallets[w].ledger[i].ext \in Exts \cup {None}
    BY <1>3, EntryExts
  <2>4. \A f \in Exts : HasEntry(wallets[w].ledger, f) => Effective(wagers[f]) /\ wagers'[f] = wagers[f]
    <3>1. ASSUME NEW f \in Exts, NEW i \in DOMAIN wallets[w].ledger, wallets[w].ledger[i].ext = f
          PROVE  Effective(wagers[f])
      BY <2>2, <3>1, WageringAssumption DEF LedgerRecords, Records
    <3>2. \A f \in Exts : HasEntry(wallets[w].ledger, f) => Effective(wagers[f])
      BY <3>1 DEF HasEntry
    <3>3. QED
      BY <1>1, <1>4, <3>2
  <2>5. LedgerRecords(wallets[w].ledger, wagers', w)
    BY <2>2, <2>3, <2>4 DEF LedgerRecords, HasEntry
  <2>6. CASE ws[w] = None
    BY <1>1, <2>5, <2>6
  <2>7. CASE ws[w] # None
    <3>1. ws[w] \in WalletSpace /\ ws[w].ledger \in Seq(Entries) /\ LedgerRecords(ws[w].ledger, rows, w)
      BY <1>2, <1>3, <2>7 DEF WalletSpace, WorkMatch, EntriesMatch
    <3>2. \A i \in DOMAIN ws[w].ledger : ws[w].ledger[i].ext \in Exts \cup {None}
      BY <3>1, EntryExts
    <3>3. \A f \in Exts : HasEntry(ws[w].ledger, f) => rows[f] # None /\ wagers'[f] = rows[f]
      <4>1. \A f \in Exts : HasEntry(ws[w].ledger, f) => Effective(rows[f])
        <5>1. ASSUME NEW f \in Exts, NEW i \in DOMAIN ws[w].ledger, ws[w].ledger[i].ext = f
              PROVE  Effective(rows[f])
          BY <3>1, <5>1, WageringAssumption DEF LedgerRecords, Records
        <5>2. QED
          BY <5>1 DEF HasEntry
      <4>2. QED
        BY <1>1, <4>1 DEF Effective
    <3>4. LedgerRecords(ws[w].ledger, wagers', w)
      BY <3>1, <3>2, <3>3 DEF LedgerRecords, HasEntry
    <3>5. \A f \in Exts : ~(HasEntry(wallets[w].ledger, f) /\ HasEntry(ws[w].ledger, f))
      BY <1>4, <2>4, <3>3
    <3>6. wallets'[w].ledger = wallets[w].ledger \o ws[w].ledger
      <4>1. wallets'[w] = Merged(wallets[w], ws[w])
        BY <1>1, <2>7
      <4>2. QED
        BY <4>1, MergedLedger
    <3>7. QED
      BY <2>1, <2>5, <2>7, <3>1, <3>4, <3>5, <3>6, RecordsJoined, EntriesJoined
  <2>8. QED
    BY <2>6, <2>7
<1>7. EntriesMatch(wallets', wagers')
  <2>1. ASSUME NEW f \in Exts, Effective(wagers'[f])
        PROVE  /\ wagers'[f].req.wallet \in Wallets /\ wallets'[wagers'[f].req.wallet] # None
               /\ HasEntry(wallets'[wagers'[f].req.wallet].ledger, f)
    <3>1. \A w \in Wallets : wallets'[w] # None
      BY CommitType, NoneAssumption DEF TypeInv, TypeOK
    <3>2. CASE rows[f] = None
      BY <1>1, <1>2, <1>6, <2>1, <3>1, <3>2 DEF EntriesMatch
    <3>3. CASE rows[f] # None
      BY <1>1, <1>2, <1>6, <2>1, <3>1, <3>3 DEF WorkMatch, EntriesMatch
    <3>4. QED
      BY <3>2, <3>3
  <2>2. QED
    BY <1>6, <2>1 DEF EntriesMatch
<1>8. \A q \in Procs : WorkMatch(q, workWallets'[q], workWagers'[q], workEvents'[q])
  BY <1>1, EndEffect
<1>9. QED
  BY <1>5, <1>7, <1>8 DEF EffectInv, CommittedMatch, WorkMatches, OutboxMatches

LEMMA EffectStep ==
    ASSUME TypeInv, RowInv, EffectInv, [Next]_vars
    PROVE  EffectInv'
<1>1. CASE UNCHANGED <<db, work>>
  BY <1>1 DEF db, work, EffectInv, CommittedMatch, WorkMatches, OutboxMatches
<1>2. ASSUME NEW p \in Procs, EndTransaction(p), UNCHANGED db PROVE EffectInv'
  <2>1. \A q \in Procs : WorkMatch(q, workWallets'[q], workWagers'[q], workEvents'[q])
    BY <1>2, EndEffect
  <2>2. QED
    BY <1>2, <2>1 DEF db, EffectInv, CommittedMatch, WorkMatches, OutboxMatches
<1>3. QED
  BY <1>1, <1>2, StepKinds, LockEffect, SettleEffect, CommitEffect, MakeDueEffect

-----------------------------------------------------------------------------
(* What rows and answers do in one step.                                   *)

\* Only a waiting row ever changes, and it stays the row of its request.
RowKept(row, next) ==
    row # None =>
        /\ next # None /\ next.req = row.req
        /\ row.status # "PENDING_REFERENCE" => next = row

LEMMA RowsStay ==
    ASSUME TypeInv, RowInv, [Next]_vars, NEW e \in Exts
    PROVE  RowKept(wagers[e], wagers'[e])
<1>1. CASE UNCHANGED wagers
  BY <1>1 DEF RowKept
<1>2. ASSUME NEW p \in Procs, Commit(p) PROVE RowKept(wagers[e], wagers'[e])
  <2>1. wagers'[e] = IF workWagers[p][e] # None THEN workWagers[p][e] ELSE wagers[e]
    BY <1>2 DEF Commit, View
  <2>2. QED
    BY <2>1, WrittenRows DEF RowKept
<1>3. ASSUME NEW f \in Exts, MakeDue(f) PROVE RowKept(wagers[e], wagers'[e])
  <2>1. /\ wagers[f] \in Rows /\ wagers[f].status = "PENDING_REFERENCE"
        /\ wagers' = [wagers EXCEPT ![f].due = TRUE]
    BY <1>3 DEF MakeDue, TypeInv, TypeOK
  <2>2. [wagers[f] EXCEPT !.due = TRUE] \in Rows
    BY <2>1, RowDue
  <2>3. CASE e = f
    BY <2>1, <2>2, <2>3, NoneAssumption DEF RowKept, TypeInv, TypeOK, Rows
  <2>4. CASE e # f
    BY <2>1, <2>4 DEF RowKept, TypeInv, TypeOK
  <2>5. QED
    BY <2>3, <2>4
<1>4. ASSUME NEW p \in Procs, SettleStep(p) PROVE UNCHANGED wagers
  BY <1>4, SettleShape, ContinueShape
<1>5. QED
  BY <1>1, <1>2, <1>3, <1>4, StepKinds DEF db, LockWallet

\* Where the answers come from: c keeps its answer, replays a committed row of the
\* same payload or tells what it commits.
AnswerKinds(c) ==
    \/ pc[c] = "reply" /\ reply'[c] = reply[c]
    \/ /\ pc[c] # "reply"
       /\ \E e \in Exts : /\ wagers[e] # None
                          /\ PayloadHash(wagers[e].req) = PayloadHash(Req(c))
                          /\ reply'[c] = Stored(wagers[e])
    \/ pc[c] = "commit" /\ Commit(c) /\ reply'[c] = Stored(workWagers[c][Req(c).ext])

LEMMA AnswerStep ==
    ASSUME TypeInv, [Next]_vars, NEW c \in Clients,
           pc'[c] = "reply", reply'[c].outcome = "stored"
    PROVE  AnswerKinds(c)
<1>1. c \in Procs /\ c \notin Workers
  BY WageringAssumption DEF Procs
<1>2. ASSUME pc'[c] = pc[c], reply'[c] = reply[c] PROVE AnswerKinds(c)
  BY <1>2 DEF AnswerKinds
<1>3. ASSUME NEW p \in Procs, NEW next, Goto(p, next), next # "reply", UNCHANGED reply
      PROVE  AnswerKinds(c)
  BY <1>1, <1>2, <1>3 DEF Goto, TypeInv, TypeOK
<1>4. ASSUME NEW d \in Clients, NEW answer, ReplyWithoutEffect(d, answer),
             \/ answer.outcome # "stored"
             \/ /\ pc[d] # "reply"
                /\ \E e \in Exts : wagers[e] # None /\ answer = ReplayOrConflict(Req(d), wagers[e])
      PROVE  AnswerKinds(c)
  <2>1. CASE c # d
    BY <1>1, <1>2, <1>4, <2>1 DEF ReplyWithoutEffect, Goto, TypeInv, TypeOK
  <2>2. CASE c = d
    <3>1. reply'[c] = answer
      BY <1>4, <2>2 DEF ReplyWithoutEffect, TypeInv, TypeOK
    <3>2. Answer("CONFLICT").outcome # "stored"
      BY DEF Answer
    <3>3. QED
      BY <1>4, <2>2, <3>1, <3>2 DEF ReplayOrConflict, AnswerKinds
  <2>3. QED
    BY <2>1, <2>2
<1>5. ASSUME NEW d \in Clients, NEW here, NEW hits \in SUBSET Exts, NEW next,
             Find(d, here, hits, Goto(d, next)), here # "reply", next # "reply",
             \A e \in hits : wagers[e] # None
      PROVE  AnswerKinds(c)
  <2>1. d \in Procs /\ pc[d] = here
    BY <1>5 DEF Find, Procs
  <2>2. CASE \E e \in hits : ReplyWithoutEffect(d, ReplayOrConflict(Req(d), wagers[e]))
    BY <1>4, <1>5, <2>1, <2>2
  <2>3. QED
    BY <1>3, <1>5, <2>1, <2>2 DEF Find
<1>6. CASE UNCHANGED vars
  BY <1>2, <1>6 DEF vars
<1>7. ASSUME NEW d \in Clients, NEW r \in Requests, Submit(d, r) PROVE AnswerKinds(c)
  <2>1. d \in Procs
    BY DEF Procs
  <2>2. CASE Goto(d, "findKey") /\ UNCHANGED reply
    BY <1>3, <2>1, <2>2
  <2>3. CASE Goto(d, "reply") /\ reply' = [reply EXCEPT ![d] = Answer("INVALID")]
    <3>1. c # d
      BY <2>3 DEF TypeInv, TypeOK, Answer
    <3>2. QED
      BY <1>1, <1>2, <2>3, <3>1 DEF Goto, TypeInv, TypeOK
  <2>4. QED
    BY <1>7, <2>2, <2>3 DEF Submit
<1>8. ASSUME NEW d \in Clients, ClientStep(d) PROVE AnswerKinds(c)
  <2>1. d \in Procs /\ SameKey(d) \in SUBSET Exts /\ SameExt(d) \in SUBSET Exts
    BY DEF Procs, SameKey, SameExt
  <2>2. /\ \A e \in SameKey(d) : wagers[e] # None
        /\ \A e \in SameExt(d) : wagers[e] # None
    BY DEF SameKey, SameExt
  <2>3. CASE FindByIdempotency(d) \/ FindByBusiness(d) \/ RefindByIdempotency(d)
    BY <1>5, <2>1, <2>2, <2>3 DEF FindByIdempotency, FindByBusiness, RefindByIdempotency
  <2>4. CASE WalletNotFound(d)
    BY <1>4, <2>4 DEF WalletNotFound, Answer
  <2>5. CASE RefindByBusiness(d)
    BY <1>4, <2>1, <2>2, <2>5 DEF RefindByBusiness
  <2>6. CASE LockWallet(d, "insert")
    BY <1>3, <2>1, <2>6 DEF LockWallet
  <2>7. CASE InsertWager(d)
    BY <1>3, <2>1, <2>7 DEF InsertWager
  <2>8. CASE ReceiveReply(d)
    <3>1. c # d
      BY <2>1, <2>8 DEF ReceiveReply, Goto, TypeInv, TypeOK
    <3>2. QED
      BY <1>1, <1>2, <2>8, <3>1 DEF ReceiveReply, Goto, TypeInv, TypeOK
  <2>9. CASE MarkPendingReference(d)
    <3>1. Continue(d) /\ Goto(d, "commit") /\ UNCHANGED reply
      BY <2>9 DEF MarkPendingReference, Continue
    <3>2. QED
      BY <1>3, <2>1, <3>1
  <2>10. QED
    BY <1>8, <2>3, <2>4, <2>5, <2>6, <2>7, <2>8, <2>9 DEF ClientStep
<1>9. ASSUME NEW p \in Procs, Continue(p) PROVE AnswerKinds(c)
  <2>1. UNCHANGED reply /\ pc'[p] # "reply" /\ \A q \in Procs : q # p => pc'[q] = pc[q]
    BY <1>9, ContinueShape
  <2>2. QED
    BY <1>1, <1>2, <2>1
<1>10. ASSUME NEW w \in Workers, WorkerStep(w) PROVE AnswerKinds(c)
  <2>1. w \in Procs
    BY DEF Procs
  <2>2. QED
    BY <1>3, <1>9, <1>10, <2>1 DEF WorkerStep, Claim, LockWallet, RetryLater, GiveUp
<1>11. ASSUME NEW p \in Procs, TransactionStep(p) PROVE AnswerKinds(c)
  <2>1. CASE SkipReference(p) \/ HasSuccessfulReversal(p) \/ ResolveReference(p)
    BY <1>3, <2>1 DEF SkipReference, HasSuccessfulReversal, ResolveReference, Conclude
  <2>2. CASE Reject(p) \/ MarkProcessed(p)
    BY <1>9, <2>2 DEF Reject, MarkProcessed
  <2>3. CASE Commit(p)
    <3>1. CASE p = c
      BY <1>1, <2>3, <3>1 DEF Commit, AnswerKinds, TypeInv, TypeOK
    <3>2. CASE p # c
      BY <1>1, <1>2, <2>3, <3>2 DEF Commit, Goto, TypeInv, TypeOK
    <3>3. QED
      BY <3>1, <3>2
  <2>4. QED
    BY <1>11, <2>1, <2>2, <2>3 DEF TransactionStep
<1>12. ASSUME NEW p \in Procs, Abort(p) \/ AbortDeadlockVictim(p) PROVE AnswerKinds(c)
  BY <1>3, <1>12 DEF Abort, AbortDeadlockVictim, Rollback
<1>13. ASSUME NEW e \in Exts, MakeDue(e) PROVE AnswerKinds(c)
  BY <1>2, <1>13 DEF MakeDue
<1>14. QED
  BY <1>6, <1>7, <1>8, <1>10, <1>11, <1>12, <1>13 DEF Next

\* What a committing client tells is the row of its own request.
LEMMA CommittedAnswer ==
    ASSUME TypeInv, RowInv, NEW c \in Clients, pc[c] = "commit"
    PROVE  /\ Req(c).ext \in Exts
           /\ workWagers[c][Req(c).ext] # None
           /\ workWagers[c][Req(c).ext].req = Req(c)
<1>1. c \in Procs /\ record[c] \in Rows
  BY DEF Procs, TypeInv, TypeOK, ControlInv
<1>2. Req(c).ext \in Exts
  BY <1>1, RequestType DEF Req, Rows
<1>3. workWagers[c][Req(c).ext] # None
  BY DEF RowInv, CommitsWritten
<1>4. QED
  BY <1>1, <1>2, <1>3 DEF RowInv, WritesOwned

-----------------------------------------------------------------------------
(* The theorems.                                                           *)

\* An answer a client is about to receive is still true of the table.
AnswerInv ==
    \A c \in Clients : pc[c] = "reply" /\ reply[c].outcome = "stored" =>
        LET told == reply[c].row IN
        /\ told.req.ext \in Exts
        /\ wagers[told.req.ext] # None
        /\ wagers[told.req.ext].req = told.req
        /\ told.status = "PENDING_REFERENCE" \/ wagers[told.req.ext] = told

LEMMA AnswersStay ==
    ASSUME TypeInv, RowInv, AnswerInv, [Next]_vars
    PROVE  AnswerInv'
<1> SUFFICES ASSUME NEW c \in Clients, pc'[c] = "reply", reply'[c].outcome = "stored"
             PROVE  LET told == reply'[c].row IN
                    /\ told.req.ext \in Exts
                    /\ wagers'[told.req.ext] # None
                    /\ wagers'[told.req.ext].req = told.req
                    /\ told.status = "PENDING_REFERENCE" \/ wagers'[told.req.ext] = told
  BY DEF AnswerInv
<1> DEFINE told == reply'[c].row
<1>1. CASE pc[c] = "reply" /\ reply'[c] = reply[c]
  <2>1. /\ told.req.ext \in Exts
        /\ wagers[told.req.ext] # None /\ wagers[told.req.ext].req = told.req
        /\ told.status = "PENDING_REFERENCE" \/ wagers[told.req.ext] = told
    BY <1>1 DEF AnswerInv
  <2> HIDE DEF told
  <2>2. RowKept(wagers[told.req.ext], wagers'[told.req.ext])
    BY <2>1, RowsStay
  <2>3. QED
    BY <2>1, <2>2 DEF RowKept, told
<1>2. ASSUME NEW e \in Exts, wagers[e] # None, reply'[c] = Stored(wagers[e])
      PROVE  /\ told.req.ext \in Exts
             /\ wagers'[told.req.ext] # None
             /\ wagers'[told.req.ext].req = told.req
             /\ told.status = "PENDING_REFERENCE" \/ wagers'[told.req.ext] = told
  <2>1. told = wagers[e] /\ wagers[e].req.ext = e
    BY <1>2 DEF Stored, RowInv, RowsNamed
  <2>2. RowKept(wagers[e], wagers'[e])
    BY RowsStay
  <2> HIDE DEF told
  <2>3. QED
    BY <1>2, <2>1, <2>2 DEF RowKept
<1>3. CASE pc[c] = "commit" /\ Commit(c) /\ reply'[c] = Stored(workWagers[c][Req(c).ext])
  <2>1. /\ told = workWagers[c][Req(c).ext] /\ Req(c).ext \in Exts
        /\ told # None /\ told.req = Req(c)
    BY <1>3, CommittedAnswer DEF Stored
  <2>2. wagers'[Req(c).ext] = told
    BY <1>3, <2>1 DEF Commit, View
  <2> HIDE DEF told
  <2>3. told.req.ext = Req(c).ext
    BY <2>1
  <2>4. QED
    BY <2>1, <2>2, <2>3 DEF told
<1>4. AnswerKinds(c)
  BY AnswerStep
<1>5. QED
  BY <1>1, <1>2, <1>3, <1>4 DEF AnswerKinds

\* The inductive invariant of this module.
LEMMA OutcomeInductive == Spec => [](TypeInv /\ RowInv /\ EffectInv /\ AnswerInv)
<1>1. Init => TypeInv /\ RowInv /\ EffectInv /\ AnswerInv
  <2>1. Init => AnswerInv
    BY DEF Init, AnswerInv, Procs
  <2>2. QED
    BY <2>1, InitType, InitRows, InitEffect
<1>2. TypeInv /\ RowInv /\ EffectInv /\ AnswerInv /\ [Next]_vars
        => TypeInv' /\ RowInv' /\ EffectInv' /\ AnswerInv'
  BY TypeStep, RowStep, EffectStep, AnswersStay
<1>3. QED
  BY <1>1, <1>2, PTL DEF Spec

\* The entries of a wager: one if it moves money, none otherwise.
LEMMA EntriesCounted ==
    ASSUME TypeInv, EffectInv, NEW e \in Exts
    PROVE  /\ ~Effective(wagers[e]) => EntriesOf(e) = {}
           /\ Effective(wagers[e]) =>
                \E i \in DOMAIN wallets[wagers[e].req.wallet].ledger :
                  EntriesOf(e) = {<<wagers[e].req.wallet, i>>}
           /\ \A x \in EntriesOf(e) :
                Records(wallets[x[1]].ledger[x[2]], wagers[e], x[1])
<1>1. \A w \in Wallets : LedgerRecords(wallets[w].ledger, wagers, w)
  BY NoneAssumption DEF EffectInv, CommittedMatch, EntriesMatch, TypeInv, TypeOK
<1>2. e # None
  BY WageringAssumption
<1>3. \A x \in EntriesOf(e) :
        /\ x[1] \in Wallets /\ x[2] \in DOMAIN wallets[x[1]].ledger /\ x = <<x[1], x[2]>>
        /\ wallets[x[1]].ledger[x[2]].ext = e
  BY DEF EntriesOf
<1>4. \A x \in EntriesOf(e) :
        /\ Records(wallets[x[1]].ledger[x[2]], wagers[e], x[1])
        /\ \A j \in DOMAIN wallets[x[1]].ledger : wallets[x[1]].ledger[j].ext = e => j = x[2]
  BY <1>1, <1>2, <1>3 DEF LedgerRecords
<1>5. ~Effective(wagers[e]) => EntriesOf(e) = {}
  BY <1>4 DEF Records
<1>6. ASSUME Effective(wagers[e])
      PROVE  \E i \in DOMAIN wallets[wagers[e].req.wallet].ledger :
               EntriesOf(e) = {<<wagers[e].req.wallet, i>>}
  <2> DEFINE w == wagers[e].req.wallet
  <2>1. w \in Wallets /\ HasEntry(wallets[w].ledger, e)
    BY <1>6 DEF EffectInv, CommittedMatch, EntriesMatch
  <2>2. PICK i \in DOMAIN wallets[w].ledger : wallets[w].ledger[i].ext = e
    BY <2>1 DEF HasEntry
  <2> HIDE DEF w
  <2>3. <<w, i>> \in EntriesOf(e)
    BY <2>1, <2>2 DEF EntriesOf
  <2>4. ASSUME NEW x \in EntriesOf(e) PROVE x = <<w, i>>
    <3>1. x[1] = w
      BY <1>4 DEF Records, w
    <3>2. x[2] = i
      BY <1>4, <2>2, <3>1
    <3>3. QED
      BY <1>3, <3>1, <3>2
  <2>5. EntriesOf(e) = {<<w, i>>}
    BY <2>3, <2>4
  <2>6. QED
    BY <2>5 DEF w
<1>7. QED
  BY <1>4, <1>5, <1>6

\* However often a wager is sent, raced by other clients, resumed by workers or cut
\* short by failures: it has exactly one ledger entry if it is processed and moves
\* money, of its own wallet and amount, and none otherwise.
THEOREM OneEffect == Spec => []OneEffectPerWager
<1>1. TypeInv /\ EffectInv => OneEffectPerWager
  <2> SUFFICES ASSUME TypeInv, EffectInv, NEW e \in Exts
               PROVE  /\ Cardinality(EntriesOf(e)) = IF Effective(wagers[e]) THEN 1 ELSE 0
                      /\ \A x \in EntriesOf(e) : LET entry == wallets[x[1]].ledger[x[2]] IN
                           /\ x[1] = wagers[e].req.wallet
                           /\ entry.amount = wagers[e].req.amount
                           /\ wagers[e].balance = entry.after
    BY DEF OneEffectPerWager, Effective
  <2>1. \A x \in EntriesOf(e) : LET entry == wallets[x[1]].ledger[x[2]] IN
           /\ x[1] = wagers[e].req.wallet
           /\ entry.amount = wagers[e].req.amount
           /\ wagers[e].balance = entry.after
    BY EntriesCounted DEF Records
  <2>2. Cardinality(EntriesOf(e)) = IF Effective(wagers[e]) THEN 1 ELSE 0
    BY EntriesCounted, FS_EmptySet, FS_Singleton
  <2>3. QED
    BY <2>1, <2>2
<1>2. QED
  BY <1>1, OutcomeInductive, PTL

\* The outbox tells the outcome of every wager exactly once: BalanceChanged with its
\* ledger entry, and the pending event once however often a worker retries.
THEOREM EventsTell == Spec => []EventsMatchOutcome
<1>1. TypeInv /\ EffectInv => EventsMatchOutcome
  <2> SUFFICES ASSUME TypeInv, EffectInv, NEW e \in Exts
               PROVE  LET once(b) == IF b THEN 1 ELSE 0 IN
                      /\ outbox["Processed"][e] = once(HasStatus(wagers[e], "PROCESSED"))
                      /\ outbox["Rejected"][e] = once(HasStatus(wagers[e], "REJECTED"))
                      /\ outbox["BalanceChanged"][e] = once(EntriesOf(e) # {})
                      /\ outbox["PendingReference"][e] \in
                           IF HasStatus(wagers[e], "PENDING_REFERENCE") THEN {1}
                           ELSE {0, once(wagers[e] # None)}
    BY DEF EventsMatchOutcome, HasStatus
  <2>1. EntriesOf(e) # {} <=> Effective(wagers[e])
    BY EntriesCounted
  <2>2. OutboxMatch(e, wagers[e], outbox)
    BY DEF EffectInv, OutboxMatches
  <2>3. QED
    BY <2>1, <2>2 DEF OutboxMatch
<1>2. QED
  BY <1>1, OutcomeInductive, PTL

\* No step of any process changes a wager once it is PROCESSED or REJECTED, and none
\* removes a row or gives it to another request.
THEOREM FinalRowsStay == Spec => FinalRowsImmutable
<1>1. TypeInv /\ RowInv /\ [Next]_vars =>
        [\A e \in Exts : wagers[e] # None =>
           IF wagers[e].status \in Open
           THEN wagers'[e] # None /\ wagers'[e].req = wagers[e].req
           ELSE wagers'[e] = wagers[e]]_vars
  BY RowsStay DEF RowKept, Open
<1>2. QED
  BY <1>1, OutcomeInductive, PTL DEF Spec, FinalRowsImmutable

\* Every answer a client gets is the stored outcome of the payload it names and is
\* still true when it arrives; only a pending one may be overtaken by a worker.
THEOREM AnswersStayTrue == Spec => []AnswersHold
<1>1. AnswerInv => AnswersHold
  BY DEF AnswerInv, AnswersHold
<1>2. QED
  BY <1>1, OutcomeInductive, PTL

\* No client is answered with the outcome of a payload other than the one it sent,
\* whichever of its four lookups or its own commit gives the answer.
THEOREM ReplaysFaithful == Spec => ReplayIsFaithful
<1>1. ASSUME TypeInv, RowInv, [Next]_vars, NEW c \in Clients,
             pc[c] # "reply", pc'[c] = "reply", reply'[c].outcome = "stored"
      PROVE  PayloadHash(reply'[c].row.req) = PayloadHash(Req(c))
  <2>1. AnswerKinds(c)
    BY <1>1, AnswerStep
  <2>2. ASSUME NEW e \in Exts, PayloadHash(wagers[e].req) = PayloadHash(Req(c)),
               reply'[c] = Stored(wagers[e])
        PROVE  PayloadHash(reply'[c].row.req) = PayloadHash(Req(c))
    <3>1. reply'[c].row = wagers[e]
      BY <2>2 DEF Stored
    <3>2. QED
      BY <2>2, <3>1
  <2>3. CASE pc[c] = "commit" /\ reply'[c] = Stored(workWagers[c][Req(c).ext])
    <3>1. reply'[c].row.req = Req(c)
      BY <1>1, <2>3, CommittedAnswer DEF Stored
    <3>2. QED
      BY <3>1
  <2>4. QED
    BY <1>1, <2>1, <2>2, <2>3 DEF AnswerKinds
<1>2. TypeInv /\ RowInv /\ [Next]_vars =>
        [\A c \in Clients :
           pc[c] # "reply" /\ pc'[c] = "reply" /\ reply'[c].outcome = "stored"
              => PayloadHash(reply'[c].row.req) = PayloadHash(Req(c))]_vars
  BY <1>1
<1>3. QED
  BY <1>2, OutcomeInductive, PTL DEF Spec, ReplayIsFaithful

-----------------------------------------------------------------------------
(* References.  A processed refund or rollback (or a win that names its    *)
(* bet) undoes a processed wager of its own wallet, with the opposite      *)
(* movement, and no two of one kind undo the same wager.  Everything that  *)
(* refers to one wager moves the same wallet, so the row lock of the       *)
(* wallet alone keeps what a transaction has found about its reference     *)
(* true until it commits: whoever else would undo the same wager has to    *)
(* hold that lock.                                                         *)

\* Requests are checked before anything is stored.
RequestsValid ==
    /\ \A e \in Exts : wagers[e] # None => ValidRequest(wagers[e].req)
    /\ \A p \in Procs : record[p] # None => ValidRequest(Req(p))

\* p has found the reference of its record.
Resolved(p) ==
    /\ pc[p] = "reversal" \/ (pc[p] = "settle" /\ verdict[p] = "resolved")
    /\ NeedsReference(Req(p))

\* What p has found stays so until it writes its outcome.
ReferencesHold ==
    \A p \in Procs : Resolved(p) =>
        /\ Reference(p) # None
        /\ ReferenceVerdict(Req(p), Reference(p)) = "resolved"
        /\ pc[p] = "settle" => SuccessfulReversals(p) = {}

\* A processed wager that refers to another one.
Refers(row) == row # None /\ row.status = "PROCESSED" /\ NeedsReference(row.req)

\* A row and what it refers to.
RefersTo(row, target) ==
    /\ target # None
    /\ target.status = "PROCESSED"
    /\ target.req.wallet = row.req.wallet
    /\ target.req.kind \in ReferenceKinds(row.req.kind)

\* Every reference is to a processed wager of the same wallet, of a kind that it may
\* refer to, and no two rows of the same kind refer to the same one.
UndoneRight(rows) ==
    /\ \A u \in Exts : Refers(rows[u]) => RefersTo(rows[u], rows[rows[u].req.ref])
    /\ \A u, v \in Exts :
         /\ Refers(rows[u]) /\ Refers(rows[v])
         /\ rows[u].req.kind = rows[v].req.kind /\ rows[u].req.ref = rows[v].req.ref
         => u = v

\* The rows as p sees them.
Views(p) == [e \in Exts |-> View(p, e)]

\* In this ledger the wager of the row moved the amount of its reference back.
Opposed(ledger, row) ==
    \E j \in DOMAIN ledger : \E i \in 1..(j - 1) :
        /\ ledger[j].ext = row.req.ext /\ ledger[i].ext = row.req.ref
        /\ ledger[j].amount = ledger[i].amount /\ ledger[j].dir # ledger[i].dir

\* The ledger of w as a commit of p would leave it.
LedgerOf(p, w) == wallets[w].ledger \o workWallets[p][w].ledger

CommittedReferences ==
    /\ UndoneRight(wagers)
    /\ \A e \in Exts : Refers(wagers[e]) => Opposed(wallets[wagers[e].req.wallet].ledger, wagers[e])

\* A transaction has the lock and a copy of the wallet of every row it has written,
\* and the rows it sees refer to each other as committed ones do.
WorkRefer(p) ==
    /\ UndoneRight(Views(p))
    /\ \A e \in Exts : workWagers[p][e] # None =>
         LET w == workWagers[p][e].req.wallet IN
         /\ w \in Wallets /\ workWallets[p][w] # None
         /\ Refers(workWagers[p][e]) => Opposed(LedgerOf(p, w), workWagers[p][e])

WorkReferences == \A p \in Procs : WorkRefer(p)

ReversalInv == RequestsValid /\ ReferencesHold /\ CommittedReferences /\ WorkReferences

-----------------------------------------------------------------------------
(* What one process may do with its record and its reference.              *)

\* p stands, ends its transaction, gets a record, or takes a step on the one it has.
LocalKinds(p) ==
    \/ pc'[p] = pc[p] /\ record'[p] = record[p] /\ verdict'[p] = verdict[p]
    \/ record'[p] = None /\ pc'[p] \in {"idle", "reply"}
    \/ pc'[p] = "findKey" /\ \E r \in Requests : ValidRequest(r) /\ record'[p] = NewRecord(r)
    \/ /\ pc'[p] = "lockWallet"
       /\ \E e \in Exts : wagers[e] # None /\ record'[p] = wagers[e]
    \/ record'[p] = record[p] /\ pc'[p] \notin {"reversal", "settle"}
    \/ /\ record'[p] = record[p] /\ UNCHANGED <<db, work>>
       /\ pc'[p] = "settle" /\ (verdict'[p] # "resolved" \/ ~NeedsReference(Req(p)))
    \/ /\ record'[p] = record[p] /\ UNCHANGED <<db, work>>
       /\ pc'[p] = "reversal"
       /\ Reference(p) # None /\ ReferenceVerdict(Req(p), Reference(p)) = "resolved"
    \/ /\ record'[p] = record[p] /\ UNCHANGED <<db, work>>
       /\ pc[p] = "reversal" /\ pc'[p] = "settle" /\ SuccessfulReversals(p) = {}

LEMMA LocalStep ==
    ASSUME TypeInv, [Next]_vars, NEW p \in Procs
    PROVE  LocalKinds(p)
<1>1. ASSUME UNCHANGED <<pc, record, verdict>> PROVE LocalKinds(p)
  BY <1>1 DEF LocalKinds
<1>2. ASSUME NEW q \in Procs, NEW label, Goto(q, label), label \notin {"reversal", "settle"},
             UNCHANGED <<record, verdict>>
      PROVE  LocalKinds(p)
  BY <1>2 DEF LocalKinds, Goto, TypeInv, TypeOK
<1>3. ASSUME NEW q \in Procs, NEW label \in {"idle", "reply"}, Goto(q, label), EndTransaction(q)
      PROVE  LocalKinds(p)
  BY <1>3 DEF LocalKinds, Goto, EndTransaction, TypeInv, TypeOK
<1>4. ASSUME NEW q \in Clients, NEW answer, ReplyWithoutEffect(q, answer) PROVE LocalKinds(p)
  BY <1>3, <1>4 DEF ReplyWithoutEffect, Procs
<1>5. ASSUME NEW q \in Procs, Continue(q) PROVE LocalKinds(p)
  <2>1. CASE p # q
    <3>1. verdict'[p] = verdict[p] /\ pc'[p] = pc[p] /\ record'[p] = record[p]
      BY <1>5, <2>1, ContinueShape DEF TypeInv, TypeOK
    <3>2. QED
      BY <3>1 DEF LocalKinds
  <2>2. CASE p = q
    <3>1. CASE pc'[p] = "commit" /\ UNCHANGED record
      BY <3>1 DEF LocalKinds
    <3>2. CASE /\ batch[p] # << >> /\ pc'[p] = "lockWallet"
               /\ record'[p] = wagers[Head(batch[p])]
      <4>1. batch[p] \in Seq(Exts)
        BY DEF TypeInv, TypeOK
      <4>2. Head(batch[p]) = batch[p][1] /\ 1 \in DOMAIN batch[p] /\ batch[p][1] \in Exts
        BY <3>2, <4>1
      <4>3. wagers[Head(batch[p])] # None
        BY <4>2 DEF TypeInv, ControlInv
      <4>4. QED
        BY <3>2, <4>2, <4>3 DEF LocalKinds
    <3>3. QED
      BY <1>5, <2>2, <3>1, <3>2, ContinueShape
  <2>3. QED
    BY <2>1, <2>2
<1>6. ASSUME NEW c \in Clients, NEW here, NEW hits, NEW label, label \notin {"reversal", "settle"},
             Find(c, here, hits, Goto(c, label))
      PROVE  LocalKinds(p)
  BY <1>2, <1>4, <1>6 DEF Find, Procs
<1>7. CASE UNCHANGED vars
  BY <1>1, <1>7 DEF vars
<1>8. ASSUME NEW c \in Clients, NEW r \in Requests, Submit(c, r) PROVE LocalKinds(p)
  <2>1. c \in Procs /\ UNCHANGED verdict
    BY <1>8 DEF Procs, Submit
  <2>2. CASE Goto(c, "reply") /\ UNCHANGED record
    BY <1>2, <2>1, <2>2
  <2>3. CASE /\ ValidRequest(r) /\ Goto(c, "findKey")
             /\ record' = [record EXCEPT ![c] = NewRecord(r)]
    BY <2>1, <2>3 DEF Goto, LocalKinds, TypeInv, TypeOK
  <2>4. QED
    BY <1>8, <2>2, <2>3 DEF Submit
<1>9. ASSUME NEW c \in Clients, ClientStep(c) PROVE LocalKinds(p)
  <2>1. c \in Procs
    BY DEF Procs
  <2>2. CASE FindByIdempotency(c) \/ FindByBusiness(c) \/ RefindByIdempotency(c)
    BY <1>6, <2>2 DEF FindByIdempotency, FindByBusiness, RefindByIdempotency
  <2>3. CASE WalletNotFound(c) \/ RefindByBusiness(c)
    BY <1>4, <2>3 DEF WalletNotFound, RefindByBusiness
  <2>4. CASE LockWallet(c, "insert")
    BY <1>2, <2>1, <2>4 DEF LockWallet
  <2>5. CASE InsertWager(c)
    BY <1>2, <2>1, <2>5 DEF InsertWager
  <2>6. CASE ReceiveReply(c)
    BY <1>2, <2>1, <2>6 DEF ReceiveReply
  <2>7. CASE MarkPendingReference(c)
    BY <1>5, <2>1, <2>7 DEF MarkPendingReference
  <2>8. QED
    BY <1>9, <2>2, <2>3, <2>4, <2>5, <2>6, <2>7 DEF ClientStep
<1>10. ASSUME NEW w \in Workers, WorkerStep(w) PROVE LocalKinds(p)
  <2>1. w \in Procs
    BY DEF Procs
  <2>2. CASE Claim(w)
    <3>1. PICK S \in (SUBSET Claimable) \ {{}} : \E order \in Orderings(S) :
            record' = [record EXCEPT ![w] = wagers[Head(order)]]
      BY <2>2 DEF Claim
    <3> PICK order \in Orderings(S) : record' = [record EXCEPT ![w] = wagers[Head(order)]]
      BY <3>1
    <3>2. S \subseteq Exts /\ S # {} /\ IsFiniteSet(S) /\ \A e \in S : wagers[e] # None
      BY <3>1, WageringAssumption, FS_Subset DEF Claimable
    <3>3. Cardinality(S) \in Nat \ {0}
      BY <3>2, FS_CardinalityType, FS_EmptySet
    <3>4. Head(order) \in S
      BY <3>1, <3>3 DEF Orderings
    <3>5. UNCHANGED verdict /\ Goto(w, "lockWallet")
      BY <2>2 DEF Claim
    <3>6. QED
      BY <2>1, <3>1, <3>2, <3>4, <3>5 DEF Goto, LocalKinds, TypeInv, TypeOK
  <2>3. CASE LockWallet(w, "resolve")
    BY <1>2, <2>1, <2>3 DEF LockWallet
  <2>4. CASE RetryLater(w) \/ GiveUp(w)
    BY <1>5, <2>1, <2>4 DEF RetryLater, GiveUp
  <2>5. QED
    BY <1>10, <2>2, <2>3, <2>4 DEF WorkerStep
<1>11. ASSUME NEW q \in Procs, TransactionStep(q) PROVE LocalKinds(p)
  <2>1. ASSUME NEW v, Conclude(q, v), UNCHANGED <<db, work, record>>, p = q,
               v # "resolved" \/ ~NeedsReference(Req(p))
        PROVE  LocalKinds(p)
    BY <2>1 DEF Conclude, Goto, LocalKinds, TypeInv, TypeOK
  <2>2. CASE SkipReference(q) /\ p = q
    BY <2>1, <2>2 DEF SkipReference
  <2>3. CASE ResolveReference(q) /\ p = q
    <3>1. UNCHANGED <<db, work, record>>
      BY <2>3 DEF ResolveReference
    <3>2. CASE Conclude(q, "REFERENCE_PENDING")
      BY <2>1, <2>3, <3>1, <3>2
    <3>3. CASE /\ Reference(p) # None
               /\ LET found == ReferenceVerdict(Req(p), Reference(p)) IN
                  IF found = "resolved"
                  THEN Goto(p, "reversal") /\ UNCHANGED verdict
                  ELSE Conclude(p, found)
      <4>1. CASE ReferenceVerdict(Req(p), Reference(p)) = "resolved"
        BY <3>1, <3>3, <4>1 DEF Goto, LocalKinds, TypeInv, TypeOK
      <4>2. CASE ReferenceVerdict(Req(p), Reference(p)) # "resolved"
        BY <2>1, <2>3, <3>1, <3>3, <4>2
      <4>3. QED
        BY <4>1, <4>2
    <3>4. QED
      BY <2>3, <3>2, <3>3 DEF ResolveReference
  <2>4. CASE HasSuccessfulReversal(q) /\ p = q
    <3>1. UNCHANGED <<db, work, record>> /\ pc[p] = "reversal"
      BY <2>4 DEF HasSuccessfulReversal
    <3>2. CASE SuccessfulReversals(p) # {}
      BY <2>1, <2>4, <3>1, <3>2 DEF HasSuccessfulReversal
    <3>3. CASE SuccessfulReversals(p) = {}
      BY <2>4, <3>1, <3>3 DEF HasSuccessfulReversal, Conclude, Goto, LocalKinds, TypeInv, TypeOK
    <3>4. QED
      BY <3>2, <3>3
  <2>5. CASE (SkipReference(q) \/ ResolveReference(q) \/ HasSuccessfulReversal(q)) /\ p # q
    BY <2>5 DEF SkipReference, ResolveReference, HasSuccessfulReversal, Conclude, Goto, LocalKinds,
                TypeInv, TypeOK
  <2>6. CASE Reject(q) \/ MarkProcessed(q)
    BY <1>5, <2>6 DEF Reject, MarkProcessed
  <2>7. CASE Commit(q)
    BY <1>3, <2>7 DEF Commit
  <2>8. QED
    BY <1>11, <2>2, <2>3, <2>4, <2>5, <2>6, <2>7 DEF TransactionStep
<1>12. ASSUME NEW q \in Procs, Abort(q) \/ AbortDeadlockVictim(q) PROVE LocalKinds(p)
  BY <1>3, <1>12 DEF Abort, AbortDeadlockVictim, Rollback
<1>13. ASSUME NEW e \in Exts, MakeDue(e) PROVE LocalKinds(p)
  BY <1>1, <1>13 DEF MakeDue
<1>14. QED
  BY <1>7, <1>8, <1>9, <1>10, <1>11, <1>12, <1>13 DEF Next

\* Where a committed row comes from.
RowOrigin(e) ==
    \/ wagers'[e] = wagers[e]
    \/ \E p \in Procs : Commit(p) /\ workWagers[p][e] # None /\ wagers'[e] = workWagers[p][e]
    \/ /\ wagers[e] # None /\ wagers[e].status = "PENDING_REFERENCE"
       /\ wagers'[e] # None /\ wagers'[e].status = "PENDING_REFERENCE"
       /\ wagers'[e].req = wagers[e].req

LEMMA RowStepOrigin ==
    ASSUME TypeInv, [Next]_vars, NEW e \in Exts
    PROVE  RowOrigin(e)
<1>1. ASSUME UNCHANGED wagers PROVE RowOrigin(e)
  BY <1>1 DEF RowOrigin
<1>2. ASSUME NEW p \in Procs, Commit(p) PROVE RowOrigin(e)
  BY <1>2 DEF Commit, View, RowOrigin
<1>3. ASSUME NEW f \in Exts, MakeDue(f) PROVE RowOrigin(e)
  <2>1. /\ wagers[f] \in Rows /\ wagers[f] # None /\ wagers[f].status = "PENDING_REFERENCE"
        /\ wagers' = [wagers EXCEPT ![f].due = TRUE]
    BY <1>3 DEF MakeDue, TypeInv, TypeOK
  <2>2. [wagers[f] EXCEPT !.due = TRUE] \in Rows
    BY <2>1, RowDue
  <2>3. CASE e = f
    BY <2>1, <2>2, <2>3, NoneAssumption DEF RowOrigin, TypeInv, TypeOK, Rows
  <2>4. CASE e # f
    BY <2>1, <2>4 DEF RowOrigin, TypeInv, TypeOK
  <2>5. QED
    BY <2>3, <2>4
<1>4. ASSUME NEW p \in Procs, SettleStep(p) PROVE RowOrigin(e)
  <2>1. UNCHANGED wagers
    BY <1>4, SettleShape, ContinueShape
  <2>2. QED
    BY <1>1, <2>1
<1>5. QED
  BY <1>1, <1>2, <1>3, <1>4, StepKinds DEF db, LockWallet

\* The request of a row a transaction has written, and its wallet.
LEMMA WrittenRequests ==
    ASSUME TypeInv, RowInv, NEW p \in Procs, NEW e \in Exts, workWagers[p][e] # None
    PROVE  /\ workWagers[p][e].req.ext = e
           /\ RequestsValid => ValidRequest(workWagers[p][e].req)
<1>1. CASE p \in Clients
  <2>1. pc[p] = "commit" /\ e = Req(p).ext /\ workWagers[p][e].req = Req(p) /\ record[p] # None
    BY <1>1 DEF RowInv, WritesOwned, TypeInv, ControlInv
  <2>2. QED
    BY <2>1 DEF RequestsValid
<1>2. CASE p \in Workers
  <2>1. wagers[e] # None /\ workWagers[p][e].req = wagers[e].req /\ wagers[e].req.ext = e
    BY <1>2 DEF RowInv, WritesOwned, Claimed, RowsNamed
  <2>2. QED
    BY <2>1 DEF RequestsValid
<1>3. QED
  BY <1>1, <1>2 DEF Procs

LEMMA ValidStep ==
    ASSUME TypeInv, RowInv, RequestsValid, [Next]_vars
    PROVE  RequestsValid'
<1>1. ASSUME NEW e \in Exts, wagers'[e] # None PROVE ValidRequest(wagers'[e].req)
  <2>1. RowOrigin(e)
    BY RowStepOrigin
  <2>2. CASE wagers'[e] = wagers[e]
    BY <1>1, <2>2 DEF RequestsValid
  <2>3. CASE wagers[e] # None /\ wagers'[e].req = wagers[e].req
    BY <2>3 DEF RequestsValid
  <2>4. ASSUME NEW p \in Procs, workWagers[p][e] # None, wagers'[e] = workWagers[p][e]
        PROVE  ValidRequest(wagers'[e].req)
    BY <2>4, WrittenRequests
  <2>5. QED
    BY <2>1, <2>2, <2>3, <2>4 DEF RowOrigin
<1>2. ASSUME NEW p \in Procs, record'[p] # None PROVE ValidRequest(Req(p)')
  <2>1. CASE record'[p] = record[p]
    BY <1>2, <2>1 DEF RequestsValid, Req
  <2>2. ASSUME NEW r \in Requests, ValidRequest(r), record'[p] = NewRecord(r)
        PROVE  ValidRequest(Req(p)')
    BY <2>2 DEF Req, NewRecord
  <2>3. ASSUME NEW e \in Exts, wagers[e] # None, record'[p] = wagers[e]
        PROVE  ValidRequest(Req(p)')
    BY <2>3 DEF Req, RequestsValid
  <2>4. LocalKinds(p)
    BY LocalStep
  <2>5. QED
    BY <1>2, <2>1, <2>2, <2>3, <2>4 DEF LocalKinds
<1>3. QED
  BY <1>1, <1>2 DEF RequestsValid

-----------------------------------------------------------------------------
(* References.                                                             *)

\* The reference p has found is a processed row of the wallet p has locked, written
\* by p itself in this transaction or committed.
LEMMA ReferenceFound ==
    ASSUME TypeInv, RowInv, NEW p \in Procs, NeedsReference(Req(p)),
           pc[p] \in {"resolve", "reversal", "settle"},
           Reference(p) # None, ReferenceVerdict(Req(p), Reference(p)) = "resolved"
    PROVE  /\ Req(p).ref \in Exts
           /\ Reference(p) = View(p, Req(p).ref)
           /\ Reference(p).status = "PROCESSED"
           /\ MatchesReference(Req(p), Reference(p).req)
           /\ Reference(p).req.kind \in ReferenceKinds(Req(p).kind)
<1>1. /\ Reference(p).status = "PROCESSED" /\ MatchesReference(Req(p), Reference(p).req)
      /\ Reference(p).req.kind \in ReferenceKinds(Req(p).kind)
  BY DEF ReferenceVerdict
<1>2. Reference(p) = View(p, Req(p).ref)
  <2>1. p \in Clients => record[p] = NewRecord(Req(p))
    BY DEF RowInv, ClientsApart
  <2>2. NewRecord(Req(p)).status = "PENDING"
    BY DEF NewRecord
  <2>3. QED
    BY <1>1, <2>1, <2>2 DEF Reference
<1>3. Req(p).ref \in Exts
  <2>1. record[p] \in Rows
    BY DEF TypeInv, TypeOK, ControlInv
  <2>2. QED
    BY <2>1, RequestType DEF NeedsReference, Req, Rows
<1>4. QED
  BY <1>1, <1>2, <1>3

\* Only one transaction has a copy of a wallet.
LEMMA OneCopy ==
    ASSUME LedgerInv, NEW p \in Procs, NEW q \in Procs, NEW w \in Wallets,
           workWallets[p][w] # None, workWallets[q][w] # None
    PROVE  p = q
BY DEF LedgerInv, LockedCopiesFresh

\* Whoever sees a row sees the same request in it.
LEMMA ViewsAgree ==
    ASSUME TypeInv, RowInv, NEW p \in Procs, NEW q \in Procs, NEW e \in Exts,
           View(p, e) # None, View(q, e) # None
    PROVE  View(p, e).req = View(q, e).req
<1>1. CASE workWagers[p][e] = None /\ workWagers[q][e] = None
  BY <1>1 DEF View
<1>2. ASSUME NEW r \in Procs, NEW s \in Procs, workWagers[r][e] # None, workWagers[s][e] = None,
             View(s, e) # None
      PROVE  View(r, e).req = View(s, e).req
  BY <1>2, WrittenRows DEF View
<1>3. CASE workWagers[p][e] # None /\ workWagers[q][e] # None
  <2>1. CASE p \in Workers \/ q \in Workers
    <3>1. wagers[e] # None
      BY <1>3, <2>1, WrittenRows
    <3>2. workWagers[p][e].req = wagers[e].req /\ workWagers[q][e].req = wagers[e].req
      BY <1>3, <3>1, WrittenRows
    <3>3. QED
      BY <1>3, <3>2 DEF View
  <2>2. CASE p \in Clients /\ q \in Clients
    <3>1. /\ pc[p] = "commit" /\ e = Req(p).ext /\ pc[q] = "commit" /\ e = Req(q).ext
      BY <1>3, <2>2 DEF RowInv, WritesOwned
    <3>2. p = q
      BY <2>2, <3>1 DEF RowInv, ClientsApart, Inserting
    <3>3. QED
      BY <3>2
  <2>3. QED
    BY <2>1, <2>2 DEF Procs
<1>4. QED
  BY <1>1, <1>2, <1>3

\* What a transaction has written it keeps until its next write or its end.
LEMMA WorkStays ==
    ASSUME TypeInv, [Next]_vars, NEW p \in Procs
    PROVE  workWagers'[p] = workWagers[p] \/ pc'[p] \in {"commit", "lockWallet"} \/ record'[p] = None
<1>1. CASE UNCHANGED workWagers
  BY <1>1
<1>2. ASSUME NEW q \in Procs, SettleStep(q)
      PROVE  workWagers'[p] = workWagers[p] \/ pc'[p] \in {"commit", "lockWallet"}
  <2>1. PICK row \in Rows, wallet \in WalletSpace, events \in SUBSET EventTypes :
          Write(q, row, wallet, events)
    BY <1>2, SettleShape
  <2>2. CASE p # q
    BY <2>1, <2>2 DEF Write, TypeInv, TypeOK
  <2>3. CASE p = q
    BY <1>2, <2>3, SettleShape, ContinueShape
  <2>4. QED
    BY <2>2, <2>3
<1>3. ASSUME NEW q \in Procs, EndTransaction(q)
      PROVE  workWagers'[p] = workWagers[p] \/ record'[p] = None
  BY <1>3 DEF EndTransaction, TypeInv, TypeOK
<1>4. QED
  BY <1>1, <1>2, <1>3, StepKinds DEF work, LockWallet, Commit, MakeDue

\* A processed row that p sees does not change under it.
LEMMA SeenRowStays ==
    ASSUME TypeInv, RowInv, [Next]_vars, NEW p \in Procs, NEW e \in Exts,
           workWagers'[p] = workWagers[p], View(p, e) # None, View(p, e).status = "PROCESSED"
    PROVE  View(p, e)' = View(p, e)
<1>1. CASE workWagers[p][e] # None
  BY <1>1 DEF View
<1>2. CASE workWagers[p][e] = None
  BY <1>2, RowsStay DEF View, RowKept
<1>3. QED
  BY <1>1, <1>2

\* A transaction that has written a row and one that has resolved a reference,
\* or written another row, to the same wager work on the same wallet: they are one.
LEMMA ReferrersMeet ==
    ASSUME TypeInv, RowInv, LedgerInv, WorkReferences, NEW p \in Procs, NEW q \in Procs,
           NEW u \in Exts, Refers(workWagers[q][u]), NEW ref \in Exts, ref = workWagers[q][u].req.ref,
           NEW w \in Wallets, workWallets[p][w] # None,
           View(p, ref) # None, View(p, ref).req.wallet = w
    PROVE  p = q
<1>1. workWagers[q][u] # None /\ Views(q)[u] = workWagers[q][u] /\ Views(q)[ref] = View(q, ref)
  BY DEF Refers, Views, View
<1>2. RefersTo(workWagers[q][u], View(q, ref))
  BY <1>1 DEF WorkReferences, WorkRefer, UndoneRight
<1>3. workWagers[q][u].req.wallet = w
  BY <1>2, ViewsAgree DEF RefersTo
<1>4. workWallets[q][w] # None
  BY <1>1, <1>3 DEF WorkReferences, WorkRefer
<1>5. QED
  BY <1>4, OneCopy

LEMMA ReferencesStep ==
    ASSUME TypeInv, RowInv, LedgerInv, ReferencesHold, WorkReferences, [Next]_vars
    PROVE  ReferencesHold'
<1> DEFINE Held(p) == /\ Reference(p) # None
                      /\ ReferenceVerdict(Req(p), Reference(p)) = "resolved"
                      /\ pc[p] = "settle" => SuccessfulReversals(p) = {}
<1> SUFFICES ASSUME NEW p \in Procs, Resolved(p)'
             PROVE  Held(p)'
  BY DEF ReferencesHold
<1>1. pc'[p] \in {"reversal", "settle"} /\ NeedsReference(Req(p)')
  BY DEF Resolved
<1>2. ASSUME UNCHANGED <<db, work>>, record'[p] = record[p]
      PROVE  /\ Reference(p)' = Reference(p) /\ Req(p)' = Req(p)
             /\ SuccessfulReversals(p)' = SuccessfulReversals(p)
  BY <1>2 DEF db, work, Reference, View, Req, SuccessfulReversals
<1>3. CASE pc'[p] = pc[p] /\ record'[p] = record[p] /\ verdict'[p] = verdict[p]
  <2>1. Resolved(p) /\ Req(p)' = Req(p) /\ record[p] # None
    BY <1>1, <1>3 DEF Resolved, Req, TypeInv, ControlInv
  <2>2. Held(p)
    BY <2>1 DEF ReferencesHold
  <2>3. /\ Req(p).ref \in Exts /\ Reference(p) = View(p, Req(p).ref)
        /\ View(p, Req(p).ref).status = "PROCESSED"
        /\ View(p, Req(p).ref).req.wallet = Req(p).wallet
    BY <1>1, <1>3, <2>1, <2>2, ReferenceFound DEF MatchesReference
  <2>4. workWagers'[p] = workWagers[p]
    BY <1>1, <1>3, <2>1, WorkStays
  <2>5. PICK e \in Exts : e = Req(p).ref
    BY <2>3
  <2>6. Reference(p)' = Reference(p)
    <3>1. View(p, e)' = View(p, e)
      BY <2>2, <2>3, <2>4, <2>5, SeenRowStays
    <3>2. Reference(p)' = IF p \in Clients /\ Req(p).ref = Req(p).ext THEN record[p] ELSE View(p, e)'
      BY <1>3, <2>1, <2>5 DEF Reference, View
    <3>3. QED
      BY <2>5, <3>1, <3>2 DEF Reference
  <2>7. ASSUME pc[p] = "settle", NEW u \in SuccessfulReversals(p)' PROVE FALSE
    <3>1. SuccessfulReversals(p) = {}
      BY <2>2, <2>7
    <3>2. /\ u \in Exts /\ View(p, u)' # None /\ View(p, u)'.status = "PROCESSED"
          /\ View(p, u)'.req.kind = Req(p).kind /\ View(p, u)'.req.ref = Req(p).ref
      BY <2>1 DEF SuccessfulReversals
    <3>3. View(p, u)' # View(p, u)
      BY <3>1, <3>2 DEF SuccessfulReversals
    <3>4. workWagers[p][u] = None /\ View(p, u)' = wagers'[u] /\ wagers'[u] # wagers[u]
      BY <2>4, <3>3 DEF View
    <3>5. PICK q \in Procs : /\ Commit(q) /\ workWagers[q][u] # None
                             /\ wagers'[u] = workWagers[q][u]
      BY <3>2, <3>4, RowStepOrigin DEF RowOrigin
    <3>6. Refers(workWagers[q][u]) /\ workWagers[q][u].req.ref = Req(p).ref
      BY <1>1, <2>1, <3>2, <3>4, <3>5 DEF Refers, NeedsReference
    <3>7. Req(p).wallet \in Wallets /\ workWallets[p][Req(p).wallet] # None
      BY <2>7 DEF TypeInv, ControlInv, Wallet
    <3>8. p = q
      BY <2>2, <2>3, <3>2, <3>6, <3>7, ReferrersMeet
    <3>9. QED
      BY <2>7, <3>5, <3>8 DEF Commit
  <2>8. pc'[p] = "settle" => SuccessfulReversals(p)' = {}
    BY <1>3, <2>7
  <2>9. QED
    BY <2>1, <2>2, <2>6, <2>8
<1>4. CASE /\ record'[p] = record[p] /\ UNCHANGED <<db, work>>
           /\ pc'[p] = "settle" /\ (verdict'[p] # "resolved" \/ ~NeedsReference(Req(p)))
  BY <1>2, <1>4 DEF Resolved
<1>5. CASE /\ record'[p] = record[p] /\ UNCHANGED <<db, work>>
           /\ pc'[p] = "reversal"
           /\ Reference(p) # None /\ ReferenceVerdict(Req(p), Reference(p)) = "resolved"
  BY <1>2, <1>5
<1>6. CASE /\ record'[p] = record[p] /\ UNCHANGED <<db, work>>
           /\ pc[p] = "reversal" /\ pc'[p] = "settle" /\ SuccessfulReversals(p) = {}
  <2>1. Resolved(p)
    BY <1>1, <1>2, <1>6 DEF Resolved
  <2>2. QED
    BY <1>2, <1>6, <2>1 DEF ReferencesHold
<1>7. QED
  BY <1>1, <1>3, <1>4, <1>5, <1>6, LocalStep DEF LocalKinds

-----------------------------------------------------------------------------
(* Ledgers that grow.                                                      *)

LEMMA OpposedGrows ==
    ASSUME NEW ledger \in Seq(Entries), NEW more \in Seq(Entries), NEW row, Opposed(ledger, row)
    PROVE  Opposed(ledger \o more, row)
<1>1. /\ DOMAIN ledger = 1..Len(ledger) /\ Len(ledger) \in Nat
      /\ \A i \in DOMAIN ledger : i \in DOMAIN (ledger \o more) /\ (ledger \o more)[i] = ledger[i]
  OBVIOUS
<1>2. PICK j \in DOMAIN ledger : \E i \in 1..(j - 1) :
        /\ ledger[j].ext = row.req.ext /\ ledger[i].ext = row.req.ref
        /\ ledger[j].amount = ledger[i].amount /\ ledger[j].dir # ledger[i].dir
  BY DEF Opposed
<1>3. \A i \in 1..(j - 1) : i \in DOMAIN ledger
  BY <1>1
<1> DEFINE longer == ledger \o more
<1>4. /\ j \in DOMAIN longer /\ longer[j] = ledger[j]
      /\ \A i \in 1..(j - 1) : longer[i] = ledger[i]
  BY <1>1, <1>3
<1> HIDE DEF longer
<1>5. Opposed(longer, row)
  BY <1>2, <1>4 DEF Opposed
<1>6. QED
  BY <1>5 DEF longer

\* The entry of a row opposes one that is there already.
LEMMA OpposedAdded ==
    ASSUME NEW ledger \in Seq(Entries), NEW entry \in Entries, NEW row, NEW i \in DOMAIN ledger,
           entry.ext = row.req.ext, ledger[i].ext = row.req.ref,
           entry.amount = ledger[i].amount, entry.dir # ledger[i].dir
    PROVE  Opposed(Append(ledger, entry), row)
<1> DEFINE longer == Append(ledger, entry)
           j == Len(ledger) + 1
<1>1. j \in DOMAIN longer /\ longer[j] = entry /\ i \in 1..(j - 1) /\ longer[i] = ledger[i]
  OBVIOUS
<1> HIDE DEF longer, j
<1>2. Opposed(longer, row)
  BY <1>1 DEF Opposed
<1>3. QED
  BY <1>2 DEF longer

\* One more processed row keeps the references right if its own is.
LEMMA UndoneExtended ==
    ASSUME NEW rows \in [Exts -> Rows \cup {None}], NEW e \in Exts, NEW row,
           UndoneRight(rows), rows[e] # None => rows[e].status # "PROCESSED",
           Refers(row) => /\ row.req.ref \in Exts /\ RefersTo(row, rows[row.req.ref])
                          /\ \A u \in Exts : Refers(rows[u]) /\ rows[u].req.kind = row.req.kind =>
                               rows[u].req.ref # row.req.ref
    PROVE  UndoneRight([rows EXCEPT ![e] = row])
<1> DEFINE new == [rows EXCEPT ![e] = row]
<1>1. new[e] = row /\ \A u \in Exts : u # e => new[u] = rows[u]
  OBVIOUS
<1> HIDE DEF new
<1>2. ASSUME NEW u \in Exts, Refers(new[u]) PROVE RefersTo(new[u], new[new[u].req.ref])
  <2>1. CASE u = e
    <3>1. row.req.ref \in Exts /\ RefersTo(row, rows[row.req.ref])
      BY <1>1, <1>2, <2>1
    <3>2. row.req.ref # e
      BY <3>1 DEF RefersTo
    <3>3. QED
      BY <1>1, <2>1, <3>1, <3>2
  <2>2. CASE u # e
    <3>1. new[u] = rows[u] /\ RefersTo(rows[u], rows[rows[u].req.ref])
      BY <1>1, <1>2, <2>2 DEF UndoneRight
    <3>2. rows[u].req.ref \in Exts
      <4>1. rows[u] \in Rows
        BY <1>2, <3>1 DEF Refers
      <4>2. QED
        BY <1>2, <3>1, <4>1, RequestType DEF Refers, NeedsReference, Rows
    <3>3. rows[u].req.ref # e
      BY <3>1 DEF RefersTo
    <3>4. QED
      BY <1>1, <3>1, <3>2, <3>3
  <2>3. QED
    BY <2>1, <2>2
<1>3. ASSUME NEW u \in Exts, NEW v \in Exts, Refers(new[u]), Refers(new[v]),
             new[u].req.kind = new[v].req.kind, new[u].req.ref = new[v].req.ref
      PROVE  u = v
  <2>1. CASE u # e /\ v # e
    BY <1>1, <1>3, <2>1 DEF UndoneRight
  <2>2. CASE u = e /\ v # e
    BY <1>1, <1>3, <2>2
  <2>3. CASE u # e /\ v = e
    BY <1>1, <1>3, <2>3
  <2>4. QED
    BY <2>1, <2>2, <2>3
<1>4. UndoneRight(new)
  BY <1>2, <1>3 DEF UndoneRight
<1>5. QED
  BY <1>4 DEF new

\* The entry of a wager that p sees is in the ledger that p would leave.
LEMMA SeenEntry ==
    ASSUME TypeInv, EffectInv, NEW p \in Procs, NEW e \in Exts, Effective(View(p, e)),
           NEW w \in Wallets, w = View(p, e).req.wallet, workWallets[p][w] # None
    PROVE  \E i \in DOMAIN LedgerOf(p, w) :
             LedgerOf(p, w)[i].ext = e /\ Records(LedgerOf(p, w)[i], View(p, e), w)
<1> DEFINE theirs == wallets[w].ledger
           mine == workWallets[p][w].ledger
<1>1. theirs \in Seq(Entries) /\ mine \in Seq(Entries) /\ LedgerOf(p, w) = theirs \o mine
  BY DEF TypeInv, TypeOK, WalletSpace, LedgerOf
<1>2. e # None
  BY WageringAssumption
<1>3. CASE workWagers[p][e] # None
  <2>1. View(p, e) = workWagers[p][e] /\ EntriesMatch(workWallets[p], workWagers[p])
    BY <1>3 DEF View, EffectInv, WorkMatches, WorkMatch
  <2>2. HasEntry(mine, e) /\ LedgerRecords(mine, workWagers[p], w)
    BY <2>1 DEF EntriesMatch
  <2>3. PICK i \in DOMAIN mine : mine[i].ext = e
    BY <2>2 DEF HasEntry
  <2>4. Records(mine[i], View(p, e), w)
    BY <1>2, <2>1, <2>2, <2>3 DEF LedgerRecords
  <2> HIDE DEF theirs, mine
  <2>5. /\ i + Len(theirs) \in DOMAIN (theirs \o mine)
        /\ (theirs \o mine)[i + Len(theirs)] = mine[i]
    BY <1>1
  <2>6. QED
    BY <1>1, <2>3, <2>4, <2>5
<1>4. CASE workWagers[p][e] = None
  <2>1. View(p, e) = wagers[e] /\ EntriesMatch(wallets, wagers)
    BY <1>4 DEF View, EffectInv, CommittedMatch
  <2>2. wallets[w] # None
    BY NoneAssumption DEF TypeInv, TypeOK
  <2>3. HasEntry(theirs, e) /\ LedgerRecords(theirs, wagers, w)
    BY <2>1, <2>2 DEF EntriesMatch
  <2>4. PICK i \in DOMAIN theirs : theirs[i].ext = e
    BY <2>3 DEF HasEntry
  <2>5. Records(theirs[i], View(p, e), w)
    BY <1>2, <2>1, <2>3, <2>4 DEF LedgerRecords
  <2> HIDE DEF theirs, mine
  <2>6. i \in DOMAIN (theirs \o mine) /\ (theirs \o mine)[i] = theirs[i]
    BY <1>1
  <2>7. QED
    BY <1>1, <2>4, <2>5, <2>6
<1>5. QED
  BY <1>3, <1>4

\* The movement of a record with a resolved reference opposes the one of the reference.
LEMMA DirectionOpposes ==
    ASSUME TypeInv, RequestsValid, NEW p \in Procs, pc[p] = "settle", NeedsReference(Req(p)),
           Reference(p) # None, ReferenceVerdict(Req(p), Reference(p)) = "resolved",
           NEW entry, NEW w, Records(entry, Reference(p), w)
    PROVE  entry.dir # Dir(p) /\ entry.amount = Req(p).amount
<1>1. /\ Reference(p).req.kind \in ReferenceKinds(Req(p).kind)
      /\ Reference(p).req.amount = Req(p).amount
  BY DEF ReferenceVerdict, MatchesReference
<1>2. Req(p).kind \in {"WIN", "REFUND", "ROLLBACK"} /\ RefKind(p) = Reference(p).req.kind
  BY DEF NeedsReference, RefKind
<1>3. CASE Reference(p).req.kind = "BET"
  BY <1>1, <1>2, <1>3 DEF Records, Dir, Direction
<1>4. CASE Reference(p).req.kind \in {"WIN", "REFUND"}
  <2>1. Req(p).kind = "ROLLBACK"
    BY <1>1, <1>2, <1>4 DEF ReferenceKinds
  <2>2. QED
    BY <1>1, <1>2, <1>4, <2>1 DEF Records, Dir, Direction
<1>5. QED
  BY <1>1, <1>2, <1>3, <1>4 DEF ReferenceKinds

\* What others have written and see is not touched by a step that leaves their work
\* and the committed rows and wallets alone.
LEMMA ReferFrame ==
    ASSUME NEW q \in Procs, WorkRefer(q), UNCHANGED <<wallets, wagers>>,
           workWallets'[q] = workWallets[q], workWagers'[q] = workWagers[q]
    PROVE  WorkRefer(q)'
<1>1. Views(q)' = Views(q) /\ \A w \in Wallets : LedgerOf(q, w)' = LedgerOf(q, w)
  BY DEF Views, View, LedgerOf
<1>2. UndoneRight(Views(q)')
  BY <1>1 DEF WorkRefer
<1>3. ASSUME NEW e \in Exts, workWagers'[q][e] # None
      PROVE  LET w == workWagers'[q][e].req.wallet IN
             /\ w \in Wallets /\ workWallets'[q][w] # None
             /\ Refers(workWagers'[q][e]) =>
                  Opposed(wallets'[w].ledger \o workWallets'[q][w].ledger, workWagers'[q][e])
  BY <1>3 DEF WorkRefer, LedgerOf
<1>4. QED
  BY <1>2, <1>3 DEF WorkRefer, LedgerOf

\* The row a transaction is about to write as processed refers to what it has found.
LEMMA OutcomeRefers ==
    ASSUME TypeInv, RowInv, ReferencesHold, NEW p \in Procs, pc[p] = "settle",
           NEW row \in Rows, NEW wallet, WritesOutcome(p, row, wallet), Refers(row)
    PROVE  /\ NeedsReference(Req(p)) /\ Reference(p) # None
           /\ ReferenceVerdict(Req(p), Reference(p)) = "resolved"
           /\ row.req.ref \in Exts
           /\ Reference(p) = View(p, row.req.ref)
           /\ RefersTo(row, View(p, row.req.ref))
           /\ \A u \in Exts : Refers(View(p, u)) /\ View(p, u).req.kind = row.req.kind =>
                View(p, u).req.ref # row.req.ref
<1>1. row.req = Req(p) /\ verdict[p] = "resolved" /\ NeedsReference(Req(p))
  BY DEF WritesOutcome, Refers
<1>2. /\ Reference(p) # None /\ ReferenceVerdict(Req(p), Reference(p)) = "resolved"
      /\ SuccessfulReversals(p) = {}
  BY <1>1 DEF ReferencesHold, Resolved
<1>3. /\ Req(p).ref \in Exts
      /\ Reference(p) = View(p, Req(p).ref)
      /\ Reference(p).status = "PROCESSED"
      /\ MatchesReference(Req(p), Reference(p).req)
      /\ Reference(p).req.kind \in ReferenceKinds(Req(p).kind)
  BY <1>1, <1>2, ReferenceFound
<1>4. RefersTo(row, View(p, row.req.ref))
  BY <1>1, <1>2, <1>3 DEF RefersTo, MatchesReference
<1>5. \A u \in Exts : Refers(View(p, u)) /\ View(p, u).req.kind = row.req.kind =>
        View(p, u).req.ref # row.req.ref
  BY <1>1, <1>2 DEF SuccessfulReversals, Refers
<1>6. QED
  BY <1>1, <1>2, <1>3, <1>4, <1>5

LEMMA SettleRefer ==
    ASSUME TypeInv, RowInv, EffectInv, RequestsValid, ReferencesHold, WorkReferences,
           NEW p \in Procs, SettleStep(p)
    PROVE  WorkReferences'
<1> DEFINE e == Req(p).ext
           w == Req(p).wallet
<1>1. pc[p] = "settle" /\ UNCHANGED <<wallets, wagers>>
  BY SettleShape, ContinueShape
<1>2. PICK row \in Rows, wallet \in WalletSpace : WritesOutcome(p, row, wallet)
  BY SettleOutcome
<1>3. /\ e \in Exts /\ w \in Wallets /\ Wallet(p) \in WalletSpace /\ Wallet(p) = workWallets[p][w]
      /\ workWallets[p][w] # None /\ row # None /\ wallet # None /\ row.req = Req(p)
      /\ Req(p) \in Requests /\ Req(p).amount \in Nat /\ workWagers[p][e] = None
  BY <1>1, <1>2, SettleContext, NotYetWritten, NoneAssumption DEF Wallet, TypeInv, TypeOK, WritesOutcome
<1>4. /\ \A q \in Procs : q # p => workWagers'[q] = workWagers[q] /\ workWallets'[q] = workWallets[q]
      /\ workWagers'[p] = [workWagers[p] EXCEPT ![e] = row]
      /\ workWallets'[p] = [workWallets[p] EXCEPT ![w] = wallet]
  BY <1>2, <1>3 DEF WritesOutcome, Write, TypeInv, TypeOK
<1>5. \A q \in Procs : q # p => WorkRefer(q)'
  BY <1>1, <1>4, ReferFrame DEF WorkReferences
<1>6. WorkRefer(p)
  BY DEF WorkReferences
<1>7. wagers[e] # None => wagers[e].status # "PROCESSED"
  <2>1. p \in Workers => wagers[e].status = "PENDING_REFERENCE"
    BY <1>1 DEF RowInv, WorkersHold, Working, Claimed
  <2>2. p \in Clients => wagers[e] = None
    BY <1>1, <1>3 DEF RowInv, ClientsApart, Inserting
  <2>3. QED
    BY <2>1, <2>2 DEF Procs
<1>8. Views(p)' = [Views(p) EXCEPT ![e] = row] /\ Views(p) \in [Exts -> Rows \cup {None}]
  <2>1. Views(p) \in [Exts -> Rows \cup {None}]
    BY DEF Views, View, TypeInv, TypeOK
  <2>2. \A f \in Exts : Views(p)'[f] = IF f = e THEN row ELSE View(p, f)
    BY <1>1, <1>3, <1>4 DEF Views, View, TypeInv, TypeOK
  <2>3. Views(p)' = [f \in Exts |-> IF f = e THEN row ELSE View(p, f)]
    BY <2>2 DEF Views
  <2>4. QED
    BY <2>1, <2>3 DEF Views
<1>9. UndoneRight([Views(p) EXCEPT ![e] = row])
  <2>1. Views(p)[e] # None => Views(p)[e].status # "PROCESSED"
    BY <1>3, <1>7 DEF Views, View
  <2>2. Refers(row) => /\ row.req.ref \in Exts /\ RefersTo(row, Views(p)[row.req.ref])
                       /\ \A u \in Exts : Refers(Views(p)[u]) /\ Views(p)[u].req.kind = row.req.kind =>
                            Views(p)[u].req.ref # row.req.ref
    BY <1>1, <1>2, OutcomeRefers DEF Views
  <2>3. QED
    BY <1>3, <1>6, <1>8, <2>1, <2>2, UndoneExtended DEF WorkRefer
<1> DEFINE theirs == wallets[w].ledger
           mine == workWallets[p][w].ledger
           entry == Entry(e, Dir(p), Req(p).amount, workWallets[p][w].balance)
<1>10. theirs \in Seq(Entries) /\ mine \in Seq(Entries) /\ theirs \o mine \in Seq(Entries)
       /\ LedgerOf(p, w) = theirs \o mine /\ wallet.ledger \in Seq(Entries)
  BY <1>3 DEF TypeInv, TypeOK, WalletSpace, LedgerOf
<1>11. Effective(row) =>
         /\ wallet.ledger = Append(mine, entry) /\ entry \in Entries
         /\ theirs \o wallet.ledger = Append(theirs \o mine, entry)
  <2> SUFFICES ASSUME Effective(row)
               PROVE  /\ wallet.ledger = Append(mine, entry) /\ entry \in Entries
                      /\ theirs \o wallet.ledger = Append(theirs \o mine, entry)
    OBVIOUS
  <2>1. wallet = Move(workWallets[p][w], e, Dir(p), Req(p).amount)
    BY <1>2, <1>3 DEF WritesOutcome
  <2>2. wallet.ledger = Append(mine, entry)
    BY <2>1 DEF Move
  <2> HIDE DEF theirs, mine, entry
  <2>3. mine \in Seq(Entries \cup {entry}) /\ theirs \in Seq(Entries \cup {entry})
    BY <1>10
  <2>4. entry \in Entries
    <3>1. wallet.ledger[Len(mine) + 1] = entry /\ Len(mine) + 1 \in DOMAIN wallet.ledger
      BY <2>2, <2>3
    <3>2. QED
      BY <1>10, <3>1
  <2>5. theirs \o Append(mine, entry) = Append(theirs \o mine, entry)
    BY <1>10, <2>4, AppendIsConcat, ConcatAssociative, ConcatProperties
  <2>6. QED
    BY <2>2, <2>4, <2>5
<1>12. ASSUME NEW f \in Exts, workWagers'[p][f] # None
       PROVE  LET x == workWagers'[p][f].req.wallet IN
              /\ x \in Wallets /\ workWallets'[p][x] # None
              /\ Refers(workWagers'[p][f]) =>
                   Opposed(wallets[x].ledger \o workWallets'[p][x].ledger, workWagers'[p][f])
  <2>1. CASE f # e
    <3> DEFINE x == workWagers[p][f].req.wallet
    <3>1. workWagers'[p][f] = workWagers[p][f] /\ workWagers[p][f] # None
      BY <1>3, <1>4, <1>12, <2>1 DEF TypeInv, TypeOK
    <3>2. x \in Wallets /\ workWallets[p][x] # None
      BY <1>6, <3>1 DEF WorkRefer
    <3>3. Refers(workWagers[p][f]) => Opposed(LedgerOf(p, x), workWagers[p][f])
      BY <1>6, <3>1 DEF WorkRefer
    <3> HIDE DEF x
    <3>4. CASE x # w
      <4>1. workWallets'[p][x] = workWallets[p][x]
        BY <1>4, <3>2, <3>4 DEF TypeInv, TypeOK
      <4>2. QED
        BY <3>1, <3>2, <3>3, <4>1 DEF LedgerOf, x
    <3>5. CASE x = w
      <4>1. workWallets'[p][w] = wallet
        BY <1>3, <1>4 DEF TypeInv, TypeOK
      <4>2. Refers(workWagers[p][f]) => Opposed(theirs \o mine, workWagers[p][f])
        BY <1>10, <3>3, <3>5
      <4>3. CASE Effective(row)
        <5>1. << entry >> \in Seq(Entries) /\ theirs \o wallet.ledger = (theirs \o mine) \o << entry >>
          <6> HIDE DEF theirs, mine, entry
          <6> DEFINE both == theirs \o mine
          <6>1. entry \in Entries /\ both \in Seq(Entries)
                /\ theirs \o wallet.ledger = Append(both, entry)
            BY <1>10, <1>11, <4>3
          <6> HIDE DEF both
          <6>2. Append(both, entry) = both \o << entry >> /\ << entry >> \in Seq(Entries)
            BY <6>1, AppendIsConcat
          <6>3. QED
            BY <6>1, <6>2 DEF both
        <5>2. Refers(workWagers[p][f]) => Opposed(theirs \o wallet.ledger, workWagers[p][f])
          <6> HIDE DEF theirs, mine, entry
          <6>1. QED
            BY <1>10, <4>2, <5>1, OpposedGrows
        <5>3. QED
          BY <1>3, <3>1, <3>2, <3>5, <4>1, <5>2 DEF x
      <4>4. CASE ~Effective(row)
        <5>1. wallet = workWallets[p][w]
          BY <1>2, <1>3, <4>4 DEF WritesOutcome
        <5>2. QED
          BY <1>3, <3>1, <3>2, <3>5, <4>1, <4>2, <5>1 DEF x
      <4>5. QED
        BY <4>3, <4>4
    <3>6. QED
      BY <3>4, <3>5
  <2>2. CASE f = e
    <3>1. workWagers'[p][f] = row /\ row.req.wallet = w /\ workWallets'[p][w] = wallet
      BY <1>3, <1>4, <2>2 DEF TypeInv, TypeOK
    <3>2. ASSUME Refers(row) PROVE Opposed(theirs \o wallet.ledger, row)
      <4> DEFINE ref == row.req.ref
      <4>1. /\ NeedsReference(Req(p)) /\ Reference(p) # None
            /\ ReferenceVerdict(Req(p), Reference(p)) = "resolved"
            /\ ref \in Exts /\ Reference(p) = View(p, ref) /\ RefersTo(row, View(p, ref))
        BY <1>1, <1>2, <3>2, OutcomeRefers
      <4>2. Effective(row) /\ Effective(View(p, ref)) /\ View(p, ref).req.wallet = w
        BY <3>1, <3>2, <4>1 DEF Refers, RefersTo, NeedsReference, ReferenceKinds, Effective, Financial
      <4>3. PICK i \in DOMAIN LedgerOf(p, w) :
              LedgerOf(p, w)[i].ext = ref /\ Records(LedgerOf(p, w)[i], View(p, ref), w)
        BY <1>3, <4>1, <4>2, SeenEntry
      <4>4. LedgerOf(p, w)[i].dir # Dir(p) /\ LedgerOf(p, w)[i].amount = Req(p).amount
        BY <1>1, <4>1, <4>3, DirectionOpposes
      <4>5. entry.ext = row.req.ext /\ entry.dir = Dir(p) /\ entry.amount = Req(p).amount
        BY <1>3 DEF Entry
      <4>6. entry \in Entries /\ theirs \o wallet.ledger = Append(LedgerOf(p, w), entry)
            /\ LedgerOf(p, w) \in Seq(Entries)
        BY <1>10, <1>11, <4>2
      <4> HIDE DEF entry, theirs, mine
      <4>7. Opposed(Append(LedgerOf(p, w), entry), row)
        BY <4>3, <4>4, <4>5, <4>6, OpposedAdded
      <4>8. QED
        BY <4>6, <4>7
    <3>3. QED
      BY <1>3, <3>1, <3>2
  <2>3. QED
    BY <2>1, <2>2
<1>13. UndoneRight(Views(p)')
  BY <1>8, <1>9
<1>14. WorkRefer(p)'
  BY <1>1, <1>12, <1>13 DEF WorkRefer, LedgerOf
<1>15. QED
  BY <1>5, <1>14 DEF WorkReferences

\* A processed row that refers to another one is the row of a wallet that exists.
LEMMA ReferrerWallet ==
    ASSUME TypeInv, EffectInv, NEW e \in Exts, Refers(wagers[e])
    PROVE  wagers[e].req.wallet \in Wallets
<1>1. Effective(wagers[e])
  BY DEF Refers, NeedsReference, Effective, Financial
<1>2. QED
  BY <1>1 DEF EffectInv, CommittedMatch, EntriesMatch

\* A row that refers to another one names it.
LEMMA ReferrerRef ==
    ASSUME NEW row \in Rows, Refers(row) PROVE row.req.ref \in Exts
BY RequestType DEF Refers, NeedsReference, Rows

LEMMA CommitRefer ==
    ASSUME TypeInv, RowInv, LedgerInv, EffectInv, CommittedReferences, WorkReferences,
           NEW p \in Procs, Commit(p)
    PROVE  CommittedReferences' /\ WorkReferences'
<1>1. /\ wagers' = Views(p) /\ EndTransaction(p) /\ pc[p] = "commit" /\ [Next]_vars
      /\ \A w \in Wallets : wallets'[w] = IF workWallets[p][w] # None
                                          THEN Merged(wallets[w], workWallets[p][w]) ELSE wallets[w]
  BY DEF Commit, Views, Next, TransactionStep
<1>2. /\ \A q \in Procs : q # p => workWagers'[q] = workWagers[q] /\ workWallets'[q] = workWallets[q]
      /\ \A e \in Exts : workWagers'[p][e] = None
  BY <1>1 DEF EndTransaction, TypeInv, TypeOK
<1>3. WorkRefer(p) /\ UndoneRight(wagers)
  BY DEF WorkReferences, CommittedReferences
<1>4. UndoneRight(wagers')
  BY <1>1, <1>3 DEF WorkRefer
<1>5. ASSUME NEW w \in Wallets
      PROVE  /\ wallets[w].ledger \in Seq(Entries)
             /\ workWallets[p][w] # None =>
                  /\ workWallets[p][w].ledger \in Seq(Entries)
                  /\ wallets'[w].ledger = LedgerOf(p, w)
             /\ workWallets[p][w] = None => wallets'[w].ledger = wallets[w].ledger
  <2>1. /\ wallets[w] \in WalletSpace
        /\ workWallets[p][w] # None => workWallets[p][w] \in WalletSpace
    BY DEF TypeInv, TypeOK
  <2>2. workWallets[p][w] # None => wallets'[w].ledger = LedgerOf(p, w)
    <3>1. PICK after : after = Merged(wallets[w], workWallets[p][w])
      OBVIOUS
    <3>2. after.ledger = LedgerOf(p, w)
      BY <3>1, MergedLedger DEF LedgerOf
    <3>3. QED
      BY <1>1, <3>1, <3>2
  <2>3. QED
    BY <1>1, <2>1, <2>2 DEF WalletSpace
<1>6. ASSUME NEW e \in Exts, Refers(wagers'[e])
      PROVE  Opposed(wallets'[wagers'[e].req.wallet].ledger, wagers'[e])
  <2> DEFINE w == wagers'[e].req.wallet
  <2>1. CASE workWagers[p][e] # None
    <3>1. wagers'[e] = workWagers[p][e]
      BY <1>1, <2>1 DEF Views, View
    <3>2. w \in Wallets /\ workWallets[p][w] # None /\ Opposed(LedgerOf(p, w), wagers'[e])
      BY <1>3, <1>6, <2>1, <3>1 DEF WorkRefer
    <3>3. QED
      BY <1>5, <3>2
  <2>2. CASE workWagers[p][e] = None
    <3>1. wagers'[e] = wagers[e]
      BY <1>1, <2>2 DEF Views, View
    <3>2. w \in Wallets /\ Opposed(wallets[w].ledger, wagers'[e])
      BY <1>6, <3>1, ReferrerWallet DEF CommittedReferences
    <3> HIDE DEF w
    <3>3. Opposed(wallets'[w].ledger, wagers'[e])
      BY <1>5, <3>2, OpposedGrows DEF LedgerOf
    <3>4. QED
      BY <3>3 DEF w
  <2>3. QED
    BY <2>1, <2>2
<1>7. CommittedReferences'
  BY <1>4, <1>6 DEF CommittedReferences
<1>8. UndoneRight(Views(p)')
  <2>1. Views(p)' = [e \in Exts |-> wagers'[e]]
    BY <1>2 DEF Views, View
  <2>2. \A e \in Exts : Views(p)'[e] = wagers'[e]
    BY <2>1
  <2>3. \A e \in Exts : Refers(wagers'[e]) => wagers'[e].req.ref \in Exts
    BY <1>1, ReferrerRef DEF Refers, Views, View, TypeInv, TypeOK
  <2>4. QED
    BY <1>4, <2>2, <2>3 DEF UndoneRight
<1>9. WorkRefer(p)'
  BY <1>2, <1>8 DEF WorkRefer, UndoneRight, Refers, RefersTo
<1>10. ASSUME NEW q \in Procs, q # p PROVE WorkRefer(q)'
  <2> DEFINE V == Views(q)'
  <2>1. WorkRefer(q) /\ workWagers'[q] = workWagers[q] /\ workWallets'[q] = workWallets[q]
    BY <1>2, <1>10 DEF WorkReferences
  <2>2. ASSUME NEW e \in Exts PROVE V[e] = IF workWagers[q][e] # None THEN workWagers[q][e] ELSE View(p, e)
    BY <1>1, <2>1 DEF Views, View
  <2>3. ASSUME NEW e \in Exts, View(q, e) # None, View(q, e).status = "PROCESSED"
        PROVE  V[e] = View(q, e)
    <3>1. View(q, e)' = View(q, e)
      BY <1>1, <2>1, <2>3, SeenRowStays
    <3>2. QED
      BY <3>1 DEF Views
  <2>4. \A e \in Exts : View(p, e) \in Rows \cup {None} /\ View(q, e) \in Rows \cup {None}
                        /\ Views(p)[e] = View(p, e) /\ Views(q)[e] = View(q, e)
    BY DEF View, Views, TypeInv, TypeOK
  <2> HIDE DEF V
  <2>5. ASSUME NEW u \in Exts, Refers(V[u]) PROVE RefersTo(V[u], V[V[u].req.ref])
    <3> DEFINE ref == V[u].req.ref
    <3>1. CASE workWagers[q][u] # None
      <4>1. V[u] = View(q, u)
        BY <2>2, <3>1 DEF View
      <4>2. ref \in Exts /\ RefersTo(View(q, u), View(q, ref))
        BY <2>1, <2>4, <2>5, <4>1, ReferrerRef DEF WorkRefer, UndoneRight, Refers
      <4>3. V[ref] = View(q, ref)
        BY <2>3, <4>2 DEF RefersTo
      <4>4. QED
        BY <4>1, <4>2, <4>3
    <3>2. CASE workWagers[q][u] = None
      <4>1. V[u] = View(p, u)
        BY <2>2, <3>2
      <4>2. ref \in Exts /\ RefersTo(View(p, u), View(p, ref))
        BY <1>3, <2>4, <2>5, <4>1, ReferrerRef DEF WorkRefer, UndoneRight, Refers
      <4>3. CASE workWagers[q][ref] = None
        BY <2>2, <4>1, <4>2, <4>3
      <4>4. CASE workWagers[q][ref] # None
        <5>1. workWagers[p][u] # None
          <6>1. SUFFICES ASSUME workWagers[p][u] = None PROVE FALSE
            OBVIOUS
          <6>2. Refers(wagers[u]) /\ wagers[u].req.ref = ref
            BY <2>5, <4>1, <6>1 DEF View
          <6>3. wagers[ref] # None /\ wagers[ref].status = "PROCESSED"
            BY <1>3, <6>2 DEF UndoneRight, RefersTo
          <6>4. QED
            BY <4>2, <4>4, <6>3, WrittenRows
        <5>2. View(p, ref).req = View(q, ref).req /\ View(q, ref) = workWagers[q][ref]
          BY <4>2, <4>4, ViewsAgree DEF RefersTo, View
        <5>3. workWagers[q][ref].req.wallet = workWagers[p][u].req.wallet
          BY <4>2, <5>1, <5>2 DEF RefersTo, View
        <5>4. /\ workWagers[p][u].req.wallet \in Wallets
              /\ workWallets[p][workWagers[p][u].req.wallet] # None
              /\ workWallets[q][workWagers[p][u].req.wallet] # None
          BY <1>3, <2>1, <4>2, <4>4, <5>1, <5>3 DEF WorkRefer
        <5>5. QED
          BY <1>10, <5>4, OneCopy
      <4>5. QED
        BY <4>3, <4>4
    <3>3. QED
      BY <3>1, <3>2
  <2>6. ASSUME NEW u \in Exts, NEW v \in Exts, Refers(V[u]), Refers(V[v]),
               V[u].req.kind = V[v].req.kind, V[u].req.ref = V[v].req.ref,
               workWagers[q][u] # None
        PROVE  u = v
    <3>1. V[u] = View(q, u) /\ View(q, u) = workWagers[q][u]
      BY <2>2, <2>6 DEF View
    <3>2. CASE workWagers[q][v] # None \/ workWagers[p][v] = None
      <4>1. V[v] = View(q, v)
        BY <2>2, <3>2 DEF View
      <4>2. QED
        BY <2>1, <2>4, <2>6, <3>1, <4>1 DEF WorkRefer, UndoneRight
    <3>3. CASE workWagers[q][v] = None /\ workWagers[p][v] # None
      <4> DEFINE ref == V[u].req.ref
                 w == workWagers[q][u].req.wallet
      <4>1. V[v] = workWagers[p][v]
        BY <2>2, <3>3 DEF View
      <4>2. ref \in Exts /\ RefersTo(View(q, u), View(q, ref))
        BY <2>1, <2>4, <2>6, <3>1, ReferrerRef DEF WorkRefer, UndoneRight, Refers
      <4>3. w \in Wallets /\ workWallets[q][w] # None
        BY <2>1, <2>6 DEF WorkRefer
      <4>4. View(q, ref) # None /\ View(q, ref).req.wallet = w
        BY <3>1, <4>2 DEF RefersTo
      <4>5. Refers(workWagers[p][v]) /\ workWagers[p][v].req.ref = ref
        BY <2>6, <4>1
      <4> HIDE DEF ref, w
      <4>6. p = q
        BY <4>2, <4>3, <4>4, <4>5, ReferrersMeet
      <4>7. QED
        BY <1>10, <4>6
    <3>4. QED
      BY <3>2, <3>3
  <2>7. ASSUME NEW u \in Exts, NEW v \in Exts, Refers(V[u]), Refers(V[v]),
               V[u].req.kind = V[v].req.kind, V[u].req.ref = V[v].req.ref
        PROVE  u = v
    <3>1. CASE workWagers[q][u] # None
      BY <2>6, <2>7, <3>1
    <3>2. CASE workWagers[q][v] # None
      BY <2>6, <2>7, <3>2
    <3>3. CASE workWagers[q][u] = None /\ workWagers[q][v] = None
      BY <1>3, <2>2, <2>4, <2>7, <3>3 DEF WorkRefer, UndoneRight
    <3>4. QED
      BY <3>1, <3>2, <3>3
  <2>8. UndoneRight(V)
    BY <2>5, <2>7 DEF UndoneRight
  <2>9. ASSUME NEW e \in Exts, workWagers'[q][e] # None
        PROVE  LET w == workWagers'[q][e].req.wallet IN
               /\ w \in Wallets /\ workWallets'[q][w] # None
               /\ Refers(workWagers'[q][e]) =>
                    Opposed(wallets'[w].ledger \o workWallets'[q][w].ledger, workWagers'[q][e])
    <3> DEFINE w == workWagers[q][e].req.wallet
    <3>1. /\ w \in Wallets /\ workWallets[q][w] # None
          /\ Refers(workWagers[q][e]) => Opposed(LedgerOf(q, w), workWagers[q][e])
      BY <2>1, <2>9 DEF WorkRefer
    <3>2. workWallets[p][w] = None
      BY <1>10, <3>1, OneCopy
    <3>3. wallets'[w].ledger = wallets[w].ledger
      BY <1>5, <3>1, <3>2
    <3>4. QED
      BY <2>1, <3>1, <3>3 DEF LedgerOf
  <2>10. QED
    BY <2>8, <2>9 DEF WorkRefer, LedgerOf, V
<1>11. QED
  BY <1>7, <1>9, <1>10 DEF WorkReferences

LEMMA LockRefer ==
    ASSUME TypeInv, WorkReferences, NEW p \in Procs, NEW next, LockWallet(p, next)
    PROVE  WorkReferences'
<1> DEFINE w == Req(p).wallet
<1>1. /\ UNCHANGED <<wallets, wagers, workWagers>> /\ w \in Wallets
      /\ workWallets' = [workWallets EXCEPT ![p][w] = IF @ = None THEN Copy(w) ELSE @]
  BY DEF LockWallet, db
<1> HIDE DEF w
<1>2. \A q \in Procs, x \in Wallets :
        workWallets[q][x] # None => workWallets'[q][x] = workWallets[q][x]
  BY <1>1 DEF TypeInv, TypeOK
<1>3. ASSUME NEW q \in Procs PROVE WorkRefer(q)'
  <2>1. WorkRefer(q)
    BY DEF WorkReferences
  <2>2. UndoneRight(Views(q)')
    BY <1>1, <2>1 DEF WorkRefer, Views, View
  <2>3. ASSUME NEW e \in Exts, workWagers'[q][e] # None
        PROVE  LET x == workWagers'[q][e].req.wallet IN
               /\ x \in Wallets /\ workWallets'[q][x] # None
               /\ Refers(workWagers'[q][e]) =>
                    Opposed(wallets'[x].ledger \o workWallets'[q][x].ledger, workWagers'[q][e])
    <3>1. PICK x : x = workWagers[q][e].req.wallet
      OBVIOUS
    <3>2. /\ x \in Wallets /\ workWallets[q][x] # None
          /\ Refers(workWagers[q][e]) => Opposed(wallets[x].ledger \o workWallets[q][x].ledger, workWagers[q][e])
      BY <1>1, <2>1, <2>3, <3>1 DEF WorkRefer, LedgerOf
    <3>3. workWallets'[q][x] = workWallets[q][x]
      BY <1>2, <3>2
    <3>4. QED
      BY <1>1, <3>1, <3>2, <3>3
  <2>4. QED
    BY <2>2, <2>3 DEF WorkRefer, LedgerOf
<1>4. QED
  BY <1>3 DEF WorkReferences

LEMMA EndRefer ==
    ASSUME TypeInv, CommittedReferences, WorkReferences, NEW p \in Procs,
           EndTransaction(p), UNCHANGED db
    PROVE  CommittedReferences' /\ WorkReferences'
<1>1. /\ UNCHANGED <<wallets, wagers>>
      /\ \A q \in Procs : q # p => workWagers'[q] = workWagers[q] /\ workWallets'[q] = workWallets[q]
      /\ \A e \in Exts : workWagers'[p][e] = None
  BY DEF db, EndTransaction, TypeInv, TypeOK
<1>2. CommittedReferences'
  BY <1>1 DEF CommittedReferences, UndoneRight
<1>3. \A q \in Procs : q # p => WorkRefer(q)'
  BY <1>1, ReferFrame DEF WorkReferences
<1>4. UndoneRight(Views(p)')
  <2>1. Views(p)' = [e \in Exts |-> wagers[e]]
    BY <1>1 DEF Views, View
  <2>2. \A e \in Exts : Views(p)'[e] = wagers[e]
    BY <2>1
  <2>3. \A e \in Exts : Refers(wagers[e]) => wagers[e].req.ref \in Exts
    BY ReferrerRef DEF Refers, TypeInv, TypeOK
  <2>4. QED
    BY <2>2, <2>3 DEF CommittedReferences, UndoneRight
<1>5. WorkRefer(p)'
  BY <1>1, <1>4 DEF WorkRefer, UndoneRight, Refers, RefersTo
<1>6. QED
  BY <1>2, <1>3, <1>5 DEF WorkReferences

\* Only the status and the request of a row matter.
LEMMA UndoneSame ==
    ASSUME NEW rows \in [Exts -> Rows \cup {None}], NEW new, UndoneRight(rows),
           \A e \in Exts : new[e] = None <=> rows[e] = None,
           \A e \in Exts : rows[e] # None =>
             new[e].status = rows[e].status /\ new[e].req = rows[e].req
    PROVE  UndoneRight(new)
<1>1. \A e \in Exts : Refers(new[e]) <=> Refers(rows[e])
  BY DEF Refers
<1>2. \A e \in Exts : Refers(rows[e]) => rows[e].req.ref \in Exts /\ rows[e] # None
  BY ReferrerRef DEF Refers
<1>3. \A u \in Exts : Refers(new[u]) => RefersTo(new[u], new[new[u].req.ref])
  BY <1>1, <1>2 DEF UndoneRight, RefersTo
<1>4. \A u, v \in Exts :
        /\ Refers(new[u]) /\ Refers(new[v])
        /\ new[u].req.kind = new[v].req.kind /\ new[u].req.ref = new[v].req.ref
        => u = v
  BY <1>1, <1>2 DEF UndoneRight
<1>5. QED
  BY <1>3, <1>4 DEF UndoneRight

LEMMA MakeDueRefer ==
    ASSUME TypeInv, CommittedReferences, WorkReferences, NEW f \in Exts, MakeDue(f)
    PROVE  CommittedReferences' /\ WorkReferences'
<1>1. /\ UNCHANGED <<wallets, workWallets, workWagers>>
      /\ wagers[f] \in Rows /\ wagers[f] # None
      /\ wagers' = [wagers EXCEPT ![f].due = TRUE]
  BY DEF MakeDue, work, TypeInv, TypeOK
<1>2. [wagers[f] EXCEPT !.due = TRUE] \in Rows
  BY <1>1, RowDue
<1>3. /\ \A e \in Exts : e # f => wagers'[e] = wagers[e]
      /\ wagers'[f] # None
      /\ wagers'[f].status = wagers[f].status /\ wagers'[f].req = wagers[f].req
  BY <1>1, <1>2, NoneAssumption DEF TypeInv, TypeOK, Rows
<1>4. \A e \in Exts : /\ wagers'[e] = None <=> wagers[e] = None
                      /\ wagers[e] # None => /\ wagers'[e].status = wagers[e].status
                                             /\ wagers'[e].req = wagers[e].req
  BY <1>1, <1>3
<1>5. CommittedReferences'
  <2>1. UndoneRight(wagers')
    BY <1>4, UndoneSame DEF CommittedReferences, TypeInv, TypeOK
  <2>2. ASSUME NEW e \in Exts, Refers(wagers'[e])
        PROVE  Opposed(wallets'[wagers'[e].req.wallet].ledger, wagers'[e])
    <3>1. Refers(wagers[e]) /\ wagers'[e].req = wagers[e].req
      BY <1>4, <2>2 DEF Refers
    <3> DEFINE ledger == wallets[wagers[e].req.wallet].ledger
    <3>2. Opposed(ledger, wagers[e])
      BY <3>1 DEF CommittedReferences
    <3> HIDE DEF ledger
    <3>3. Opposed(ledger, wagers'[e])
      BY <3>1, <3>2 DEF Opposed
    <3>4. QED
      BY <1>1, <3>1, <3>3 DEF ledger
  <2>3. QED
    BY <2>1, <2>2 DEF CommittedReferences
<1>6. ASSUME NEW q \in Procs PROVE WorkRefer(q)'
  <2>1. WorkRefer(q) /\ Views(q) \in [Exts -> Rows \cup {None}]
    BY DEF WorkReferences, Views, View, TypeInv, TypeOK
  <2>2. \A e \in Exts : Views(q)'[e] = IF workWagers[q][e] # None THEN workWagers[q][e] ELSE wagers'[e]
    BY <1>1 DEF Views, View
  <2>3. \A e \in Exts : /\ Views(q)'[e] = None <=> Views(q)[e] = None
                        /\ Views(q)[e] # None => /\ Views(q)'[e].status = Views(q)[e].status
                                                 /\ Views(q)'[e].req = Views(q)[e].req
    BY <1>4, <2>2 DEF Views, View
  <2>4. UndoneRight(Views(q)')
    BY <2>1, <2>3, UndoneSame DEF WorkRefer
  <2>5. ASSUME NEW e \in Exts, workWagers'[q][e] # None
        PROVE  LET x == workWagers'[q][e].req.wallet IN
               /\ x \in Wallets /\ workWallets'[q][x] # None
               /\ Refers(workWagers'[q][e]) =>
                    Opposed(wallets'[x].ledger \o workWallets'[q][x].ledger, workWagers'[q][e])
    BY <1>1, <2>1, <2>5 DEF WorkRefer, LedgerOf
  <2>6. QED
    BY <2>4, <2>5 DEF WorkRefer, LedgerOf
<1>7. QED
  BY <1>5, <1>6 DEF WorkReferences

LEMMA InitReversal == Init => ReversalInv
<1> SUFFICES ASSUME Init PROVE ReversalInv
  OBVIOUS
<1>1. /\ \A e \in Exts : wagers[e] = None
      /\ \A p \in Procs : record[p] = None /\ pc[p] = "idle"
                          /\ \A e \in Exts : workWagers[p][e] = None /\ Views(p)[e] = None
  BY DEF Init, Views, View
<1>2. RequestsValid /\ ReferencesHold
  BY <1>1 DEF RequestsValid, ReferencesHold, Resolved
<1>3. CommittedReferences /\ WorkReferences
  BY <1>1 DEF CommittedReferences, WorkReferences, WorkRefer, UndoneRight, Refers
<1>4. QED
  BY <1>2, <1>3 DEF ReversalInv

LEMMA ReversalStep ==
    ASSUME TypeInv, RowInv, LedgerInv, EffectInv, ReversalInv, [Next]_vars
    PROVE  ReversalInv'
<1>1. RequestsValid' /\ ReferencesHold'
  BY ValidStep, ReferencesStep DEF ReversalInv
<1>2. CASE UNCHANGED <<db, work>>
  <2>1. UNCHANGED <<wallets, wagers, workWallets, workWagers>>
    BY <1>2 DEF db, work
  <2>2. \A q \in Procs : WorkRefer(q)'
    BY <2>1, ReferFrame DEF ReversalInv, WorkReferences
  <2>3. CommittedReferences'
    BY <2>1 DEF ReversalInv, CommittedReferences
  <2>4. QED
    BY <1>1, <2>2, <2>3 DEF ReversalInv, WorkReferences
<1>3. ASSUME UNCHANGED <<wallets, wagers>> PROVE CommittedReferences'
  BY <1>3 DEF ReversalInv, CommittedReferences
<1>4. ASSUME NEW p \in Procs, NEW next, LockWallet(p, next) PROVE ReversalInv'
  <2>1. UNCHANGED <<wallets, wagers>>
    BY <1>4 DEF LockWallet, db
  <2>2. QED
    BY <1>1, <1>3, <1>4, <2>1, LockRefer DEF ReversalInv
<1>5. ASSUME NEW p \in Procs, SettleStep(p) PROVE ReversalInv'
  <2>1. UNCHANGED <<wallets, wagers>>
    BY <1>5, SettleShape, ContinueShape
  <2>2. QED
    BY <1>1, <1>3, <1>5, <2>1, SettleRefer DEF ReversalInv
<1>6. ASSUME NEW p \in Procs, Commit(p) PROVE ReversalInv'
  BY <1>1, <1>6, CommitRefer DEF ReversalInv
<1>7. ASSUME NEW p \in Procs, EndTransaction(p), UNCHANGED db PROVE ReversalInv'
  BY <1>1, <1>7, EndRefer DEF ReversalInv
<1>8. ASSUME NEW e \in Exts, MakeDue(e) PROVE ReversalInv'
  BY <1>1, <1>8, MakeDueRefer DEF ReversalInv
<1>9. QED
  BY <1>2, <1>4, <1>5, <1>6, <1>7, <1>8, StepKinds

LEMMA ReversalInductive == Spec => [](TypeInv /\ RowInv /\ LedgerInv /\ EffectInv /\ ReversalInv)
<1>1. Init => ReversalInv
  BY InitReversal
<1>2. TypeInv /\ RowInv /\ LedgerInv /\ EffectInv /\ ReversalInv /\ [Next]_vars => ReversalInv'
  BY ReversalStep
<1>3. QED
  BY <1>1, <1>2, OutcomeInductive, LedgerInductive, PTL DEF Spec

\* HasSuccessfulReversal is never outrun: whoever would undo the same wager by the
\* same kind of reversal waits for the row lock of the wallet, and a refund only
\* ever undoes a bet.
THEOREM UndoneOnce == Spec => []UndoneOncePerKind
<1>1. TypeInv /\ ReversalInv => UndoneOncePerKind
  <2> SUFFICES ASSUME TypeInv, ReversalInv, NEW e \in Exts,
                      NEW u \in Undoings(e), NEW v \in Undoings(e), u # v
               PROVE  wagers[e].req.kind = "BET" /\ wagers[u].req.kind # wagers[v].req.kind
    BY DEF UndoneOncePerKind
  <2>1. ASSUME NEW x \in Undoings(e)
        PROVE  /\ x \in Exts /\ Refers(wagers[x]) /\ wagers[x].req.ref = e
               /\ wagers[x].req.kind \in {"REFUND", "ROLLBACK"}
               /\ RefersTo(wagers[x], wagers[e])
    <3>1. /\ x \in Exts /\ wagers[x] # None /\ wagers[x].status = "PROCESSED"
          /\ wagers[x].req.kind \in {"REFUND", "ROLLBACK"} /\ wagers[x].req.ref = e
      BY <2>1 DEF Undoings, Reversals
    <3>2. e # None
      BY WageringAssumption
    <3>3. Refers(wagers[x])
      BY <3>1, <3>2 DEF Refers, NeedsReference
    <3>4. QED
      BY <3>1, <3>3 DEF ReversalInv, CommittedReferences, UndoneRight
  <2>2. u \in Exts /\ v \in Exts /\ wagers[u].req.kind # wagers[v].req.kind
    BY <2>1 DEF ReversalInv, CommittedReferences, UndoneRight
  <2>3. wagers[u].req.kind = "REFUND" \/ wagers[v].req.kind = "REFUND"
    BY <2>1, <2>2
  <2>4. wagers[e].req.kind = "BET"
    BY <2>1, <2>3 DEF RefersTo, ReferenceKinds
  <2>5. QED
    BY <2>2, <2>4
<1>2. QED
  BY <1>1, ReversalInductive, PTL

\* A processed refund or rollback moved the amount of its reference back: the entry
\* of the reference is before its own in the ledger, with the opposite direction.
THEOREM ReversalsUndo == Spec => []ReversalUndoesReference
<1>1. TypeInv /\ RowInv /\ ReversalInv => ReversalUndoesReference
  <2> SUFFICES ASSUME TypeInv, RowInv, ReversalInv, NEW e \in Exts, wagers[e] # None,
                      wagers[e].status = "PROCESSED", wagers[e].req.kind \in Reversals
               PROVE  LET ledger == wallets[wagers[e].req.wallet].ledger IN
                      \E j \in DOMAIN ledger : \E i \in 1..(j - 1) :
                         /\ ledger[j].ext = e /\ ledger[i].ext = wagers[e].req.ref
                         /\ ledger[j].amount = ledger[i].amount /\ ledger[j].dir # ledger[i].dir
    BY DEF ReversalUndoesReference
  <2>1. wagers[e].req.kind \in {"REFUND", "ROLLBACK"} /\ wagers[e].req.ref # None
    BY DEF ReversalInv, RequestsValid, ValidRequest, Reversals
  <2>2. Refers(wagers[e])
    BY <2>1 DEF Refers, NeedsReference
  <2>3. wagers[e].req.ext = e
    BY DEF RowInv, RowsNamed
  <2>4. Opposed(wallets[wagers[e].req.wallet].ledger, wagers[e])
    BY <2>2 DEF ReversalInv, CommittedReferences
  <2>5. QED
    BY <2>3, <2>4 DEF Opposed
<1>2. QED
  BY <1>1, ReversalInductive, PTL

-----------------------------------------------------------------------------
(* Deadlocks.                                                              *)

\* Where a client is that holds the row lock of a wallet, or of a wager.
HasWallet == {"insert", "refindKey", "refindExt", "resolve", "reversal", "settle", "commit"}
HasWager  == {"reversal", "settle", "commit"}

LocksOf(c) ==
    /\ \A w \in Wallets : walletLock[w] = c => pc[c] \in HasWallet
    /\ \A e \in Exts : wagerLock[e] = c => pc[c] \in HasWager

LocksHeld == \A c \in Clients : LocksOf(c)

\* c goes on, without a lock more.
LEMMA LocksKept ==
    ASSUME NEW c \in Clients, LocksOf(c),
           pc[c] \in HasWallet => pc'[c] \in HasWallet,
           pc[c] \in HasWager => pc'[c] \in HasWager,
           \A w \in Wallets : walletLock'[w] = c => walletLock[w] = c,
           \A e \in Exts : wagerLock'[e] = c => wagerLock[e] = c
    PROVE  LocksOf(c)'
BY DEF LocksOf

LEMMA LocksStep ==
    ASSUME TypeInv, LocksHeld, [Next]_vars, NEW c \in Clients
    PROVE  LocksOf(c)'
<1>1. LocksOf(c) /\ c \in Procs /\ c \notin Workers /\ c # None
  BY WageringAssumption DEF LocksHeld, Procs
<1>2. CASE UNCHANGED <<walletLock, wagerLock, pc>>
  BY <1>1, <1>2 DEF LocksOf
<1>3. ASSUME NEW p \in Procs, EndTransaction(p), NEW label, Goto(p, label) PROVE LocksOf(c)'
  <2>1. CASE p = c
    BY <1>1, <1>3, <2>1 DEF LocksOf, EndTransaction
  <2>2. CASE p # c
    <3>1. pc'[c] = pc[c] /\ (\A w \in Wallets : walletLock'[w] = c => walletLock[w] = c)
          /\ (\A e \in Exts : wagerLock'[e] = c => wagerLock[e] = c)
      BY <1>1, <1>3, <2>2 DEF EndTransaction, Goto, TypeInv, TypeOK
    <3>2. QED
      BY <1>1, <3>1, LocksKept
  <2>3. QED
    BY <2>1, <2>2
<1>4. ASSUME NEW p \in Procs, UNCHANGED <<walletLock, wagerLock>>, NEW label, Goto(p, label),
             pc[p] \in HasWallet => label \in HasWallet, pc[p] \in HasWager => label \in HasWager
      PROVE  LocksOf(c)'
  <2>1. pc'[c] = IF p = c THEN label ELSE pc[c]
    BY <1>1, <1>4 DEF Goto, TypeInv, TypeOK
  <2>2. QED
    BY <1>1, <1>4, <2>1 DEF LocksOf
<1>5. ASSUME NEW d \in Clients, NEW answer, ReplyWithoutEffect(d, answer) PROVE LocksOf(c)'
  BY <1>3, <1>5 DEF ReplyWithoutEffect, Procs
<1>6. ASSUME NEW d \in Clients, NEW here, NEW hits, NEW label, Find(d, here, hits, Goto(d, label)),
             here \in HasWallet => label \in HasWallet, here \notin HasWager
      PROVE  LocksOf(c)'
  BY <1>4, <1>5, <1>6 DEF Find, Procs, locks
<1>7. CASE UNCHANGED vars
  BY <1>2, <1>7 DEF vars
<1>8. ASSUME NEW d \in Clients, NEW r \in Requests, Submit(d, r) PROVE LocksOf(c)'
  <2>1. /\ d \in Procs /\ UNCHANGED <<walletLock, wagerLock>> /\ pc[d] = "idle"
        /\ Goto(d, "findKey") \/ Goto(d, "reply")
    BY <1>8 DEF Submit, Procs, locks
  <2>2. QED
    BY <1>4, <2>1 DEF HasWallet, HasWager
<1>9. ASSUME NEW p \in Procs, SettleStep(p) PROVE LocksOf(c)'
  <2>1. UNCHANGED <<walletLock, wagerLock>> /\ pc[p] = "settle"
    BY <1>9, SettleShape, ContinueShape
  <2>2. pc'[c] = IF p = c THEN "commit" ELSE pc[c]
    BY <1>1, <1>9, SettleShape, ContinueShape
  <2>3. QED
    BY <1>1, <2>1, <2>2 DEF LocksOf, HasWallet, HasWager
<1>10. ASSUME NEW p \in Procs, NEW label, LockWallet(p, label),
              label = "insert" \/ p \in Workers
       PROVE  LocksOf(c)'
  <2>1. /\ walletLock' = [walletLock EXCEPT ![Req(p).wallet] = p] /\ UNCHANGED wagerLock
        /\ pc[p] = "lockWallet" /\ pc' = [pc EXCEPT ![p] = label]
    BY <1>10 DEF LockWallet, Goto
  <2>2. CASE p = c
    <3>1. pc'[c] = "insert" /\ pc[c] \notin HasWager
      BY <1>1, <1>10, <2>1, <2>2 DEF HasWager, TypeInv, TypeOK
    <3>2. QED
      BY <1>1, <2>1, <3>1 DEF LocksOf, HasWallet
  <2>3. CASE p # c
    <3>1. pc'[c] = pc[c] /\ \A w \in Wallets : walletLock'[w] = c => walletLock[w] = c
      BY <1>1, <2>1, <2>3 DEF TypeInv, TypeOK
    <3>2. QED
      BY <1>1, <2>1, <3>1 DEF LocksOf
  <2>4. QED
    BY <2>2, <2>3
<1>11. ASSUME NEW d \in Clients, ClientStep(d) PROVE LocksOf(c)'
  <2>1. d \in Procs
    BY DEF Procs
  <2>2. CASE FindByIdempotency(d) \/ FindByBusiness(d) \/ RefindByIdempotency(d)
    BY <1>6, <2>2 DEF FindByIdempotency, FindByBusiness, RefindByIdempotency, HasWallet, HasWager
  <2>3. CASE WalletNotFound(d) \/ RefindByBusiness(d)
    BY <1>5, <2>3 DEF WalletNotFound, RefindByBusiness
  <2>4. CASE LockWallet(d, "insert")
    BY <1>10, <2>1, <2>4
  <2>5. CASE InsertWager(d) \/ ReceiveReply(d)
    BY <1>4, <2>1, <2>5 DEF InsertWager, ReceiveReply, HasWallet, HasWager, locks
  <2>6. CASE MarkPendingReference(d)
    BY <1>9, <2>1, <2>6 DEF SettleStep
  <2>7. QED
    BY <1>11, <2>2, <2>3, <2>4, <2>5, <2>6 DEF ClientStep
<1>12. ASSUME NEW w \in Workers, WorkerStep(w) PROVE LocksOf(c)'
  <2>1. w \in Procs /\ w # c
    BY <1>1 DEF Procs
  <2>2. CASE Claim(w)
    <3>1. /\ UNCHANGED walletLock /\ pc'[c] = pc[c]
          /\ \A e \in Exts : wagerLock'[e] \in {w, wagerLock[e]}
      BY <1>1, <2>1, <2>2 DEF Claim, Goto, TypeInv, TypeOK
    <3>2. QED
      BY <1>1, <2>1, <3>1 DEF LocksOf
  <2>3. CASE LockWallet(w, "resolve")
    BY <1>10, <2>1, <2>3
  <2>4. CASE RetryLater(w) \/ GiveUp(w)
    BY <1>9, <2>1, <2>4 DEF SettleStep
  <2>5. QED
    BY <1>12, <2>2, <2>3, <2>4 DEF WorkerStep
<1>13. ASSUME NEW p \in Procs, TransactionStep(p) PROVE LocksOf(c)'
  <2>1. CASE SkipReference(p) \/ HasSuccessfulReversal(p)
    BY <1>4, <2>1 DEF SkipReference, HasSuccessfulReversal, Conclude, HasWallet, HasWager, locks
  <2>2. CASE ResolveReference(p)
    <3>1. /\ UNCHANGED walletLock /\ pc[p] = "resolve"
          /\ pc' = [pc EXCEPT ![p] = "reversal"] \/ pc' = [pc EXCEPT ![p] = "settle"]
          /\ \A e \in Exts : wagerLock'[e] \in {p, wagerLock[e]}
      BY <2>2 DEF ResolveReference, Conclude, Goto, TypeInv, TypeOK
    <3>2. CASE p = c
      BY <1>1, <3>1, <3>2 DEF LocksOf, HasWallet, HasWager, TypeInv, TypeOK
    <3>3. CASE p # c
      BY <1>1, <3>1, <3>3 DEF LocksOf, TypeInv, TypeOK
    <3>4. QED
      BY <3>2, <3>3
  <2>3. CASE Reject(p) \/ MarkProcessed(p)
    BY <1>9, <2>3 DEF SettleStep
  <2>4. CASE Commit(p)
    BY <1>3, <2>4 DEF Commit
  <2>5. QED
    BY <1>13, <2>1, <2>2, <2>3, <2>4 DEF TransactionStep
<1>14. ASSUME NEW p \in Procs, Abort(p) \/ AbortDeadlockVictim(p) PROVE LocksOf(c)'
  BY <1>3, <1>14 DEF Abort, AbortDeadlockVictim, Rollback
<1>15. ASSUME NEW e \in Exts, MakeDue(e) PROVE LocksOf(c)'
  BY <1>2, <1>15 DEF MakeDue, locks
<1>16. QED
  BY <1>7, <1>8, <1>11, <1>12, <1>13, <1>14, <1>15 DEF Next

LEMMA LocksInductive == Spec => [](TypeInv /\ LocksHeld)
<1>1. Init => LocksHeld
  BY WageringAssumption DEF Init, LocksHeld, LocksOf, Procs
<1>2. TypeInv /\ LocksHeld /\ [Next]_vars => LocksHeld'
  BY LocksStep DEF LocksHeld
<1>3. QED
  BY <1>1, <1>2, OutcomeInductive, PTL DEF Spec

\* Clients among themselves never deadlock: who has a wager row waits for nobody, who
\* has inserted waits for such a client at most, who has a wallet for one that has
\* inserted, so no set of clients can wait in a circle.
THEOREM NoDeadlock == Spec => []ClientsNeverDeadlock
<1>1. TypeInv /\ LocksHeld => ClientsNeverDeadlock
  <2> SUFFICES ASSUME TypeInv, LocksHeld, NEW S \in SUBSET Clients, Deadlocked(S)
               PROVE  FALSE
    BY DEF ClientsNeverDeadlock
  <2>1. S # {} /\ \A p \in S : p \in Clients /\ p \in Procs /\ WaitsFor(p) \cap S # {}
    BY DEF Deadlocked, Procs
  <2>2. \A p \in S : pc[p] \in {"lockWallet", "insert", "resolve"}
    BY <2>1 DEF WaitsFor
  <2>3. ASSUME NEW p \in S, pc[p] = "resolve" PROVE FALSE
    <3>1. PICK q \in S : q \in WaitsFor(p)
      BY <2>1
    <3>2. q = wagerLock[Req(p).ref] /\ NeedsReference(Req(p))
      BY <2>3, <3>1 DEF WaitsFor
    <3>3. record[p] \in Rows
      BY <2>1, <2>3 DEF TypeInv, TypeOK, ControlInv
    <3>4. Req(p).ref \in Exts
      BY <3>2, <3>3, RequestType DEF NeedsReference, Req, Rows
    <3>5. pc[q] \in HasWager
      BY <2>1, <3>1, <3>2, <3>4 DEF LocksHeld, LocksOf
    <3>6. QED
      BY <2>2, <3>5 DEF HasWager
  <2>4. ASSUME NEW p \in S, pc[p] = "insert" PROVE FALSE
    <3>1. PICK q \in S : q \in InsertConflicts(p)
      BY <2>1, <2>4 DEF WaitsFor
    <3>2. Inserting(q)
      BY <3>1 DEF InsertConflicts
    <3>3. QED
      BY <2>2, <2>3, <3>2 DEF Inserting
  <2>5. ASSUME NEW p \in S, pc[p] = "lockWallet" PROVE FALSE
    <3>1. PICK q \in S : q \in WaitsFor(p)
      BY <2>1
    <3>2. q = walletLock[Req(p).wallet] /\ Req(p).wallet \in Wallets
      BY <2>5, <3>1 DEF WaitsFor
    <3>3. pc[q] \in HasWallet
      BY <2>1, <3>1, <3>2 DEF LocksHeld, LocksOf
    <3>4. QED
      BY <2>2, <2>3, <2>4, <3>3 DEF HasWallet
  <2>6. QED
    BY <2>1, <2>2, <2>3, <2>4, <2>5
<1>2. QED
  BY <1>1, LocksInductive, PTL

-----------------------------------------------------------------------------
(* Wagering implements Settlement: every commit settles requests one after *)
(* the other, and nothing else changes what is committed.                  *)
(*                                                                         *)
(* The inductive invariant follows the attempts of an open transaction.    *)
(* There is a chain of works, from the one without any write to what the   *)
(* transaction has written by now, in which each attempt leads from one    *)
(* to the next on the state that the committed tables and the work so far  *)
(* show together (Seen).  The chain outlives the commits of others: the    *)
(* row locks of the wallets and of the references that were found keep     *)
(* everything an attempt depends on as it was.                             *)

(* What an attempt reads.                                                  *)

\* The row of e as a transaction that has written these rows reads it.
RowSeen(rows, e) == IF rows[e] # None THEN rows[e] ELSE wagers[e]

\* The request looks for a reference in the table.
LooksUp(r) == NeedsReference(r) /\ r.ref # r.ext

Undone(rows, r) ==
    \E e \in Exts : LET row == RowSeen(rows, e) IN
        /\ row # None
        /\ row.status = "PROCESSED"
        /\ row.req.kind = r.kind
        /\ row.req.ref = r.ref

\* The look for the reference gave this, and a row that was found is p's.
Looked(p, rows, r, look) ==
    LET row == RowSeen(rows, r.ref) IN
    /\ look # "found" => LooksUp(r)
    /\ LooksUp(r) => IF look = "found" THEN row # None
                     ELSE row # None => row.req.wallet # r.wallet
    /\ LooksUp(r) /\ look = "found" /\ PlayerOf[r.wallet] = r.player =>
         rows[r.ref] # None \/ wagerLock[r.ref] = p

VerdictOf(rows, r, look) ==
    LET found == ReferenceVerdict(r, RowSeen(rows, r.ref)) IN
    IF PlayerOf[r.wallet] # r.player THEN "WALLET_MISMATCH"
    ELSE IF ~NeedsReference(r) THEN "resolved"
    ELSE IF r.ref = r.ext THEN "REFERENCE_NOT_PROCESSED"
    ELSE IF look # "found" THEN "REFERENCE_PENDING"
    ELSE IF found = "resolved" /\ Undone(rows, r) THEN "DUPLICATE_REVERSAL"
    ELSE found

DirOf(rows, r) ==
    Direction(r.kind, IF NeedsReference(r) THEN RowSeen(rows, r.ref).req.kind ELSE None)

\* What p knows about the reference of its record: the verdict it is about to write
\* is that of an attempt.
Ready(p) ==
    /\ pc[p] = "reversal" => /\ PlayerOf[Req(p).wallet] = Req(p).player
                             /\ LooksUp(Req(p))
                             /\ Looked(p, workWagers[p], Req(p), "found")
    /\ pc[p] = "settle" =>
         \E look \in {"found", "missing"} :
             /\ Looked(p, workWagers[p], Req(p), look)
             /\ verdict[p] = VerdictOf(workWagers[p], Req(p), look)

\* A waiting row has no reference yet.
WaitingPlain ==
    /\ \A e \in Exts : HasStatus(wagers[e], "PENDING_REFERENCE") => wagers[e].ref = None
    /\ \A p \in Procs, e \in Exts :
         HasStatus(workWagers[p][e], "PENDING_REFERENCE") => workWagers[p][e].ref = None

-----------------------------------------------------------------------------
(* What an attempt writes.                                                 *)

Attempts == [req : Requests, look : {"found", "missing", "last"}]

\* The attempt a with verdict v writes this row, wallet and events, where it finds
\* the wallet as in copy.
Writes(a, v, dir, copy, first, row, wallet, types) ==
    LET r == a.req IN
    /\ row.req = r
    /\ row.balance = wallet.balance
    /\ \/ /\ v = "REFERENCE_PENDING" /\ r.kind \in Reversals /\ a.look = "last"
          /\ row.status = "REJECTED" /\ row.code = "REFERENCE_NOT_FOUND" /\ row.ref = None
          /\ wallet = copy /\ types = {"Rejected"}
       \/ /\ v = "REFERENCE_PENDING" /\ r.kind \in Reversals /\ a.look = "missing"
          /\ row.status = "PENDING_REFERENCE" /\ row.code = v /\ row.ref = None
          /\ wallet = copy /\ types = IF first THEN {"PendingReference"} ELSE {}
       \/ /\ v # "resolved" /\ (v = "REFERENCE_PENDING" => r.kind \notin Reversals)
          /\ row.status = "REJECTED" /\ row.code = v /\ row.ref = None
          /\ wallet = copy /\ types = {"Rejected"}
       \/ /\ v = "resolved" /\ Financial(r.kind) /\ ~Accepts(copy.balance, dir, r.amount)
          /\ row.status = "REJECTED" /\ row.code = RefusalCode(r.kind)
          /\ row.ref = IF NeedsReference(r) THEN r.ref ELSE None
          /\ wallet = copy /\ types = {"Rejected"}
       \/ /\ v = "resolved" /\ ~Financial(r.kind)
          /\ row.status = "PROCESSED" /\ row.code = None
          /\ row.ref = IF NeedsReference(r) THEN r.ref ELSE None
          /\ wallet = copy /\ types = {"Processed"}
       \/ /\ v = "resolved" /\ Financial(r.kind) /\ Accepts(copy.balance, dir, r.amount)
          /\ row.status = "PROCESSED" /\ row.code = None
          /\ row.ref = IF NeedsReference(r) THEN r.ref ELSE None
          /\ wallet = Move(copy, r.ext, dir, r.amount)
          /\ types = {"Processed", "BalanceChanged"}

-----------------------------------------------------------------------------
(* The chain of works.                                                     *)

\* What a transaction has written.
WorkSpace == [ws : [Wallets -> WalletSpace \cup {None}], rows : [Exts -> Rows \cup {None}],
              events : SUBSET (EventTypes \X Exts)]

Work(p) == [ws |-> workWallets[p], rows |-> workWagers[p], events |-> workEvents[p]]

\* Nothing yet, but for the copies of the wallets that p has locked.
NoWork(p) ==
    [ws |-> [w \in Wallets |-> IF workWallets[p][w] # None THEN Copy(w) ELSE None],
     rows |-> [e \in Exts |-> None], events |-> {}]

\* g is a part of what p has written.
Part(p, g) ==
    /\ \A w \in Wallets : g.ws[w] # None <=> workWallets[p][w] # None
    /\ \A e \in Exts : g.rows[e] # None => g.rows[e] = workWagers[p][e]

\* The attempt a leads p from g to h.
Link(p, g, h, a) ==
    LET r == a.req IN
    /\ r.wallet \in Wallets /\ g.ws[r.wallet] # None
    /\ g.rows[r.ext] = None
    /\ \A t \in EventTypes : <<t, r.ext>> \notin g.events
    /\ Looked(p, g.rows, r, a.look)
    /\ \E row \in Rows, wallet \in WalletSpace, types \in SUBSET EventTypes :
         /\ Writes(a, VerdictOf(g.rows, r, a.look), DirOf(g.rows, r), g.ws[r.wallet],
                   p \in Clients, row, wallet, types)
         /\ h.ws = [g.ws EXCEPT ![r.wallet] = wallet]
         /\ h.rows = [g.rows EXCEPT ![r.ext] = row]
         /\ h.events = g.events \cup (types \X {r.ext})

\* The attempts a process has made, and those it may still make.
Count(p, n) ==
    /\ p \in Clients => n = IF pc[p] = "commit" THEN 1 ELSE 0
    /\ p \in Workers =>
         /\ n + Len(batch[p]) <= BatchSize
         /\ Working(p) => n + Len(batch[p]) < BatchSize
         /\ pc[p] = "idle" => n = 0
         /\ pc[p] = "commit" => n # 0

\* The attempts that p has made are a[1], ..., a[n], and g[i] is its work after i of
\* them.
Chain(p, n, a, g) ==
    /\ a \in [1..n -> Attempts] /\ g \in [0..n -> WorkSpace]
    /\ g[0] = NoWork(p) /\ g[n] = Work(p)
    /\ \A i \in 0..n : Part(p, g[i])
    /\ \A i \in 1..n : Link(p, g[i - 1], g[i], a[i])
    /\ \A i \in 1..n : /\ workWagers[p][a[i].req.ext] # None
                       /\ workWagers[p][a[i].req.ext].req = a[i].req
                       /\ a[i].look = "last" => p \in Workers
    /\ \A i, j \in 1..n : a[i].req = a[j].req => i = j

Chained(p) == \E n \in Nat : Count(p, n) /\ \E a, g : Chain(p, n, a, g)

SerialInv == WaitingPlain /\ \A p \in Procs : Ready(p) /\ Chained(p)

-----------------------------------------------------------------------------
(* What one process does in a step.                                        *)

SameWork(p) ==
    workWallets'[p] = workWallets[p] /\ workWagers'[p] = workWagers[p] /\ workEvents'[p] = workEvents[p]

KeepsLocks(p) == \A e \in Exts : wagerLock[e] = p => wagerLock'[e] = p

Stands(p) ==
    /\ pc'[p] = pc[p] /\ record'[p] = record[p] /\ verdict'[p] = verdict[p] /\ batch'[p] = batch[p]
    /\ SameWork(p)

Claims(p) ==
    /\ p \in Workers /\ pc[p] = "idle" /\ pc'[p] = "lockWallet"
    /\ Len(batch'[p]) < BatchSize
    /\ SameWork(p)

Looks(p) ==
    /\ SkipReference(p) \/ ResolveReference(p) \/ HasSuccessfulReversal(p)
    /\ record'[p] = record[p] /\ batch'[p] = batch[p]
    /\ SameWork(p)

Searches(p) ==
    /\ p \in Clients /\ pc[p] # "commit" /\ pc'[p] \notin {"commit", "reversal", "settle"}
    /\ SameWork(p)

\* p ends its transaction, writes an outcome, takes the lock of its wallet, looks for
\* its reference, searches or claims rows, or another process takes the step.
Steps(p) ==
    \/ EndTransaction(p) /\ pc'[p] \in {"idle", "reply"}
    \/ KeepsLocks(p) /\ ~Commit(p) /\ SettleStep(p)
    \/ KeepsLocks(p) /\ ~Commit(p) /\ \E next \in {"insert", "resolve"} : LockWallet(p, next)
    \/ KeepsLocks(p) /\ ~Commit(p) /\ (Stands(p) \/ Claims(p) \/ Looks(p) \/ Searches(p))

LEMMA StandsKept ==
    ASSUME TypeInv, NEW p \in Procs, NEW q \in Procs, p # q,
           \/ EndTransaction(q) /\ \E label : Goto(q, label)
           \/ SettleStep(q)
           \/ \E next : LockWallet(q, next)
           \/ /\ SkipReference(q) \/ ResolveReference(q) \/ HasSuccessfulReversal(q)
           \/ q \in Workers /\ Claim(q)
    PROVE  Steps(p)
<1>0. p # None /\ q # None
  BY WageringAssumption
<1>1. CASE EndTransaction(q) /\ \E label : Goto(q, label)
  <2>1. Stands(p) /\ KeepsLocks(p)
    BY <1>1 DEF Stands, SameWork, KeepsLocks, EndTransaction, Goto, TypeInv, TypeOK
  <2>2. ~Commit(p)
    <3>1. SUFFICES ASSUME Commit(p) PROVE FALSE
      OBVIOUS
    <3>2. pc[p] = "commit" /\ pc'[p] \in {"reply", "idle"}
      BY <3>1 DEF Commit, Goto, TypeInv, TypeOK
    <3>3. QED
      BY <2>1, <3>2 DEF Stands
  <2>3. QED
    BY <2>1, <2>2 DEF Steps
<1>2. ASSUME Stands(p) PROVE ~Commit(p)
  <2>1. SUFFICES ASSUME Commit(p) PROVE FALSE
    OBVIOUS
  <2>2. pc[p] = "commit" /\ pc'[p] \in {"reply", "idle"}
    BY <2>1 DEF Commit, Goto, TypeInv, TypeOK
  <2>3. QED
    BY <1>2, <2>2 DEF Stands
<1>3. CASE SettleStep(q)
  <2>1. /\ Continue(q)
        /\ \E row, wallet, events : Write(q, row, wallet, events)
    BY <1>3, SettleShape
  <2>2. SameWork(p)
    BY <2>1 DEF SameWork, Write, TypeInv, TypeOK
  <2>3. Stands(p) /\ KeepsLocks(p)
    BY <2>1, <2>2, ContinueShape DEF Stands, KeepsLocks, TypeInv, TypeOK
  <2>4. QED
    BY <1>2, <2>3 DEF Steps
<1>4. CASE \E next : LockWallet(q, next)
  <2>1. Stands(p) /\ KeepsLocks(p)
    BY <1>4 DEF Stands, SameWork, KeepsLocks, LockWallet, Goto, TypeInv, TypeOK
  <2>2. QED
    BY <1>2, <2>1 DEF Steps
<1>5. CASE SkipReference(q) \/ ResolveReference(q) \/ HasSuccessfulReversal(q)
  <2>1. UNCHANGED <<record, batch, workWallets, workWagers, workEvents>>
    BY <1>5 DEF SkipReference, ResolveReference, HasSuccessfulReversal, work
  <2>2. pc'[p] = pc[p] /\ verdict'[p] = verdict[p]
    BY <1>5 DEF SkipReference, ResolveReference, HasSuccessfulReversal, Conclude, Goto, TypeInv, TypeOK
  <2>3. KeepsLocks(p)
    BY <1>0, <1>5 DEF SkipReference, ResolveReference, HasSuccessfulReversal, KeepsLocks, locks,
                      TypeInv, TypeOK
  <2>4. QED
    BY <1>2, <2>1, <2>2, <2>3 DEF Steps, Stands, SameWork
<1>6. CASE q \in Workers /\ Claim(q)
  <2>1. PICK chosen \in SUBSET Claimable :
          /\ wagerLock' = [e \in Exts |-> IF e \in chosen THEN q ELSE wagerLock[e]]
          /\ \E order : /\ batch' = [batch EXCEPT ![q] = Tail(order)]
                        /\ record' = [record EXCEPT ![q] = wagers[Head(order)]]
    BY <1>6 DEF Claim
  <2>2. KeepsLocks(p)
    BY <1>0, <2>1 DEF KeepsLocks, Claimable
  <2>3. Stands(p)
    BY <1>6, <2>1 DEF Claim, Stands, SameWork, Goto, work, TypeInv, TypeOK
  <2>4. QED
    BY <1>2, <2>2, <2>3 DEF Steps
<1>7. QED
  BY <1>1, <1>3, <1>4, <1>5, <1>6


LEMMA StepOf ==
    ASSUME TypeInv, [Next]_vars, NEW p \in Procs
    PROVE  Steps(p)
<1>0. p # None
  BY WageringAssumption DEF Procs
<1>1. ASSUME pc'[p] = pc[p], UNCHANGED <<record, verdict, batch, work, wagerLock>>
      PROVE  Steps(p)
  <2>1. Stands(p) /\ KeepsLocks(p)
    BY <1>1 DEF Stands, SameWork, KeepsLocks, work
  <2>2. ~Commit(p)
    BY <1>1 DEF Commit, Goto, TypeInv, TypeOK
  <2>3. QED
    BY <2>1, <2>2 DEF Steps
<1>2. ASSUME NEW q \in Procs, NEW label \in {"idle", "reply"}, EndTransaction(q), Goto(q, label)
      PROVE  Steps(p)
  <2>1. CASE p = q
    BY <1>2, <2>1 DEF Steps, Goto, TypeInv, TypeOK
  <2>2. QED
    BY <1>2, <2>1, StandsKept
<1>3. ASSUME NEW q \in Clients, NEW answer, ReplyWithoutEffect(q, answer) PROVE Steps(p)
  BY <1>2, <1>3 DEF ReplyWithoutEffect, Procs
<1>4. ASSUME NEW q \in Clients, NEW label \in Labels \ {"commit", "reversal", "settle"}, Goto(q, label),
             UNCHANGED <<work, batch, wagerLock, verdict>>,
             \A s \in Procs : s # q => record'[s] = record[s], pc[q] # "commit"
      PROVE  Steps(p)
  <2>1. CASE p = q
    <3>1. pc'[p] = label /\ SameWork(p) /\ KeepsLocks(p)
      BY <1>4, <2>1 DEF Goto, SameWork, KeepsLocks, work, TypeInv, TypeOK
    <3>2. ~Commit(p)
      BY <1>4, <2>1 DEF Commit
    <3>3. QED
      BY <1>4, <2>1, <3>1, <3>2 DEF Steps, Searches
  <2>2. CASE p # q
    <3>1. pc'[p] = pc[p] /\ record'[p] = record[p]
      BY <1>4, <2>2 DEF Goto, TypeInv, TypeOK
    <3>2. Stands(p) /\ KeepsLocks(p)
      BY <1>4, <3>1 DEF Stands, SameWork, KeepsLocks, work
    <3>3. ~Commit(p)
      BY <3>1 DEF Commit, Goto, TypeInv, TypeOK
    <3>4. QED
      BY <3>2, <3>3 DEF Steps
  <2>3. QED
    BY <2>1, <2>2
<1>5. ASSUME NEW q \in Clients, NEW here \in Labels \ {"commit"}, NEW hits,
             NEW label \in Labels \ {"commit", "reversal", "settle"}, Find(q, here, hits, Goto(q, label))
      PROVE  Steps(p)
  <2>1. CASE \E e \in hits : ReplyWithoutEffect(q, ReplayOrConflict(Req(q), wagers[e]))
    BY <1>3, <2>1
  <2>2. CASE Goto(q, label) /\ UNCHANGED <<db, locks, record, batch, verdict, work, reply>>
    BY <1>4, <1>5, <2>2 DEF Find, locks
  <2>3. QED
    BY <1>5, <2>1, <2>2 DEF Find
<1>6. ASSUME NEW q \in Procs, SettleStep(q) PROVE Steps(p)
  <2>1. CASE p = q
    <3>1. pc[p] = "settle" /\ UNCHANGED wagerLock
      BY <1>6, <2>1, SettleShape, ContinueShape
    <3>2. QED
      BY <1>6, <2>1, <3>1 DEF Steps, KeepsLocks, Commit
  <2>2. QED
    BY <1>6, <2>1, StandsKept
<1>7. ASSUME NEW q \in Procs, NEW next \in {"insert", "resolve"}, LockWallet(q, next) PROVE Steps(p)
  <2>1. CASE p = q
    <3>1. pc[p] = "lockWallet" /\ UNCHANGED wagerLock
      BY <1>7, <2>1 DEF LockWallet
    <3>2. QED
      BY <1>7, <2>1, <3>1 DEF Steps, KeepsLocks, Commit
  <2>2. QED
    BY <1>7, <2>1, StandsKept
<1>8. ASSUME NEW q \in Procs, SkipReference(q) \/ ResolveReference(q) \/ HasSuccessfulReversal(q)
      PROVE  Steps(p)
  <2>1. CASE p = q
    <3>1. UNCHANGED <<record, batch, work>> /\ pc[p] # "commit"
      BY <1>8, <2>1 DEF SkipReference, ResolveReference, HasSuccessfulReversal
    <3>2. KeepsLocks(p)
      BY <1>8, <2>1 DEF SkipReference, ResolveReference, HasSuccessfulReversal, KeepsLocks, locks,
                        TypeInv, TypeOK
    <3>3. Looks(p)
      BY <1>8, <2>1, <3>1 DEF Looks, SameWork, work
    <3>4. QED
      BY <3>1, <3>2, <3>3 DEF Steps, Commit
  <2>2. QED
    BY <1>8, <2>1, StandsKept
<1>9. ASSUME NEW q \in Workers, Claim(q) PROVE Steps(p)
  <2>0. q \in Procs
    BY DEF Procs
  <2>1. CASE p = q
    <3>1. PICK chosen \in SUBSET Claimable :
            /\ chosen # {} /\ Cardinality(chosen) <= BatchSize
            /\ wagerLock' = [e \in Exts |-> IF e \in chosen THEN q ELSE wagerLock[e]]
            /\ \E order \in Orderings(chosen) : batch' = [batch EXCEPT ![q] = Tail(order)]
      BY <1>9 DEF Claim
    <3>2. PICK order \in Orderings(chosen) : batch' = [batch EXCEPT ![q] = Tail(order)]
      BY <3>1
    <3>3. IsFiniteSet(chosen)
      BY WageringAssumption, FS_Subset DEF Claimable
    <3>4. Cardinality(chosen) \in Nat \ {0}
      BY <3>1, <3>3, FS_CardinalityType, FS_EmptySet
    <3>5. order \in Seq(chosen) /\ Len(order) = Cardinality(chosen)
      BY <3>4 DEF Orderings
    <3>6. Len(Tail(order)) < BatchSize
      BY <3>1, <3>4, <3>5, WageringAssumption
    <3>7. Len(batch'[p]) < BatchSize
      BY <2>0, <2>1, <3>2, <3>6 DEF TypeInv, TypeOK
    <3>8. KeepsLocks(p)
      BY <2>1, <3>1 DEF KeepsLocks
    <3>9. pc[p] = "idle" /\ pc'[p] = "lockWallet" /\ SameWork(p)
      BY <1>9, <2>0, <2>1 DEF Claim, Goto, SameWork, work, TypeInv, TypeOK
    <3>10. QED
      BY <1>9, <2>1, <3>7, <3>8, <3>9 DEF Steps, Claims, Commit
  <2>2. QED
    BY <1>9, <2>0, <2>1, StandsKept
<1>10. CASE UNCHANGED vars
  BY <1>1, <1>10 DEF vars, work
<1>11. ASSUME NEW c \in Clients, NEW r \in Requests, Submit(c, r) PROVE Steps(p)
  <2>1. \A s \in Procs : s # c => record'[s] = record[s]
    BY <1>11 DEF Submit, TypeInv, TypeOK
  <2>2. pc[c] = "idle" /\ UNCHANGED <<work, batch, wagerLock, verdict>>
    BY <1>11 DEF Submit, locks
  <2>3. Goto(c, "findKey") \/ Goto(c, "reply")
    BY <1>11 DEF Submit
  <2>4. QED
    BY <1>4, <2>1, <2>2, <2>3 DEF Labels
<1>12. ASSUME NEW c \in Clients, ClientStep(c) PROVE Steps(p)
  <2>1. c \in Procs
    BY DEF Procs
  <2>2. CASE FindByIdempotency(c)
    BY <1>5, <2>2 DEF FindByIdempotency, Labels
  <2>3. CASE FindByBusiness(c)
    BY <1>5, <2>3 DEF FindByBusiness, Labels
  <2>4. CASE RefindByIdempotency(c)
    BY <1>5, <2>4 DEF RefindByIdempotency, Labels
  <2>5. CASE WalletNotFound(c) \/ RefindByBusiness(c)
    BY <1>3, <2>5 DEF WalletNotFound, RefindByBusiness
  <2>6. CASE LockWallet(c, "insert")
    BY <1>7, <2>1, <2>6
  <2>7. CASE InsertWager(c)
    <3>1. pc[c] = "insert" /\ UNCHANGED <<work, batch, wagerLock, verdict, record>>
      BY <2>7 DEF InsertWager, locks
    <3>2. Goto(c, "resolve") \/ Goto(c, "refindKey")
      BY <2>7 DEF InsertWager
    <3>3. QED
      BY <1>4, <3>1, <3>2 DEF Labels
  <2>8. CASE ReceiveReply(c)
    <3>1. pc[c] = "reply" /\ UNCHANGED <<work, batch, wagerLock, verdict, record>> /\ Goto(c, "idle")
      BY <2>8 DEF ReceiveReply, locks
    <3>2. QED
      BY <1>4, <3>1 DEF Labels
  <2>9. CASE MarkPendingReference(c)
    BY <1>6, <2>1, <2>9 DEF SettleStep
  <2>10. QED
    BY <1>12, <2>2, <2>3, <2>4, <2>5, <2>6, <2>7, <2>8, <2>9 DEF ClientStep
<1>13. ASSUME NEW w \in Workers, WorkerStep(w) PROVE Steps(p)
  <2>1. w \in Procs
    BY DEF Procs
  <2>2. CASE Claim(w)
    BY <1>9, <2>2
  <2>3. CASE LockWallet(w, "resolve")
    BY <1>7, <2>1, <2>3
  <2>4. CASE RetryLater(w) \/ GiveUp(w)
    BY <1>6, <2>1, <2>4 DEF SettleStep
  <2>5. QED
    BY <1>13, <2>2, <2>3, <2>4 DEF WorkerStep
<1>14. ASSUME NEW q \in Procs, TransactionStep(q) PROVE Steps(p)
  <2>1. CASE Commit(q)
    BY <1>2, <2>1 DEF Commit
  <2>2. CASE Reject(q) \/ MarkProcessed(q)
    BY <1>6, <2>2 DEF SettleStep
  <2>3. QED
    BY <1>8, <1>14, <2>1, <2>2 DEF TransactionStep
<1>15. ASSUME NEW q \in Procs, Abort(q) \/ AbortDeadlockVictim(q) PROVE Steps(p)
  BY <1>2, <1>15 DEF Abort, AbortDeadlockVictim, Rollback
<1>16. ASSUME NEW e \in Exts, MakeDue(e) PROVE Steps(p)
  BY <1>1, <1>16 DEF MakeDue, locks
<1>17. QED
  BY <1>10, <1>11, <1>12, <1>13, <1>14, <1>15, <1>16 DEF Next


-----------------------------------------------------------------------------
(* What p relies on stays: the rows it has locked, the wallets it has      *)
(* locked and everything that refers to rows of these wallets.             *)

\* A row that changes is committed by its writer, or becomes due.
LEMMA RowChanges ==
    ASSUME TypeInv, [Next]_vars, NEW e \in Exts
    PROVE  \/ wagers'[e] = wagers[e]
           \/ \E q \in Procs : Commit(q) /\ workWagers[q][e] # None /\ wagers'[e] = workWagers[q][e]
           \/ /\ wagers[e] # None /\ wagers[e].status = "PENDING_REFERENCE"
              /\ wagers'[e] = [wagers[e] EXCEPT !.due = TRUE]
              /\ wagers'[e] \in Rows /\ wagers'[e] # None /\ OutcomeOf(wagers'[e]) = OutcomeOf(wagers[e])
<1> DEFINE Kinds == \/ wagers'[e] = wagers[e]
                    \/ \E q \in Procs : Commit(q) /\ workWagers[q][e] # None /\ wagers'[e] = workWagers[q][e]
                    \/ /\ wagers[e] # None /\ wagers[e].status = "PENDING_REFERENCE"
                       /\ wagers'[e] = [wagers[e] EXCEPT !.due = TRUE]
                       /\ wagers'[e] \in Rows /\ wagers'[e] # None
                       /\ OutcomeOf(wagers'[e]) = OutcomeOf(wagers[e])
<1> SUFFICES Kinds
  OBVIOUS
<1>1. CASE UNCHANGED wagers
  BY <1>1
<1>2. ASSUME NEW p \in Procs, Commit(p) PROVE Kinds
  <2>1. wagers'[e] = IF workWagers[p][e] # None THEN workWagers[p][e] ELSE wagers[e]
    BY <1>2 DEF Commit, View
  <2>2. QED
    BY <1>2, <2>1
<1>3. ASSUME NEW f \in Exts, MakeDue(f) PROVE Kinds
  <2>1. /\ wagers[f] \in Rows /\ wagers[f].status = "PENDING_REFERENCE" /\ wagers[f] # None
        /\ wagers' = [wagers EXCEPT ![f].due = TRUE]
    BY <1>3 DEF MakeDue, TypeInv, TypeOK
  <2>2. [wagers[f] EXCEPT !.due = TRUE] \in Rows
    BY <2>1, RowDue
  <2>3. CASE e = f
    <3>1. wagers'[e] = [wagers[e] EXCEPT !.due = TRUE]
      BY <2>1, <2>3 DEF TypeInv, TypeOK
    <3>2. wagers'[e] \in Rows /\ wagers'[e] # None
      BY <2>2, <2>3, <3>1, NoneAssumption
    <3>3. wagers[e] \in Rows
      BY <2>1, <2>3
    <3>4. OutcomeOf(wagers'[e]) = OutcomeOf(wagers[e])
      BY <2>1, <2>3, <3>1, <3>2, <3>3 DEF OutcomeOf, Rows
    <3>5. QED
      BY <2>1, <2>3, <3>1, <3>2, <3>4
  <2>4. CASE e # f
    BY <2>1, <2>4 DEF TypeInv, TypeOK
  <2>5. QED
    BY <2>3, <2>4
<1>4. ASSUME NEW p \in Procs, SettleStep(p) PROVE UNCHANGED wagers
  BY <1>4, SettleShape, ContinueShape
<1>5. QED
  BY <1>1, <1>2, <1>3, <1>4, StepKinds DEF db, LockWallet

\* Who has a row's lock alone may change its status.
LEMMA LockedRowStays ==
    ASSUME TypeInv, RowInv, [Next]_vars, NEW p \in Procs, ~Commit(p), NEW e \in Exts,
           wagerLock[e] = p, wagers[e] # None
    PROVE  wagers'[e] # None /\ wagers'[e].req = wagers[e].req /\ wagers'[e].status = wagers[e].status
<1>1. ASSUME NEW q \in Procs, Commit(q), workWagers[q][e] # None PROVE FALSE
  <2>1. q \in Workers
    BY <1>1, WrittenRows
  <2>2. wagerLock[e] = q
    BY <1>1, <2>1 DEF RowInv, WritesOwned, Claimed
  <2>3. QED
    BY <1>1, <2>2
<1>2. wagers'[e] # None /\ wagers'[e].req = wagers[e].req
  BY RowsStay DEF RowKept
<1>3. CASE wagers'[e] = [wagers[e] EXCEPT !.due = TRUE]
  <2>1. wagers[e] \in Rows
    BY DEF TypeInv, TypeOK
  <2>2. QED
    BY <1>2, <1>3, <2>1 DEF Rows
<1>4. QED
  BY <1>1, <1>2, <1>3, RowChanges

\* No row of a wallet that p has locked appears.
LEMMA NewRowElsewhere ==
    ASSUME TypeInv, LedgerInv, ReversalInv, [Next]_vars, NEW p \in Procs, ~Commit(p),
           NEW w \in Wallets, workWallets[p][w] # None,
           NEW e \in Exts, wagers[e] = None, wagers'[e] # None
    PROVE  wagers'[e].req.wallet # w
<1>1. PICK q \in Procs : Commit(q) /\ workWagers[q][e] # None /\ wagers'[e] = workWagers[q][e]
  BY RowChanges
<1>2. workWallets[q][workWagers[q][e].req.wallet] # None
  BY <1>1 DEF ReversalInv, WorkReferences, WorkRefer
<1>3. q # p
  BY <1>1
<1>4. QED
  BY <1>1, <1>2, <1>3, OneCopy

\* The wallets that p has locked stay as they are.
LEMMA LockedWalletStays ==
    ASSUME TypeInv, LedgerInv, [Next]_vars, NEW p \in Procs, ~Commit(p),
           NEW w \in Wallets, workWallets[p][w] # None
    PROVE  wallets'[w] = wallets[w]
<1>1. ASSUME NEW q \in Procs, Commit(q) PROVE wallets'[w] = wallets[w]
  <2>1. workWallets[q][w] = None
    BY <1>1, OneCopy
  <2>2. QED
    BY <1>1, <2>1 DEF Commit
<1>2. ASSUME NEW q \in Procs, SettleStep(q) PROVE UNCHANGED wallets
  BY <1>2, SettleShape, ContinueShape
<1>3. QED
  BY <1>1, <1>2, StepKinds DEF db, LockWallet, MakeDue

\* A row as p has seen it, part of its own writes put aside.
LEMMA SeenStays ==
    ASSUME TypeInv, RowInv, [Next]_vars, NEW rows, NEW e \in Exts, RowSeen(rows, e) # None
    PROVE  /\ RowSeen(rows, e)' # None
           /\ RowSeen(rows, e)'.req = RowSeen(rows, e).req
           /\ RowSeen(rows, e).status # "PENDING_REFERENCE" => RowSeen(rows, e)' = RowSeen(rows, e)
<1>1. CASE rows[e] # None
  BY <1>1 DEF RowSeen
<1>2. CASE rows[e] = None
  BY <1>2, RowsStay DEF RowSeen, RowKept
<1>3. QED
  BY <1>1, <1>2

\* p sees with all of its writes what it has seen with some of them.
LEMMA SeenByAll ==
    ASSUME TypeInv, RowInv, NEW p \in Procs, NEW rows,
           \A e \in Exts : rows[e] # None => rows[e] = workWagers[p][e],
           NEW e \in Exts, RowSeen(rows, e) # None
    PROVE  View(p, e) # None /\ View(p, e).req = RowSeen(rows, e).req
<1>1. CASE rows[e] # None \/ workWagers[p][e] = None
  BY <1>1 DEF RowSeen, View
<1>2. CASE rows[e] = None /\ workWagers[p][e] # None
  BY <1>2, WrittenRows DEF RowSeen, View
<1>3. QED
  BY <1>1, <1>2

\* Whether a good reference is undone in the eyes of p does not change while p has
\* its wallet.
LEMMA UndoneStays ==
    ASSUME TypeInv, RowInv, LedgerInv, ReversalInv, [Next]_vars, NEW p \in Procs, ~Commit(p),
           NEW rows, \A e \in Exts : rows[e] # None => rows[e] = workWagers[p][e],
           NEW r \in Requests, LooksUp(r), r.wallet \in Wallets, workWallets[p][r.wallet] # None,
           RowSeen(rows, r.ref) # None, ReferenceVerdict(r, RowSeen(rows, r.ref)) = "resolved"
    PROVE  Undone(rows, r)' <=> Undone(rows, r)
<1>1. ASSUME Undone(rows, r) PROVE Undone(rows, r)'
  <2>1. PICK e \in Exts : LET row == RowSeen(rows, e) IN
          row # None /\ row.status = "PROCESSED" /\ row.req.kind = r.kind /\ row.req.ref = r.ref
    BY <1>1 DEF Undone
  <2>2. RowSeen(rows, e)' = RowSeen(rows, e)
    BY <2>1, SeenStays
  <2>3. QED
    BY <2>1, <2>2 DEF Undone
<1>2. ASSUME ~Undone(rows, r), Undone(rows, r)' PROVE FALSE
  <2>1. PICK e \in Exts : LET row == RowSeen(rows, e)' IN
          row # None /\ row.status = "PROCESSED" /\ row.req.kind = r.kind /\ row.req.ref = r.ref
    BY <1>2 DEF Undone
  <2>2. RowSeen(rows, e)' # RowSeen(rows, e)
    BY <1>2, <2>1 DEF Undone
  <2>3. rows[e] = None /\ wagers'[e] # wagers[e] /\ RowSeen(rows, e)' = wagers'[e]
    BY <2>2 DEF RowSeen
  <2>4. ~ (wagers[e] # None /\ wagers[e].status = "PENDING_REFERENCE"
           /\ wagers'[e] = [wagers[e] EXCEPT !.due = TRUE])
    <3>1. wagers[e] # None => wagers[e] \in Rows
      BY DEF TypeInv, TypeOK
    <3>2. QED
      BY <2>1, <2>3, <3>1 DEF Rows
  <2>5. PICK q \in Procs : Commit(q) /\ workWagers[q][e] # None /\ wagers'[e] = workWagers[q][e]
    BY <2>3, <2>4, RowChanges
  <2>6. Refers(workWagers[q][e]) /\ workWagers[q][e].req.ref = r.ref
    BY <2>1, <2>3, <2>5 DEF Refers, NeedsReference, LooksUp
  <2>7. r.ref \in Exts
    BY RequestType DEF LooksUp, NeedsReference
  <2>8. View(p, r.ref) # None /\ View(p, r.ref).req = RowSeen(rows, r.ref).req
    BY <2>7, SeenByAll
  <2>9. View(p, r.ref).req.wallet = r.wallet
    BY <2>8 DEF ReferenceVerdict, MatchesReference
  <2>10. p = q
    BY <2>6, <2>7, <2>8, <2>9, ReferrersMeet DEF ReversalInv
  <2>11. QED
    BY <2>5, <2>10
<1>3. QED
  BY <1>1, <1>2


LEMMA LookedStays ==
    ASSUME TypeInv, RowInv, LedgerInv, ReversalInv, [Next]_vars,
           NEW p \in Procs, ~Commit(p), KeepsLocks(p),
           NEW rows, \A e \in Exts : rows[e] # None => rows[e] = workWagers[p][e],
           NEW r \in Requests, r.wallet \in Wallets, workWallets[p][r.wallet] # None,
           NEW look, Looked(p, rows, r, look)
    PROVE  /\ Looked(p, rows, r, look)'
           /\ VerdictOf(rows, r, look)' = VerdictOf(rows, r, look)
           /\ VerdictOf(rows, r, look) = "resolved" => DirOf(rows, r)' = DirOf(rows, r)
<1>1. CASE ~LooksUp(r)
  <2>1. Looked(p, rows, r, look)'
    BY <1>1 DEF Looked
  <2>2. VerdictOf(rows, r, look)' = VerdictOf(rows, r, look)
    BY <1>1 DEF VerdictOf, LooksUp
  <2>3. VerdictOf(rows, r, look) = "resolved" => ~NeedsReference(r)
    BY <1>1 DEF VerdictOf, LooksUp
  <2>4. QED
    BY <2>1, <2>2, <2>3 DEF DirOf
<1>2. CASE LooksUp(r) /\ look # "found"
  <2>1. r.ref \in Exts
    BY <1>2, RequestType DEF LooksUp, NeedsReference
  <2>2. RowSeen(rows, r.ref)' # None => RowSeen(rows, r.ref)'.req.wallet # r.wallet
    <3>1. CASE RowSeen(rows, r.ref) # None
      BY <1>2, <2>1, <3>1, SeenStays DEF Looked
    <3>2. CASE RowSeen(rows, r.ref) = None
      BY <2>1, <3>2, NewRowElsewhere DEF RowSeen
    <3>3. QED
      BY <3>1, <3>2
  <2>3. Looked(p, rows, r, look)'
    BY <1>2, <2>2 DEF Looked
  <2>4. VerdictOf(rows, r, look)' = VerdictOf(rows, r, look) /\ VerdictOf(rows, r, look) # "resolved"
    BY <1>2 DEF VerdictOf, LooksUp
  <2>5. QED
    BY <2>3, <2>4
<1>3. CASE LooksUp(r) /\ look = "found"
  <2> DEFINE row == RowSeen(rows, r.ref)
  <2>1. r.ref \in Exts /\ row # None
    BY <1>3, RequestType DEF LooksUp, NeedsReference, Looked
  <2>2. row' # None /\ row'.req = row.req
    BY <2>1, SeenStays
  <2>3. Looked(p, rows, r, look)'
    BY <1>3, <2>1, <2>2 DEF Looked, KeepsLocks
  <2>4. CASE PlayerOf[r.wallet] # r.player
    BY <2>3, <2>4 DEF VerdictOf
  <2>5. CASE PlayerOf[r.wallet] = r.player
    <3>1. row'.status = row.status
      <4>1. CASE rows[r.ref] # None
        BY <4>1 DEF RowSeen
      <4>2. CASE rows[r.ref] = None
        <5>1. wagerLock[r.ref] = p /\ wagers[r.ref] # None
          BY <1>3, <2>1, <2>5, <4>2 DEF Looked, RowSeen
        <5>2. QED
          BY <2>1, <4>2, <5>1, LockedRowStays DEF RowSeen
      <4>3. QED
        BY <4>1, <4>2
    <3>2. ReferenceVerdict(r, row') = ReferenceVerdict(r, row)
      BY <2>2, <3>1 DEF ReferenceVerdict
    <3>3. ReferenceVerdict(r, row) = "resolved" => (Undone(rows, r)' <=> Undone(rows, r))
      BY <1>3, <2>1, UndoneStays
    <3>4. VerdictOf(rows, r, look)' = VerdictOf(rows, r, look)
      BY <3>2, <3>3 DEF VerdictOf
    <3>5. DirOf(rows, r)' = DirOf(rows, r)
      BY <2>2 DEF DirOf
    <3>6. QED
      BY <2>3, <3>4, <3>5
  <2>6. QED
    BY <2>4, <2>5
<1>4. QED
  BY <1>1, <1>2, <1>3

-----------------------------------------------------------------------------
(* What is known about the reference of a record.                          *)

\* A record is that of a new request, or the waiting row of the table.
LEMMA RecordKind ==
    ASSUME TypeInv, RowInv, NEW p \in Procs, pc[p] \in {"lockWallet", "resolve", "reversal", "settle"}
    PROVE  /\ record[p] \in Rows /\ Req(p) \in Requests /\ Req(p).ext \in Exts
           /\ record[p].status \in {"PENDING", "PENDING_REFERENCE"}
           /\ p \in Clients => record[p] = NewRecord(Req(p))
           /\ p \in Workers => /\ record[p] = wagers[Req(p).ext] /\ wagers[Req(p).ext] # None
                               /\ wagers[Req(p).ext].status = "PENDING_REFERENCE"
                               /\ workWagers[p][Req(p).ext] = None
<1>1. record[p] \in Rows
  BY DEF TypeInv, TypeOK, ControlInv
<1>2. Req(p) \in Requests /\ Req(p).ext \in Exts
  BY <1>1, RequestType DEF Req, Rows
<1>3. CASE p \in Clients
  <2>1. record[p] = NewRecord(Req(p)) /\ p \notin Workers
    BY <1>3, WageringAssumption DEF RowInv, ClientsApart
  <2>2. NewRecord(Req(p)).status = "PENDING"
    BY DEF NewRecord
  <2>3. record[p].status = "PENDING"
    BY <2>1, <2>2
  <2>4. QED
    BY <1>1, <1>2, <2>1, <2>3
<1>4. CASE p \in Workers
  <2>1. p \notin Clients /\ Claimed(p, Req(p).ext) /\ record[p] = wagers[Req(p).ext]
        /\ workWagers[p][Req(p).ext] = None
    BY <1>4, WageringAssumption DEF RowInv, WorkersHold, Working
  <2>2. QED
    BY <1>1, <1>2, <2>1 DEF Claimed
<1>5. QED
  BY <1>3, <1>4 DEF Procs

\* What a step of p's look for its reference finds.
LEMMA ReferenceSeen ==
    ASSUME TypeInv, RowInv, NEW p \in Procs, pc[p] \in {"resolve", "reversal", "settle"}
    PROVE  /\ Req(p).ref = Req(p).ext =>
                Reference(p) # None /\ Reference(p).status # "PROCESSED"
           /\ Req(p).ref # Req(p).ext => Reference(p) = RowSeen(workWagers[p], Req(p).ref)
<1>1. Req(p).ref # Req(p).ext => Reference(p) = RowSeen(workWagers[p], Req(p).ref)
  BY DEF Reference, View, RowSeen
<1>2. CASE Req(p).ref = Req(p).ext /\ p \in Clients
  BY <1>2, RecordKind, NewRecordType DEF Reference
<1>3. CASE Req(p).ref = Req(p).ext /\ p \in Workers
  BY <1>3, RecordKind, WageringAssumption DEF Reference, View
<1>4. QED
  BY <1>1, <1>2, <1>3 DEF Procs

LEMMA ReversalsSeen ==
    ASSUME NEW p
    PROVE  Undone(workWagers[p], Req(p)) <=> SuccessfulReversals(p) # {}
BY DEF Undone, SuccessfulReversals, View, RowSeen

LEMMA LooksReady ==
    ASSUME TypeInv, RowInv, ReversalInv, NEW p \in Procs, Ready(p), Looks(p)
    PROVE  Ready(p)'
<1>0. PICK r, rows : r = Req(p) /\ rows = workWagers[p]
  OBVIOUS
<1>1. /\ Req(p)' = r /\ workWagers'[p] = rows
      /\ UNCHANGED wagers
      /\ pc[p] \in {"resolve", "reversal"}
  BY <1>0 DEF Looks, SameWork, Req, SkipReference, ResolveReference, HasSuccessfulReversal, db
<1>2. r \in Requests /\ r.ext \in Exts
  BY <1>0, <1>1, RecordKind
<1>3. \A look : VerdictOf(rows, r, look)' = VerdictOf(rows, r, look)
  BY <1>1 DEF VerdictOf, RowSeen, Undone
<1>4. ASSUME pc'[p] = "reversal", PlayerOf[r.wallet] = r.player, LooksUp(r), Looked(p, rows, r, "found")'
      PROVE  Ready(p)'
  BY <1>1, <1>4 DEF Ready
<1>5. ASSUME pc'[p] = "settle", NEW look \in {"found", "missing"}, Looked(p, rows, r, look)',
             verdict'[p] = VerdictOf(rows, r, look)
      PROVE  Ready(p)'
  <2>1. Looked(p, workWagers[p], Req(p), look)'
    BY <1>1, <1>5
  <2>2. verdict'[p] = VerdictOf(workWagers[p], Req(p), look)'
    BY <1>1, <1>3, <1>5
  <2>3. QED
    BY <1>5, <2>1, <2>2 DEF Ready
<1>6. CASE SkipReference(p)
  <2>1. /\ pc'[p] = "settle"
        /\ verdict'[p] = IF PlayerOf[r.wallet] # r.player THEN "WALLET_MISMATCH" ELSE "resolved"
        /\ PlayerOf[r.wallet] = r.player => ~NeedsReference(r)
    BY <1>0, <1>6 DEF SkipReference, Conclude, Goto, TypeInv, TypeOK
  <2>2. \A look : verdict'[p] = VerdictOf(rows, r, look)
    BY <2>1 DEF VerdictOf
  <2>3. CASE LooksUp(r) /\ RowSeen(rows, r.ref) = None
    <3>1. Looked(p, rows, r, "missing")'
      BY <1>1, <2>3 DEF Looked, RowSeen
    <3>2. QED
      BY <1>5, <2>1, <2>2, <3>1
  <2>4. CASE LooksUp(r) /\ RowSeen(rows, r.ref) # None
    <3>1. PlayerOf[r.wallet] # r.player
      BY <2>1, <2>4 DEF LooksUp
    <3>2. Looked(p, rows, r, "found")'
      BY <1>1, <2>4, <3>1 DEF Looked, RowSeen
    <3>3. QED
      BY <1>5, <2>1, <2>2, <3>2
  <2>5. CASE ~LooksUp(r)
    <3>1. Looked(p, rows, r, "found")'
      BY <2>5 DEF Looked
    <3>2. QED
      BY <1>5, <2>1, <2>2, <3>1
  <2>6. QED
    BY <2>3, <2>4, <2>5
<1>7. CASE ResolveReference(p)
  <2>1. PlayerOf[r.wallet] = r.player /\ NeedsReference(r) /\ pc[p] = "resolve"
    BY <1>0, <1>7 DEF ResolveReference
  <2>2. CASE Reference(p) = None
    <3>1. pc'[p] = "settle" /\ verdict'[p] = "REFERENCE_PENDING"
      BY <1>7, <2>2 DEF ResolveReference, Conclude, Goto, TypeInv, TypeOK
    <3>2. LooksUp(r) /\ RowSeen(rows, r.ref) = None
      BY <1>0, <2>1, <2>2, ReferenceSeen DEF LooksUp
    <3>3. Looked(p, rows, r, "missing")'
      BY <1>1, <3>2 DEF Looked, RowSeen
    <3>4. VerdictOf(rows, r, "missing") = "REFERENCE_PENDING"
      BY <2>1, <3>2 DEF VerdictOf, LooksUp
    <3>5. QED
      BY <1>5, <3>1, <3>3, <3>4
  <2>3. CASE Reference(p) # None
    <3>0. PICK found : found = ReferenceVerdict(r, Reference(p))
      OBVIOUS
    <3>1. /\ wagerLock' = [wagerLock EXCEPT ![r.ref] = IF wagers[r.ref] = None THEN @ ELSE p]
          /\ IF found = "resolved" THEN Goto(p, "reversal") /\ UNCHANGED verdict
             ELSE Conclude(p, found)
      BY <1>0, <1>7, <2>3, <3>0 DEF ResolveReference
    <3>2. r.ref \in Exts
      BY <1>2, <2>1, RequestType DEF NeedsReference
    <3>3. Looked(p, rows, r, "found")' \/ ~LooksUp(r)
      <4>1. CASE LooksUp(r)
        <5>1. RowSeen(rows, r.ref) = Reference(p)
          BY <1>0, <2>1, <4>1, ReferenceSeen DEF LooksUp
        <5>2. rows[r.ref] # None \/ wagerLock'[r.ref] = p
          BY <2>3, <3>1, <3>2, <5>1 DEF RowSeen, TypeInv, TypeOK
        <5>3. QED
          BY <1>1, <2>3, <4>1, <5>1, <5>2 DEF Looked, RowSeen
      <4>2. QED
        BY <4>1
    <3>4. LooksUp(r) => RowSeen(rows, r.ref) = Reference(p)
      BY <1>0, <2>1, ReferenceSeen DEF LooksUp
    <3>5. CASE found = "resolved"
      <4>1. Reference(p).status = "PROCESSED"
        BY <3>0, <3>5 DEF ReferenceVerdict
      <4>2. LooksUp(r)
        BY <1>0, <2>1, <4>1, ReferenceSeen DEF LooksUp
      <4>3. pc'[p] = "reversal"
        BY <3>1, <3>5 DEF Goto, TypeInv, TypeOK
      <4>4. QED
        BY <1>4, <2>1, <3>3, <4>2, <4>3
    <3>6. CASE found # "resolved"
      <4>1. pc'[p] = "settle" /\ verdict'[p] = found
        BY <3>1, <3>6 DEF Conclude, Goto, TypeInv, TypeOK
      <4>2. CASE LooksUp(r)
        <5>1. VerdictOf(rows, r, "found") = found
          BY <2>1, <3>0, <3>4, <3>6, <4>2 DEF VerdictOf, LooksUp
        <5>2. QED
          BY <1>5, <3>3, <4>1, <4>2, <5>1
      <4>3. CASE ~LooksUp(r)
        <5>1. r.ref = r.ext
          BY <2>1, <4>3 DEF LooksUp
        <5>2. found = "REFERENCE_NOT_PROCESSED"
          BY <1>0, <2>1, <3>0, <5>1, ReferenceSeen DEF ReferenceVerdict
        <5>3. VerdictOf(rows, r, "found") = found
          BY <2>1, <5>1, <5>2 DEF VerdictOf
        <5>4. Looked(p, rows, r, "found")'
          BY <4>3 DEF Looked
        <5>5. QED
          BY <1>5, <4>1, <5>3, <5>4
      <4>4. QED
        BY <4>2, <4>3
    <3>7. QED
      BY <3>5, <3>6
  <2>4. QED
    BY <2>2, <2>3
<1>8. CASE HasSuccessfulReversal(p)
  <2>1. /\ pc[p] = "reversal" /\ pc'[p] = "settle"
        /\ verdict'[p] = IF SuccessfulReversals(p) # {} THEN "DUPLICATE_REVERSAL" ELSE "resolved"
        /\ UNCHANGED wagerLock
    BY <1>8 DEF HasSuccessfulReversal, Conclude, Goto, TypeInv, TypeOK, locks
  <2>2. PlayerOf[r.wallet] = r.player /\ LooksUp(r) /\ Looked(p, rows, r, "found")
    BY <1>0, <2>1 DEF Ready
  <2>3. Looked(p, rows, r, "found")'
    BY <1>1, <2>1, <2>2 DEF Looked, RowSeen
  <2>4. Reference(p) = RowSeen(rows, r.ref)
    BY <1>0, <2>1, <2>2, ReferenceSeen DEF LooksUp
  <2>5. ReferenceVerdict(r, RowSeen(rows, r.ref)) = "resolved"
    BY <1>0, <2>1, <2>2, <2>4 DEF ReversalInv, ReferencesHold, Resolved, LooksUp
  <2>6. Undone(rows, r) <=> SuccessfulReversals(p) # {}
    BY <1>0, ReversalsSeen
  <2>7. VerdictOf(rows, r, "found") = verdict'[p]
    BY <2>1, <2>2, <2>5, <2>6 DEF VerdictOf, LooksUp
  <2>8. QED
    BY <1>5, <2>1, <2>3, <2>7
<1>9. QED
  BY <1>6, <1>7, <1>8 DEF Looks

LEMMA ReadyStep ==
    ASSUME TypeInv, RowInv, LedgerInv, ReversalInv, [Next]_vars, NEW p \in Procs, Ready(p)
    PROVE  Ready(p)'
<1>1. CASE pc'[p] \notin {"reversal", "settle"}
  BY <1>1 DEF Ready
<1>2. CASE Looks(p)
  BY <1>2, LooksReady
<1>3. CASE pc'[p] \in {"reversal", "settle"} /\ ~Commit(p) /\ KeepsLocks(p) /\ Stands(p)
  <2>1. pc[p] = pc'[p] /\ Req(p)' = Req(p) /\ verdict'[p] = verdict[p] /\ workWagers'[p] = workWagers[p]
    BY <1>3 DEF Stands, SameWork, Req
  <2>2. PICK r, rows : r = Req(p) /\ rows = workWagers[p]
    OBVIOUS
  <2>3. r \in Requests
    BY <1>3, <2>1, <2>2, RecordKind
  <2>4. r.wallet \in Wallets /\ workWallets[p][r.wallet] # None
    BY <1>3, <2>1, <2>2 DEF TypeInv, ControlInv, Wallet
  <2>5. ASSUME NEW look, Looked(p, rows, r, look)
        PROVE  Looked(p, rows, r, look)' /\ VerdictOf(rows, r, look)' = VerdictOf(rows, r, look)
    BY <1>3, <2>2, <2>3, <2>4, <2>5, LookedStays
  <2>6. Looked(p, workWagers[p], Req(p), "found")' <=> Looked(p, rows, r, "found")'
    BY <2>1, <2>2
  <2>7. CASE pc[p] = "reversal"
    BY <2>1, <2>2, <2>5, <2>7 DEF Ready
  <2>8. CASE pc[p] = "settle"
    <3>1. PICK look \in {"found", "missing"} :
            Looked(p, rows, r, look) /\ verdict[p] = VerdictOf(rows, r, look)
      BY <2>2, <2>8 DEF Ready
    <3>2. Looked(p, rows, r, look)' /\ verdict'[p] = VerdictOf(rows, r, look)'
      BY <2>1, <2>5, <3>1
    <3>3. Looked(p, workWagers[p], Req(p), look)' /\ verdict'[p] = VerdictOf(workWagers[p], Req(p), look)'
      BY <2>1, <2>2, <3>2
    <3>4. QED
      BY <2>1, <2>8, <3>3 DEF Ready
  <2>9. QED
    BY <1>3, <2>1, <2>7, <2>8
<1>4. CASE SettleStep(p)
  BY <1>1, <1>4, SettleShape, ContinueShape
<1>5. ASSUME NEW next \in {"insert", "resolve"}, LockWallet(p, next)
      PROVE  pc'[p] \notin {"reversal", "settle"}
  BY <1>5 DEF LockWallet, Goto, TypeInv, TypeOK
<1>6. QED
  BY <1>1, <1>2, <1>3, <1>4, <1>5, StepOf DEF Steps, Claims, Searches

-----------------------------------------------------------------------------
(* The write of an outcome is that of an attempt.                          *)

\* p makes the attempt at its record that gave this look, and writes this.
Attempted(p, look, row, wallet, types) ==
    /\ Write(p, row, wallet, types)
    /\ Looked(p, workWagers[p], Req(p), look)
    /\ look = "last" => p \in Workers
    /\ Writes([req |-> Req(p), look |-> look], VerdictOf(workWagers[p], Req(p), look),
              DirOf(workWagers[p], Req(p)), Wallet(p), p \in Clients, row, wallet, types)

\* An outcome tells the reference that was resolved, and no other.
LEMMA PlainOutcome ==
    ASSUME TypeInv, RowInv, WaitingPlain, NEW p \in Procs, pc[p] = "settle", NEW status \in Statuses,
           NEW code \in Codes \cup {None}
    PROVE  LET row == Outcome(p, status, code) IN
           /\ row \in Rows
           /\ row.req = Req(p) /\ row.status = status /\ row.code = code
           /\ row.ref = IF verdict[p] = "resolved" /\ NeedsReference(Req(p)) THEN Req(p).ref ELSE None
           /\ row.balance = Wallet(p).balance
<1>1. record[p] \in Rows
  BY SettleContext
<1>2. record[p].ref = None
  <2>1. CASE p \in Clients
    <3>1. record[p] = NewRecord(Req(p))
      BY <2>1, RecordKind
    <3>2. NewRecord(Req(p)).ref = None
      BY DEF NewRecord
    <3>3. QED
      BY <3>1, <3>2
  <2>2. CASE p \in Workers
    BY <2>2, RecordKind DEF WaitingPlain, HasStatus
  <2>3. QED
    BY <2>1, <2>2 DEF Procs
<1>3. Outcome(p, status, code) \in Rows
  BY OutcomeType
<1>4. KeptReference(p) = IF verdict[p] = "resolved" /\ NeedsReference(Req(p)) THEN Req(p).ref ELSE None
  BY <1>2 DEF KeptReference
<1>5. QED
  BY <1>1, <1>3, <1>4 DEF Outcome, Rows, Req

\* A due time or one attempt more changes nothing of what is told of a row.
LEMMA TouchedRow ==
    ASSUME NEW row \in Rows
    PROVE  /\ LET due == [row EXCEPT !.due = TRUE] IN
              /\ due \in Rows /\ due.req = row.req /\ due.status = row.status
              /\ due.code = row.code /\ due.ref = row.ref /\ due.balance = row.balance
           /\ LET later == [row EXCEPT !.attempts = @ + 1] IN
              /\ later \in Rows /\ later.req = row.req /\ later.status = row.status
              /\ later.code = row.code /\ later.ref = row.ref /\ later.balance = row.balance
<1>1. [row EXCEPT !.due = TRUE] \in Rows /\ [row EXCEPT !.attempts = @ + 1] \in Rows
  BY RowTouched
<1>2. QED
  BY <1>1 DEF Rows

LEMMA RejectAttempted ==
    ASSUME TypeInv, RowInv, WaitingPlain, NEW p \in Procs, NEW look \in {"found", "missing"}, Reject(p),
           Looked(p, workWagers[p], Req(p), look),
           verdict[p] = VerdictOf(workWagers[p], Req(p), look),
           verdict[p] = "resolved" => Dir(p) = DirOf(workWagers[p], Req(p))
    PROVE  \E row \in Rows : Attempted(p, look, row, Wallet(p), {"Rejected"})
<1> DEFINE row == Outcome(p, "REJECTED", Refusal(p))
<1>1. pc[p] = "settle" /\ ~Waits(p) /\ Refusal(p) # None /\ Write(p, row, Wallet(p), {"Rejected"})
  BY DEF Reject
<1>2. Refusal(p) \in Codes \cup {None}
  BY <1>1, SettleContext DEF Refusal, RefusalCode, Codes
<1>3. /\ row \in Rows /\ row.req = Req(p) /\ row.status = "REJECTED" /\ row.code = Refusal(p)
      /\ row.ref = IF verdict[p] = "resolved" /\ NeedsReference(Req(p)) THEN Req(p).ref ELSE None
      /\ row.balance = Wallet(p).balance
  BY <1>1, <1>2, PlainOutcome DEF Statuses
<1> HIDE DEF row
<1>4. CASE verdict[p] # "resolved"
  <2>1. Refusal(p) = verdict[p] /\ (verdict[p] = "REFERENCE_PENDING" => Req(p).kind \notin Reversals)
    BY <1>1, <1>4 DEF Refusal, Waits
  <2>2. Writes([req |-> Req(p), look |-> look], verdict[p], DirOf(workWagers[p], Req(p)), Wallet(p),
               p \in Clients, row, Wallet(p), {"Rejected"})
    BY <1>3, <1>4, <2>1 DEF Writes
  <2>3. Attempted(p, look, row, Wallet(p), {"Rejected"})
    BY <1>1, <2>2 DEF Attempted
  <2>4. QED
    BY <1>3, <2>3
<1>5. CASE verdict[p] = "resolved"
  <2>1. /\ Financial(Req(p).kind) /\ ~Accepts(Wallet(p).balance, DirOf(workWagers[p], Req(p)), Req(p).amount)
        /\ Refusal(p) = RefusalCode(Req(p).kind)
    BY <1>1, <1>5 DEF Refusal
  <2>2. Writes([req |-> Req(p), look |-> look], verdict[p], DirOf(workWagers[p], Req(p)), Wallet(p),
               p \in Clients, row, Wallet(p), {"Rejected"})
    BY <1>3, <1>5, <2>1 DEF Writes
  <2>3. Attempted(p, look, row, Wallet(p), {"Rejected"})
    BY <1>1, <2>2 DEF Attempted
  <2>4. QED
    BY <1>3, <2>3
<1>6. QED
  BY <1>4, <1>5

LEMMA ProcessedAttempted ==
    ASSUME TypeInv, RowInv, WaitingPlain, NEW p \in Procs, NEW look \in {"found", "missing"},
           MarkProcessed(p),
           Looked(p, workWagers[p], Req(p), look),
           verdict[p] = VerdictOf(workWagers[p], Req(p), look),
           verdict[p] = "resolved" => Dir(p) = DirOf(workWagers[p], Req(p))
    PROVE  \E row \in Rows, wallet \in WalletSpace, types \in SUBSET EventTypes :
              Attempted(p, look, row, wallet, types)
<1>0. PICK r, dir : r = Req(p) /\ dir = Dir(p)
  OBVIOUS
<1> DEFINE moved == Move(Wallet(p), r.ext, dir, r.amount)
           processed == Outcome(p, "PROCESSED", None)
           row == [processed EXCEPT !.balance = moved.balance]
<1>1. /\ pc[p] = "settle" /\ verdict[p] = "resolved" /\ Refusal(p) = None
      /\ IF Financial(r.kind)
         THEN Write(p, row, moved, {"Processed", "BalanceChanged"})
         ELSE Write(p, processed, Wallet(p), {"Processed"})
  BY <1>0 DEF MarkProcessed
<1>3. /\ Wallet(p) \in WalletSpace /\ r.ext \in Exts /\ r.amount \in Nat
      /\ (IF NeedsReference(r) THEN r.ref ELSE None) \in Exts \cup {None}
      /\ dir \in {"DEBIT", "CREDIT"} /\ dir = DirOf(workWagers[p], r)
  BY <1>0, <1>1, SettleContext DEF Dir, Direction
<1>4. /\ processed \in Rows /\ processed.req = r /\ processed.status = "PROCESSED" /\ processed.code = None
      /\ processed.ref = IF NeedsReference(r) THEN r.ref ELSE None
      /\ processed.balance = Wallet(p).balance
  BY <1>0, <1>1, PlainOutcome DEF Statuses
<1> HIDE DEF processed
<1>5. CASE Financial(r.kind)
  <2>1. Accepts(Wallet(p).balance, dir, r.amount)
    BY <1>0, <1>1, <1>5, NoneAssumption DEF Refusal, RefusalCode, Codes
  <2>2. moved \in WalletSpace
    BY <1>3, <2>1, MoveType
  <2>3. moved.balance \in Nat \cup {None}
    BY <2>2, MaxMoneyAssumption DEF WalletSpace
  <2> HIDE DEF moved
  <2>4. row \in Rows
    BY <1>4, <2>3, RowUpdate
  <2>5. /\ row.req = r /\ row.status = "PROCESSED" /\ row.code = None
        /\ row.ref = IF NeedsReference(r) THEN r.ref ELSE None
        /\ row.balance = moved.balance
    BY <1>4, <2>3 DEF Rows
  <2> HIDE DEF row
  <2>6. Writes([req |-> r, look |-> look], verdict[p], dir, Wallet(p), p \in Clients, row, moved,
               {"Processed", "BalanceChanged"})
    BY <1>1, <1>5, <2>1, <2>5 DEF Writes, moved
  <2>7. Attempted(p, look, row, moved, {"Processed", "BalanceChanged"})
    BY <1>0, <1>1, <1>3, <1>5, <2>6 DEF Attempted
  <2>8. QED
    BY <2>2, <2>4, <2>7 DEF EventTypes
<1>6. CASE ~Financial(r.kind)
  <2>1. Writes([req |-> r, look |-> look], verdict[p], dir, Wallet(p), p \in Clients, processed, Wallet(p),
               {"Processed"})
    BY <1>1, <1>4, <1>6 DEF Writes
  <2>2. Attempted(p, look, processed, Wallet(p), {"Processed"})
    BY <1>0, <1>1, <1>3, <1>6, <2>1 DEF Attempted
  <2>3. QED
    BY <1>3, <1>4, <2>2 DEF EventTypes
<1>7. QED
  BY <1>5, <1>6

\* What was found of a reference is the row that tells the direction of the movement.
LEMMA DirSeen ==
    ASSUME TypeInv, RowInv, ReversalInv, NEW p \in Procs, pc[p] = "settle", verdict[p] = "resolved"
    PROVE  Dir(p) = DirOf(workWagers[p], Req(p))
<1>1. CASE NeedsReference(Req(p))
  <2>1. Reference(p) # None /\ ReferenceVerdict(Req(p), Reference(p)) = "resolved"
    BY <1>1 DEF ReversalInv, ReferencesHold, Resolved
  <2>2. Reference(p).status = "PROCESSED"
    BY <2>1 DEF ReferenceVerdict
  <2>3. Reference(p) = RowSeen(workWagers[p], Req(p).ref)
    BY <2>2, ReferenceSeen
  <2>4. QED
    BY <2>3 DEF Dir, RefKind, DirOf
<1>2. CASE ~NeedsReference(Req(p))
  BY <1>2 DEF Dir, RefKind, DirOf
<1>3. QED
  BY <1>1, <1>2

LEMMA WaitsMissing ==
    ASSUME NEW p \in Procs, NEW look \in {"found", "missing"}, Waits(p),
           Looked(p, workWagers[p], Req(p), look),
           verdict[p] = VerdictOf(workWagers[p], Req(p), look)
    PROVE  /\ look = "missing" /\ Req(p).kind \in Reversals
           /\ VerdictOf(workWagers[p], Req(p), "missing") = "REFERENCE_PENDING"
           /\ VerdictOf(workWagers[p], Req(p), "last") = "REFERENCE_PENDING"
           /\ Looked(p, workWagers[p], Req(p), "last")
<1>1. verdict[p] = "REFERENCE_PENDING" /\ Req(p).kind \in Reversals
  BY DEF Waits
<1>2. look = "missing"
  BY <1>1 DEF VerdictOf, ReferenceVerdict
<1>3. VerdictOf(workWagers[p], Req(p), "last") = VerdictOf(workWagers[p], Req(p), "missing")
  BY DEF VerdictOf
<1>4. Looked(p, workWagers[p], Req(p), "last")
  BY <1>2 DEF Looked
<1>5. QED
  BY <1>1, <1>2, <1>3, <1>4

LEMMA WaitsAttempted ==
    ASSUME TypeInv, RowInv, WaitingPlain, NEW p \in Procs, NEW look \in {"found", "missing"},
           MarkPendingReference(p) \/ RetryLater(p) \/ GiveUp(p),
           Looked(p, workWagers[p], Req(p), look),
           verdict[p] = VerdictOf(workWagers[p], Req(p), look)
    PROVE  \E last \in {"missing", "last"}, row \in Rows, wallet \in WalletSpace,
              types \in SUBSET EventTypes : Attempted(p, last, row, wallet, types)
<1>1. pc[p] = "settle" /\ Waits(p) /\ verdict[p] # "resolved"
  BY DEF MarkPendingReference, RetryLater, GiveUp, Waits
<1>2. /\ Req(p).kind \in Reversals
      /\ VerdictOf(workWagers[p], Req(p), "missing") = "REFERENCE_PENDING"
      /\ VerdictOf(workWagers[p], Req(p), "last") = "REFERENCE_PENDING"
      /\ Looked(p, workWagers[p], Req(p), "last") /\ Looked(p, workWagers[p], Req(p), "missing")
  BY <1>1, WaitsMissing
<1>3. Wallet(p) \in WalletSpace
  BY <1>1, SettleContext
<1> DEFINE waiting == Outcome(p, "PENDING_REFERENCE", "REFERENCE_PENDING")
           refused == Outcome(p, "REJECTED", "REFERENCE_NOT_FOUND")
<1>4. /\ waiting \in Rows /\ waiting.req = Req(p) /\ waiting.status = "PENDING_REFERENCE"
      /\ waiting.code = "REFERENCE_PENDING" /\ waiting.ref = None /\ waiting.balance = Wallet(p).balance
  BY <1>1, PlainOutcome DEF Statuses, Codes
<1>5. /\ refused \in Rows /\ refused.req = Req(p) /\ refused.status = "REJECTED"
      /\ refused.code = "REFERENCE_NOT_FOUND" /\ refused.ref = None /\ refused.balance = Wallet(p).balance
  BY <1>1, PlainOutcome DEF Statuses, Codes
<1>6. CASE MarkPendingReference(p)
  <2> DEFINE row == [waiting EXCEPT !.due = TRUE]
  <2>1. p \in Clients /\ Write(p, row, Wallet(p), {"PendingReference"})
    BY <1>6 DEF MarkPendingReference
  <2> HIDE DEF waiting
  <2>2. /\ row \in Rows /\ row.req = Req(p) /\ row.status = "PENDING_REFERENCE"
        /\ row.code = "REFERENCE_PENDING" /\ row.ref = None /\ row.balance = Wallet(p).balance
    BY <1>4, TouchedRow
  <2> HIDE DEF row
  <2>3. Attempted(p, "missing", row, Wallet(p), {"PendingReference"})
    BY <1>2, <2>1, <2>2 DEF Attempted, Writes
  <2>4. QED
    BY <1>3, <2>2, <2>3 DEF EventTypes
<1>7. CASE RetryLater(p)
  <2> DEFINE row == [waiting EXCEPT !.attempts = @ + 1]
  <2>1. p \in Workers /\ p \notin Clients /\ Write(p, row, Wallet(p), {})
    BY <1>7, WageringAssumption DEF RetryLater
  <2> HIDE DEF waiting
  <2>2. /\ row \in Rows /\ row.req = Req(p) /\ row.status = "PENDING_REFERENCE"
        /\ row.code = "REFERENCE_PENDING" /\ row.ref = None /\ row.balance = Wallet(p).balance
    BY <1>4, TouchedRow
  <2> HIDE DEF row
  <2>3. Attempted(p, "missing", row, Wallet(p), {})
    BY <1>2, <2>1, <2>2 DEF Attempted, Writes
  <2>4. QED
    BY <1>3, <2>2, <2>3
<1>8. CASE GiveUp(p)
  <2> DEFINE row == [refused EXCEPT !.attempts = @ + 1]
  <2>1. p \in Workers /\ Write(p, row, Wallet(p), {"Rejected"})
    BY <1>8 DEF GiveUp
  <2> HIDE DEF refused
  <2>2. /\ row \in Rows /\ row.req = Req(p) /\ row.status = "REJECTED"
        /\ row.code = "REFERENCE_NOT_FOUND" /\ row.ref = None /\ row.balance = Wallet(p).balance
    BY <1>5, TouchedRow
  <2> HIDE DEF row
  <2>3. Attempted(p, "last", row, Wallet(p), {"Rejected"})
    BY <1>2, <2>1, <2>2 DEF Attempted, Writes
  <2>4. QED
    BY <1>3, <2>2, <2>3 DEF EventTypes
<1>9. QED
  BY <1>6, <1>7, <1>8

LEMMA SettleWrites ==
    ASSUME TypeInv, RowInv, ReversalInv, WaitingPlain, NEW p \in Procs, SettleStep(p), Ready(p)
    PROVE  \E look \in {"found", "missing", "last"}, row \in Rows, wallet \in WalletSpace,
              types \in SUBSET EventTypes : Attempted(p, look, row, wallet, types)
<1>1. pc[p] = "settle"
  BY SettleShape
<1>2. PICK look \in {"found", "missing"} : /\ Looked(p, workWagers[p], Req(p), look)
                                           /\ verdict[p] = VerdictOf(workWagers[p], Req(p), look)
  BY <1>1 DEF Ready
<1>3. verdict[p] = "resolved" => Dir(p) = DirOf(workWagers[p], Req(p))
  BY <1>1, DirSeen
<1>4. Wallet(p) \in WalletSpace
  BY <1>1, SettleContext
<1>5. CASE Reject(p)
  <2>1. PICK row \in Rows : Attempted(p, look, row, Wallet(p), {"Rejected"})
    BY <1>2, <1>3, <1>5, RejectAttempted
  <2>2. QED
    BY <1>4, <2>1 DEF EventTypes
<1>6. CASE MarkProcessed(p)
  BY <1>2, <1>3, <1>6, ProcessedAttempted
<1>7. CASE MarkPendingReference(p) \/ RetryLater(p) \/ GiveUp(p)
  BY <1>2, <1>7, WaitsAttempted
<1>8. QED
  BY <1>5, <1>6, <1>7 DEF SettleStep

-----------------------------------------------------------------------------
(* Each kind of step preserves SerialInv.                                  *)

LEMMA WaitingPlainStep ==
    ASSUME TypeInv, RowInv, ReversalInv, WaitingPlain, \A p \in Procs : Ready(p), [Next]_vars
    PROVE  WaitingPlain'
<1>1. ASSUME NEW e \in Exts, HasStatus(wagers'[e], "PENDING_REFERENCE") PROVE wagers'[e].ref = None
  <2>1. CASE wagers'[e] = wagers[e]
    BY <1>1, <2>1 DEF WaitingPlain
  <2>2. ASSUME NEW q \in Procs, wagers'[e] = workWagers[q][e] PROVE wagers'[e].ref = None
    BY <1>1, <2>2 DEF WaitingPlain
  <2>3. CASE /\ wagers[e] # None /\ wagers[e].status = "PENDING_REFERENCE"
             /\ wagers'[e] = [wagers[e] EXCEPT !.due = TRUE]
    <3>1. wagers[e] \in Rows /\ wagers[e].ref = None
      BY <2>3 DEF WaitingPlain, HasStatus, TypeInv, TypeOK
    <3>2. QED
      BY <2>3, <3>1 DEF Rows
  <2>4. QED
    BY <2>1, <2>2, <2>3, RowChanges
<1>2. ASSUME NEW p \in Procs, NEW e \in Exts, HasStatus(workWagers'[p][e], "PENDING_REFERENCE")
      PROVE  workWagers'[p][e].ref = None
  <2>1. CASE workWagers'[p][e] = workWagers[p][e]
    BY <1>2, <2>1 DEF WaitingPlain
  <2>2. CASE SettleStep(p)
    <3>1. PICK look \in {"found", "missing", "last"}, row \in Rows, wallet \in WalletSpace,
               types \in SUBSET EventTypes : Attempted(p, look, row, wallet, types)
      BY <2>2, SettleWrites
    <3>2. workWagers' = [workWagers EXCEPT ![p][Req(p).ext] = row]
      BY <3>1 DEF Attempted, Write
    <3>3. row.status = "PENDING_REFERENCE" => row.ref = None
      BY <3>1 DEF Attempted, Writes
    <3>4. workWagers'[p][e] = IF e = Req(p).ext THEN row ELSE workWagers[p][e]
      BY <3>2 DEF TypeInv, TypeOK
    <3>5. QED
      BY <1>2, <2>1, <3>3, <3>4 DEF HasStatus
  <2>3. CASE EndTransaction(p)
    BY <1>2, <2>3 DEF EndTransaction, HasStatus, TypeInv, TypeOK
  <2>4. ASSUME NEW next, LockWallet(p, next) PROVE workWagers'[p][e] = workWagers[p][e]
    BY <2>4 DEF LockWallet
  <2>5. QED
    BY <2>1, <2>2, <2>3, <2>4, StepOf DEF Steps, Stands, Claims, Looks, Searches, SameWork
<1>3. QED
  BY <1>1, <1>2 DEF WaitingPlain

\* A transaction that has written nothing.
Fresh(p) ==
    /\ pc[p] \in {"idle", "reply"}
    /\ batch[p] = << >>
    /\ Work(p) = [ws |-> [w \in Wallets |-> None], rows |-> [e \in Exts |-> None], events |-> {}]

LEMMA FreshChain ==
    ASSUME TypeInv, NEW p \in Procs, Fresh(p)
    PROVE  Chained(p)
<1> DEFINE a == [i \in 1..0 |-> None]
           g == [i \in 0..0 |-> Work(p)]
<1>1. Count(p, 0)
  BY WageringAssumption DEF Count, Fresh, Working
<1>2. Work(p) \in WorkSpace
  BY DEF Work, WorkSpace, TypeInv, TypeOK
<1>3. NoWork(p) = Work(p)
  BY DEF NoWork, Work, Fresh
<1>4. Part(p, Work(p))
  BY DEF Part, Work
<1>5. g[0] = Work(p)
  OBVIOUS
<1>6. a \in [1..0 -> Attempts] /\ g \in [0..0 -> WorkSpace]
  BY <1>2
<1> HIDE DEF a, g
<1>7. Chain(p, 0, a, g)
  BY <1>3, <1>4, <1>5, <1>6 DEF Chain
<1>8. QED
  BY <1>1, <1>7 DEF Chained

LEMMA FreshNext ==
    ASSUME NEW p \in Procs
    PROVE  (TypeInv /\ Fresh(p) => Chained(p))'
<1>1. TypeInv /\ Fresh(p) => Chained(p)
  BY FreshChain
<1>2. QED
  BY <1>1, PTL

LEMMA InitSerial == Init => SerialInv
<1> SUFFICES ASSUME Init PROVE SerialInv
  OBVIOUS
<1>1. WaitingPlain
  BY DEF Init, WaitingPlain, HasStatus
<1>2. ASSUME NEW p \in Procs PROVE Ready(p) /\ Chained(p)
  <2>1. pc[p] = "idle"
    BY DEF Init
  <2>2. Fresh(p)
    BY <2>1 DEF Init, Fresh, Work
  <2>3. QED
    BY <2>1, <2>2, FreshChain, InitType DEF Ready
<1>3. QED
  BY <1>1, <1>2 DEF SerialInv

\* A link of the chain outlives every step but the commit.
LEMMA LinkStays ==
    ASSUME TypeInv, RowInv, LedgerInv, ReversalInv, [Next]_vars,
           NEW p \in Procs, ~Commit(p), KeepsLocks(p), NEW g, NEW h, NEW a, a.req \in Requests,
           \A e \in Exts : g.rows[e] # None => g.rows[e] = workWagers[p][e],
           workWallets[p][a.req.wallet] # None, Link(p, g, h, a)
    PROVE  Link(p, g, h, a)'
<1>0. PICK r, rows, look : r = a.req /\ rows = g.rows /\ look = a.look
  OBVIOUS
<1>1. r \in Requests /\ r.wallet \in Wallets /\ Looked(p, rows, r, look)
  BY <1>0 DEF Link
<1>2. /\ Looked(p, rows, r, look)'
      /\ VerdictOf(rows, r, look)' = VerdictOf(rows, r, look)
      /\ VerdictOf(rows, r, look) = "resolved" => DirOf(rows, r)' = DirOf(rows, r)
  BY <1>0, <1>1, LookedStays
<1>3. PICK row \in Rows, wallet \in WalletSpace, types \in SUBSET EventTypes :
        /\ Writes(a, VerdictOf(rows, r, look), DirOf(rows, r), g.ws[r.wallet], p \in Clients,
                  row, wallet, types)
        /\ h.ws = [g.ws EXCEPT ![r.wallet] = wallet]
        /\ h.rows = [g.rows EXCEPT ![r.ext] = row]
        /\ h.events = g.events \cup (types \X {r.ext})
  BY <1>0 DEF Link
<1>4. PICK v, dir : v = VerdictOf(rows, r, look)' /\ dir = DirOf(rows, r)'
  OBVIOUS
<1>5. Writes(a, v, dir, g.ws[r.wallet], p \in Clients, row, wallet, types)
  BY <1>2, <1>3, <1>4 DEF Writes
<1>6. QED
  BY <1>0, <1>1, <1>2, <1>3, <1>4, <1>5 DEF Link

\* What a transaction has written does not depend on the wallets it locks later.
Widen(g, w, copy) == [g EXCEPT !.ws = [g.ws EXCEPT ![w] = copy]]

LEMMA WidenFields ==
    ASSUME NEW g \in WorkSpace, NEW w \in Wallets, NEW copy \in WalletSpace
    PROVE  /\ Widen(g, w, copy) \in WorkSpace
           /\ Widen(g, w, copy).rows = g.rows /\ Widen(g, w, copy).events = g.events
           /\ Widen(g, w, copy).ws = [g.ws EXCEPT ![w] = copy]
BY DEF Widen, WorkSpace

LEMMA LinkWidens ==
    ASSUME NEW p \in Procs, NEW g \in WorkSpace, NEW h \in WorkSpace, NEW a, NEW w \in Wallets,
           NEW copy \in WalletSpace, g.ws[w] = None, Link(p, g, h, a)
    PROVE  Link(p, Widen(g, w, copy), Widen(h, w, copy), a)
<1>0. PICK r : r = a.req
  OBVIOUS
<1>1. /\ r.wallet \in Wallets /\ g.ws[r.wallet] # None /\ r.wallet # w
      /\ g.ws \in [Wallets -> WalletSpace \cup {None}]
  BY <1>0 DEF Link, WorkSpace
<1>2. PICK row \in Rows, wallet \in WalletSpace, types \in SUBSET EventTypes :
        /\ Writes(a, VerdictOf(g.rows, r, a.look), DirOf(g.rows, r), g.ws[r.wallet], p \in Clients,
                  row, wallet, types)
        /\ h.ws = [g.ws EXCEPT ![r.wallet] = wallet]
        /\ h.rows = [g.rows EXCEPT ![r.ext] = row]
        /\ h.events = g.events \cup (types \X {r.ext})
  BY <1>0 DEF Link
<1>3. PICK g2, h2 : g2 = Widen(g, w, copy) /\ h2 = Widen(h, w, copy)
  OBVIOUS
<1>4. /\ g2.rows = g.rows /\ g2.events = g.events /\ g2.ws = [g.ws EXCEPT ![w] = copy]
      /\ h2.rows = h.rows /\ h2.events = h.events /\ h2.ws = [h.ws EXCEPT ![w] = copy]
  BY <1>3, WidenFields
<1>5. g2.ws[r.wallet] = g.ws[r.wallet] /\ h2.ws = [g2.ws EXCEPT ![r.wallet] = wallet]
  BY <1>1, <1>2, <1>4
<1>6. Link(p, g2, h2, a)
  BY <1>0, <1>1, <1>2, <1>4, <1>5 DEF Link
<1>7. QED
  BY <1>3, <1>6

\* What the links of a chain say of the transaction.
LEMMA ChainLinks ==
    ASSUME TypeInv, NEW p \in Procs, NEW n \in Nat, NEW a, NEW g, Chain(p, n, a, g), NEW i \in 1..n
    PROVE  /\ i \in 0..n /\ i - 1 \in 0..n
           /\ g[i - 1] \in WorkSpace /\ g[i] \in WorkSpace /\ a[i] \in Attempts
           /\ a[i].req \in Requests /\ a[i].req.ext \in Exts /\ a[i].req.wallet \in Wallets
           /\ Part(p, g[i - 1]) /\ Link(p, g[i - 1], g[i], a[i])
           /\ workWallets[p][a[i].req.wallet] # None
<1>1. i \in 0..n /\ i - 1 \in 0..n
  OBVIOUS
<1>2. /\ g[i - 1] \in WorkSpace /\ g[i] \in WorkSpace /\ a[i] \in Attempts
      /\ Part(p, g[i - 1]) /\ Link(p, g[i - 1], g[i], a[i])
  BY <1>1 DEF Chain
<1>3. a[i].req \in Requests /\ a[i].req.ext \in Exts
  BY <1>2, RequestType DEF Attempts
<1>4. a[i].req.wallet \in Wallets /\ g[i - 1].ws[a[i].req.wallet] # None
  BY <1>2 DEF Link
<1>5. QED
  BY <1>1, <1>2, <1>3, <1>4 DEF Part

LEMMA ChainKept ==
    ASSUME TypeInv, RowInv, LedgerInv, ReversalInv, [Next]_vars,
           NEW p \in Procs, ~Commit(p), KeepsLocks(p), SameWork(p),
           NEW n \in Nat, NEW a, NEW g, Chain(p, n, a, g)
    PROVE  Chain(p, n, a, g)'
<1>1. workWallets'[p] = workWallets[p] /\ workWagers'[p] = workWagers[p] /\ workEvents'[p] = workEvents[p]
  BY DEF SameWork
<1>2. NoWork(p)' = NoWork(p)
  <2>1. \A w \in Wallets : workWallets[p][w] # None => Copy(w)' = Copy(w)
    BY LockedWalletStays DEF Copy
  <2>2. QED
    BY <1>1, <2>1 DEF NoWork
<1>3. Work(p)' = Work(p)
  BY <1>1 DEF Work
<1>4. \A i \in 0..n : Part(p, g[i])'
  BY <1>1 DEF Chain, Part
<1>5. ASSUME NEW i \in 1..n PROVE Link(p, g[i - 1], g[i], a[i])'
  <2>1. PICK g1, g2, b : g1 = g[i - 1] /\ g2 = g[i] /\ b = a[i]
    OBVIOUS
  <2>2. /\ b.req \in Requests /\ workWallets[p][b.req.wallet] # None
        /\ Part(p, g1) /\ Link(p, g1, g2, b)
    BY <2>1, ChainLinks
  <2>3. Link(p, g1, g2, b)'
    BY <2>2, LinkStays DEF Part
  <2>4. QED
    BY <2>1, <2>3
<1>6. QED
  BY <1>1, <1>2, <1>3, <1>4, <1>5 DEF Chain

LEMMA ChainLocks ==
    ASSUME TypeInv, RowInv, LedgerInv, ReversalInv, [Next]_vars,
           NEW p \in Procs, ~Commit(p), KeepsLocks(p), NEW next, LockWallet(p, next),
           NEW n \in Nat, NEW a, NEW g, Chain(p, n, a, g)
    PROVE  \E wide : Chain(p, n, a, wide)'
<1>0. PICK w, copy : w = Req(p).wallet /\ copy = Copy(w)
  OBVIOUS
<1>1. /\ w \in Wallets /\ UNCHANGED <<wallets, workWagers, workEvents>>
      /\ workWallets' = [workWallets EXCEPT ![p][w] = IF @ = None THEN copy ELSE @]
  BY <1>0 DEF LockWallet, db
<1>2. copy \in WalletSpace /\ copy # None
  BY <1>0, <1>1, CopyType
<1>3. CASE workWallets[p][w] # None
  <2>1. SameWork(p)
    BY <1>1, <1>3 DEF SameWork, TypeInv, TypeOK
  <2>2. QED
    BY <2>1, ChainKept
<1>4. CASE workWallets[p][w] = None
  <2> DEFINE wide == [i \in 0..n |-> Widen(g[i], w, copy)]
  <2>1. workWallets'[p] = [workWallets[p] EXCEPT ![w] = copy]
    BY <1>1, <1>4 DEF TypeInv, TypeOK
  <2>2. \A i \in 0..n : g[i] \in WorkSpace /\ Part(p, g[i]) /\ g[i].ws[w] = None
    BY <1>1, <1>4 DEF Chain, Part
  <2>3. \A i \in 0..n : wide[i] = Widen(g[i], w, copy)
    OBVIOUS
  <2>4. \A i \in 0..n : /\ wide[i] \in WorkSpace
                        /\ wide[i].rows = g[i].rows /\ wide[i].events = g[i].events
                        /\ wide[i].ws = [g[i].ws EXCEPT ![w] = copy]
    BY <1>1, <1>2, <2>2, <2>3, WidenFields
  <2>5. wide \in [0..n -> WorkSpace]
    BY <2>3, <2>4
  <2> HIDE DEF wide
  <2>6. wide[0] = NoWork(p)'
    <3>1. wide[0] = Widen(NoWork(p), w, copy)
      BY <2>3 DEF Chain
    <3>2. [NoWork(p).ws EXCEPT ![w] = copy] =
             [v \in Wallets |-> IF workWallets'[p][v] # None THEN Copy(v) ELSE None]
      BY <1>0, <1>1, <1>2, <2>1 DEF NoWork, TypeInv, TypeOK
    <3>3. \A v \in Wallets : Copy(v)' = Copy(v)
      BY <1>1 DEF Copy
    <3>4. 0 \in 0..n /\ g[0] = NoWork(p)
      BY DEF Chain
    <3>5. /\ wide[0] \in WorkSpace /\ wide[0].ws = [NoWork(p).ws EXCEPT ![w] = copy]
          /\ wide[0].rows = NoWork(p).rows /\ wide[0].events = NoWork(p).events
      BY <2>4, <3>4
    <3>6. wide[0] = [ws |-> wide[0].ws, rows |-> wide[0].rows, events |-> wide[0].events]
      BY <3>5 DEF WorkSpace
    <3>7. NoWork(p).rows = [e \in Exts |-> None] /\ NoWork(p).events = {}
      BY DEF NoWork
    <3>8. QED
      BY <3>2, <3>3, <3>5, <3>6, <3>7 DEF NoWork
  <2>7. wide[n] = Work(p)'
    <3>1. wide[n] = Widen(Work(p), w, copy)
      BY <2>3 DEF Chain
    <3>2. QED
      BY <1>1, <2>1, <3>1 DEF Widen, Work
  <2>8. ASSUME NEW i \in 0..n PROVE Part(p, wide[i])'
    <3>1. ASSUME NEW v \in Wallets PROVE wide[i].ws[v] # None <=> workWallets'[p][v] # None
      <4>1. g[i].ws \in [Wallets -> WalletSpace \cup {None}]
        BY <2>2 DEF WorkSpace
      <4>2. wide[i].ws[v] = IF v = w THEN copy ELSE g[i].ws[v]
        BY <2>4, <4>1
      <4>3. workWallets'[p][v] = IF v = w THEN copy ELSE workWallets[p][v]
        BY <2>1 DEF TypeInv, TypeOK
      <4>4. g[i].ws[v] # None <=> workWallets[p][v] # None
        BY <2>2 DEF Part
      <4>5. QED
        BY <1>2, <4>2, <4>3, <4>4
    <3>2. \A e \in Exts : wide[i].rows[e] # None => wide[i].rows[e] = workWagers'[p][e]
      <4>1. wide[i].rows = g[i].rows /\ Part(p, g[i]) /\ workWagers' = workWagers
        BY <1>1, <2>2, <2>4
      <4>2. QED
        BY <4>1 DEF Part
    <3>3. QED
      BY <3>1, <3>2 DEF Part
  <2>9. ASSUME NEW i \in 1..n PROVE Link(p, wide[i - 1], wide[i], a[i])'
    <3>1. PICK g1, g2, b, wide1, wide2 :
            g1 = g[i - 1] /\ g2 = g[i] /\ b = a[i] /\ wide1 = wide[i - 1] /\ wide2 = wide[i]
      OBVIOUS
    <3>2. /\ b.req \in Requests /\ workWallets[p][b.req.wallet] # None
          /\ Part(p, g1) /\ Link(p, g1, g2, b) /\ g1 \in WorkSpace /\ g2 \in WorkSpace
          /\ i - 1 \in 0..n /\ i \in 0..n
      BY <3>1, ChainLinks
    <3>3. g1.ws[w] = None /\ wide1 = Widen(g1, w, copy) /\ wide2 = Widen(g2, w, copy)
      BY <2>2, <2>3, <3>1, <3>2
    <3>4. Link(p, wide1, wide2, b)
      BY <1>1, <1>2, <3>2, <3>3, LinkWidens
    <3>5. wide1.rows = g1.rows
      BY <2>4, <3>1, <3>2
    <3>6. Link(p, wide1, wide2, b)'
      BY <3>2, <3>4, <3>5, LinkStays DEF Part
    <3>7. QED
      BY <3>1, <3>6
  <2>10. Chain(p, n, a, wide)'
    BY <1>1, <2>5, <2>6, <2>7, <2>8, <2>9 DEF Chain
  <2>11. QED
    BY <2>10
<1>5. QED
  BY <1>3, <1>4

LEMMA ChainGrows ==
    ASSUME TypeInv, TypeInv', RowInv, LedgerInv, EffectInv, ReversalInv, WaitingPlain, [Next]_vars,
           NEW p \in Procs, ~Commit(p), KeepsLocks(p), SettleStep(p), Ready(p),
           NEW n \in Nat, NEW a, NEW g, Chain(p, n, a, g)
    PROVE  \E more, longer : Chain(p, n + 1, more, longer)'
<1>0. PICK r, old, new : r = Req(p) /\ old = Work(p) /\ new = Work(p)'
  OBVIOUS
<1>1. pc[p] = "settle" /\ UNCHANGED wallets
  BY SettleShape, ContinueShape
<1>2. /\ r \in Requests /\ r.ext \in Exts /\ r.wallet \in Wallets
      /\ Wallet(p) \in WalletSpace /\ workWallets[p][r.wallet] = Wallet(p) /\ Wallet(p) # None
      /\ workWagers[p][r.ext] = None
  BY <1>0, <1>1, SettleContext, NotYetWritten DEF Wallet, TypeInv, ControlInv
<1>3. PICK look \in {"found", "missing", "last"}, row \in Rows, wallet \in WalletSpace,
           types \in SUBSET EventTypes : Attempted(p, look, row, wallet, types)
  BY SettleWrites
<1>4. PICK b : b = [req |-> r, look |-> look]
  OBVIOUS
<1>5. /\ workWagers'[p] = [workWagers[p] EXCEPT ![r.ext] = row]
      /\ workWallets'[p] = [workWallets[p] EXCEPT ![r.wallet] = wallet]
      /\ workEvents'[p] = workEvents[p] \cup (types \X {r.ext})
  BY <1>0, <1>3 DEF Attempted, Write, TypeInv, TypeOK
<1>6. /\ old.ws = workWallets[p] /\ old.rows = workWagers[p] /\ old.events = workEvents[p]
      /\ new.ws = workWallets'[p] /\ new.rows = workWagers'[p] /\ new.events = workEvents'[p]
  BY <1>0 DEF Work
<1>7. old \in WorkSpace /\ new \in WorkSpace /\ b \in Attempts /\ b.req = r /\ b.look = look
  <2>1. old \in WorkSpace
    BY <1>0 DEF Work, WorkSpace, TypeInv, TypeOK
  <2>2. new \in WorkSpace
    BY <1>0 DEF Work, WorkSpace, TypeInv, TypeOK
  <2>3. QED
    BY <1>2, <1>4, <2>1, <2>2 DEF Attempts
<1>8. \A t \in EventTypes : <<t, r.ext>> \notin workEvents[p]
  BY <1>2, NothingEffective DEF EffectInv, WorkMatches, WorkMatch
<1>9. Link(p, old, new, b)
  <2>1. /\ Looked(p, workWagers[p], r, look)
        /\ Writes(b, VerdictOf(workWagers[p], r, look), DirOf(workWagers[p], r), workWallets[p][r.wallet],
                  p \in Clients, row, wallet, types)
    BY <1>0, <1>2, <1>3, <1>4 DEF Attempted
  <2>2. QED
    BY <1>2, <1>5, <1>6, <1>7, <1>8, <2>1 DEF Link
<1>10. Link(p, old, new, b)'
  BY <1>2, <1>6, <1>7, <1>9, LinkStays
<1> DEFINE more == [i \in 1..n + 1 |-> IF i = n + 1 THEN b ELSE a[i]]
           longer == [i \in 0..n + 1 |-> IF i = n + 1 THEN new ELSE g[i]]
<1>11. /\ more \in [1..n + 1 -> Attempts] /\ longer \in [0..n + 1 -> WorkSpace]
       /\ \A i \in 1..n : more[i] = a[i] /\ longer[i] = g[i]
       /\ more[n + 1] = b /\ longer[n + 1] = new /\ longer[0] = g[0] /\ longer[n] = old
  <2>1. a \in [1..n -> Attempts] /\ g \in [0..n -> WorkSpace] /\ g[n] = old
    BY <1>0 DEF Chain
  <2>2. \A i \in 1..n + 1 : i = n + 1 \/ i \in 1..n
    OBVIOUS
  <2>3. \A i \in 0..n + 1 : i = n + 1 \/ i \in 0..n
    OBVIOUS
  <2>4. more \in [1..n + 1 -> Attempts]
    BY <1>7, <2>1, <2>2
  <2>5. longer \in [0..n + 1 -> WorkSpace]
    BY <1>7, <2>1, <2>3
  <2>6. \A i \in 1..n : i \in 1..n + 1 /\ i \in 0..n + 1 /\ i # n + 1
    OBVIOUS
  <2>7. n + 1 \in 1..n + 1 /\ n + 1 \in 0..n + 1 /\ 0 \in 0..n + 1 /\ n \in 0..n + 1 /\ 0 # n + 1 /\ n # n + 1
    OBVIOUS
  <2>8. QED
    BY <2>1, <2>4, <2>5, <2>6, <2>7
<1> HIDE DEF more, longer
<1>12. longer[0] = NoWork(p)'
  <2>1. NoWork(p)' = NoWork(p)
    <3>1. \A w \in Wallets : Copy(w)' = Copy(w)
      BY <1>1 DEF Copy
    <3>2. \A w \in Wallets : workWallets'[p][w] # None <=> workWallets[p][w] # None
      BY <1>2, <1>3, <1>5, NoneAssumption DEF TypeInv, TypeOK
    <3>3. QED
      BY <3>1, <3>2 DEF NoWork
  <2>2. QED
    BY <1>11, <2>1 DEF Chain
<1>13. ASSUME NEW i \in 0..n PROVE Part(p, g[i])'
  <2>1. Part(p, g[i])
    BY DEF Chain
  <2>2. QED
    BY <1>2, <1>3, <1>5, <2>1, NoneAssumption DEF Part, TypeInv, TypeOK
<1>14. ASSUME NEW i \in 0..n + 1 PROVE Part(p, longer[i])'
  <2>1. CASE i = n + 1
    BY <1>6, <1>11, <2>1 DEF Part
  <2>2. CASE i # n + 1
    <3>1. i \in 0..n /\ longer[i] = g[i]
      BY <1>11, <2>2 DEF Chain
    <3>2. QED
      BY <1>13, <3>1
  <2>3. QED
    BY <2>1, <2>2
<1>15. ASSUME NEW i \in 1..n + 1 PROVE Link(p, longer[i - 1], longer[i], more[i])'
  <2>1. CASE i = n + 1
    <3>1. longer[i - 1] = old /\ longer[i] = new /\ more[i] = b
      BY <1>11, <2>1
    <3>2. QED
      BY <1>10, <3>1
  <2>2. CASE i # n + 1
    <3>1. i \in 1..n
      BY <2>2
    <3>2. PICK g1, g2, c : g1 = g[i - 1] /\ g2 = g[i] /\ c = a[i]
      OBVIOUS
    <3>3. /\ c.req \in Requests /\ workWallets[p][c.req.wallet] # None
          /\ Part(p, g1) /\ Link(p, g1, g2, c)
      BY <3>1, <3>2, ChainLinks
    <3>4. Link(p, g1, g2, c)'
      BY <3>3, LinkStays DEF Part
    <3>5. longer[i - 1] = g1 /\ longer[i] = g2 /\ more[i] = c
      <4>1. i - 1 = 0 \/ i - 1 \in 1..n
        BY <3>1
      <4>2. QED
        BY <1>11, <3>1, <3>2, <4>1
    <3>6. QED
      BY <3>4, <3>5
  <2>3. QED
    BY <2>1, <2>2
<1>16. ASSUME NEW i \in 1..n
       PROVE  /\ a[i].req.ext \in Exts /\ a[i].req.ext # r.ext
              /\ workWagers[p][a[i].req.ext] # None /\ workWagers[p][a[i].req.ext].req = a[i].req
              /\ workWagers'[p][a[i].req.ext] = workWagers[p][a[i].req.ext]
              /\ a[i].look = "last" => p \in Workers
  <2>1. a[i].req.ext \in Exts
    BY ChainLinks
  <2>2. /\ workWagers[p][a[i].req.ext] # None /\ workWagers[p][a[i].req.ext].req = a[i].req
        /\ a[i].look = "last" => p \in Workers
    BY DEF Chain
  <2>3. a[i].req.ext # r.ext
    BY <1>2, <2>2
  <2>4. QED
    BY <1>5, <2>1, <2>2, <2>3 DEF TypeInv, TypeOK
<1>17. /\ workWagers'[p][r.ext] = row /\ row # None /\ row.req = r
       /\ look = "last" => p \in Workers
  BY <1>0, <1>2, <1>3, <1>5, NoneAssumption DEF Attempted, Writes, TypeInv, TypeOK
<1>18. ASSUME NEW i \in 1..n + 1
       PROVE  /\ workWagers'[p][more[i].req.ext] # None
              /\ workWagers'[p][more[i].req.ext].req = more[i].req
              /\ more[i].look = "last" => p \in Workers
  <2>1. CASE i = n + 1
    BY <1>7, <1>11, <1>17, <2>1
  <2>2. CASE i \in 1..n
    BY <1>11, <1>16, <2>2
  <2>3. QED
    BY <2>1, <2>2
<1>19. ASSUME NEW i \in 1..n + 1, NEW j \in 1..n + 1, more[i].req = more[j].req PROVE i = j
  <2>1. CASE i \in 1..n /\ j \in 1..n
    BY <1>11, <1>19, <2>1 DEF Chain
  <2>2. CASE i \in 1..n /\ j = n + 1
    BY <1>7, <1>11, <1>16, <1>19, <2>2
  <2>3. CASE i = n + 1 /\ j \in 1..n
    BY <1>7, <1>11, <1>16, <1>19, <2>3
  <2>4. QED
    BY <2>1, <2>2, <2>3
<1>20. longer[n + 1] = Work(p)'
  BY <1>0, <1>11
<1>21. Chain(p, n + 1, more, longer)'
  BY <1>11, <1>12, <1>14, <1>15, <1>18, <1>19, <1>20 DEF Chain
<1>22. QED
  BY <1>21

LEMMA ChainedStep ==
    ASSUME TypeInv, TypeInv', RowInv, LedgerInv, EffectInv, ReversalInv, WaitingPlain, [Next]_vars,
           NEW p \in Procs, Ready(p), Chained(p)
    PROVE  Chained(p)'
<1>1. CASE EndTransaction(p) /\ pc'[p] \in {"idle", "reply"}
  <2>1. Fresh(p)'
    BY <1>1 DEF EndTransaction, Fresh, Work, TypeInv, TypeOK
  <2>2. QED
    BY <2>1, FreshNext
<1>2. PICK n \in Nat : Count(p, n) /\ \E a, g : Chain(p, n, a, g)
  BY DEF Chained
<1>3. PICK a, g : Chain(p, n, a, g)
  BY <1>2
<1>4. Count(p, n)
  BY <1>2
<1>5. Len(batch[p]) \in Nat /\ Len(batch'[p]) \in Nat /\ BatchSize \in Nat \ {0}
      /\ (p \in Clients <=> p \notin Workers)
  BY WageringAssumption DEF Procs, TypeInv, TypeOK
<1>6. CASE KeepsLocks(p) /\ ~Commit(p) /\ SettleStep(p)
  <2>1. \E more, longer : Chain(p, n + 1, more, longer)'
    BY <1>3, <1>6, ChainGrows
  <2>2. pc[p] = "settle" /\ Continue(p)
    BY <1>6, SettleShape
  <2>3. \/ pc'[p] = "commit" /\ batch'[p] = batch[p]
        \/ p \in Workers /\ batch[p] # << >> /\ pc'[p] = "lockWallet" /\ batch'[p] = Tail(batch[p])
    BY <2>2, ContinueShape
  <2>4. batch[p] # << >> => Len(Tail(batch[p])) = Len(batch[p]) - 1
    BY DEF TypeInv, TypeOK
  <2>5. Count(p, n + 1)'
    <3>1. CASE p \in Clients
      <4>1. n = 0 /\ pc'[p] = "commit"
        BY <1>4, <1>5, <2>2, <2>3, <3>1 DEF Count
      <4>2. QED
        BY <1>5, <3>1, <4>1 DEF Count
    <3>2. CASE p \in Workers
      <4>1. n + Len(batch[p]) < BatchSize
        BY <1>4, <2>2, <3>2 DEF Count, Working
      <4>2. CASE pc'[p] = "commit" /\ batch'[p] = batch[p]
        BY <1>5, <3>2, <4>1, <4>2 DEF Count, Working
      <4>3. CASE pc'[p] = "lockWallet" /\ batch[p] # << >> /\ batch'[p] = Tail(batch[p])
        <5>1. Len(batch'[p]) = Len(batch[p]) - 1
          BY <2>4, <4>3
        <5>2. (n + 1) + Len(batch'[p]) < BatchSize /\ (n + 1) + Len(batch'[p]) <= BatchSize
          <6>1. PICK k, l : k = Len(batch[p]) /\ l = Len(batch'[p])
            OBVIOUS
          <6>2. k \in Nat /\ l \in Nat /\ l = k - 1 /\ n + k < BatchSize
            BY <1>5, <4>1, <5>1, <6>1
          <6>3. (n + 1) + l < BatchSize /\ (n + 1) + l <= BatchSize
            BY <6>2, WageringAssumption
          <6>4. QED
            BY <6>1, <6>3
        <5>3. QED
          BY <1>5, <3>2, <4>3, <5>2 DEF Count, Working
      <4>4. QED
        BY <2>3, <4>2, <4>3
    <3>3. QED
      BY <3>1, <3>2 DEF Procs
  <2>6. QED
    BY <2>1, <2>5 DEF Chained
<1>7. ASSUME KeepsLocks(p), ~Commit(p), NEW next \in {"insert", "resolve"}, LockWallet(p, next)
      PROVE  Chained(p)'
  <2>1. \E wide : Chain(p, n, a, wide)'
    BY <1>3, <1>7, ChainLocks
  <2>2. pc[p] = "lockWallet" /\ pc'[p] \in {"insert", "resolve"} /\ batch'[p] = batch[p]
    BY <1>7 DEF LockWallet, Goto, TypeInv, TypeOK
  <2>3. Count(p, n)'
    BY <1>4, <1>5, <2>2 DEF Count, Working
  <2>4. QED
    BY <2>1, <2>3 DEF Chained
<1>8. CASE KeepsLocks(p) /\ ~Commit(p) /\ (Stands(p) \/ Claims(p) \/ Looks(p) \/ Searches(p))
  <2>1. SameWork(p)
    BY <1>8 DEF Stands, Claims, Looks, Searches
  <2>2. Chain(p, n, a, g)'
    BY <1>3, <1>8, <2>1, ChainKept
  <2>3. ASSUME Stands(p) PROVE Count(p, n)'
    BY <1>4, <2>3 DEF Stands, Count, Working
  <2>4. ASSUME Claims(p) PROVE Count(p, n)'
    <3>1. p \notin Clients /\ n = 0 /\ pc'[p] = "lockWallet" /\ Len(batch'[p]) < BatchSize
      BY <1>4, <1>5, <2>4 DEF Claims, Count
    <3>2. QED
      BY <1>5, <3>1 DEF Count
  <2>5. ASSUME Looks(p) PROVE Count(p, n)'
    <3>1. /\ pc[p] \in {"resolve", "reversal"} /\ pc'[p] \in {"reversal", "settle"}
          /\ batch'[p] = batch[p]
      BY <2>5 DEF Looks, SkipReference, ResolveReference, HasSuccessfulReversal, Conclude, Goto,
                  TypeInv, TypeOK
    <3>2. QED
      BY <1>4, <3>1 DEF Count, Working
  <2>6. ASSUME Searches(p) PROVE Count(p, n)'
    BY <1>4, <1>5, <2>6 DEF Searches, Count
  <2>7. Count(p, n)'
    BY <1>8, <2>3, <2>4, <2>5, <2>6
  <2>8. QED
    BY <2>2, <2>7 DEF Chained
<1>9. QED
  BY <1>1, <1>6, <1>7, <1>8, StepOf DEF Steps

LEMMA SerialStep ==
    ASSUME TypeInv, TypeInv', RowInv, LedgerInv, EffectInv, ReversalInv, SerialInv, [Next]_vars
    PROVE  SerialInv'
<1>1. WaitingPlain /\ \A p \in Procs : Ready(p) /\ Chained(p)
  BY DEF SerialInv
<1>2. WaitingPlain'
  BY <1>1, WaitingPlainStep
<1>3. ASSUME NEW p \in Procs PROVE Ready(p)' /\ Chained(p)'
  BY <1>1, ReadyStep, ChainedStep
<1>4. QED
  BY <1>2, <1>3 DEF SerialInv

LEMMA SerialInductive ==
    Spec => [](TypeInv /\ RowInv /\ LedgerInv /\ EffectInv /\ ReversalInv /\ SerialInv)
<1>1. Init => SerialInv
  BY InitSerial
<1>2. TypeInv /\ TypeInv' /\ RowInv /\ LedgerInv /\ EffectInv /\ ReversalInv /\ SerialInv
      /\ [Next]_vars => SerialInv'
  BY SerialStep
<1>3. QED
  BY <1>1, <1>2, ReversalInductive, PTL DEF Spec

-----------------------------------------------------------------------------
(* What the committed tables and a part of p's work show together is a     *)
(* state of Settlement, and a link is a step on it.                        *)

Seen(g) ==
    [wallets  |-> [w \in Wallets |->
        IF g.ws[w] # None THEN Merged(wallets[w], g.ws[w]) ELSE wallets[w]],
     outcomes |-> [e \in Exts |-> OutcomeOf(RowSeen(g.rows, e))],
     events   |-> [t \in EventTypes |-> [e \in Exts |->
        outbox[t][e] + IF <<t, e>> \in g.events THEN 1 ELSE 0]]]

LEMMA ToldRow ==
    ASSUME NEW row \in Rows
    PROVE  /\ OutcomeOf(row) # None /\ row # None
           /\ OutcomeOf(row) = [req |-> row.req, status |-> row.status, code |-> row.code,
                                ref |-> row.ref, balance |-> row.balance]
           /\ OutcomeOf(row).req = row.req /\ OutcomeOf(row).status = row.status
<1>1. row # None
  BY NoneAssumption
<1>2. OutcomeOf(row) = [req |-> row.req, status |-> row.status, code |-> row.code,
                        ref |-> row.ref, balance |-> row.balance]
  BY <1>1 DEF OutcomeOf
<1>3. OutcomeOf(row) \in Outcomes
  BY <1>2 DEF Rows, Outcomes
<1>4. QED
  BY <1>1, <1>2, <1>3, OutcomeAssumption

LEMMA SeenRow ==
    ASSUME TypeInv, NEW g \in WorkSpace, NEW e \in Exts
    PROVE  /\ RowSeen(g.rows, e) \in Rows \cup {None}
           /\ Seen(g).outcomes[e] = OutcomeOf(RowSeen(g.rows, e))
           /\ Seen(g).outcomes[e] = None <=> RowSeen(g.rows, e) = None
           /\ RowSeen(g.rows, e) # None =>
                /\ Seen(g).outcomes[e].req = RowSeen(g.rows, e).req
                /\ Seen(g).outcomes[e].status = RowSeen(g.rows, e).status
<1>1. RowSeen(g.rows, e) \in Rows \cup {None}
  BY DEF RowSeen, WorkSpace, TypeInv, TypeOK
<1>2. Seen(g).outcomes[e] = OutcomeOf(RowSeen(g.rows, e))
  BY DEF Seen
<1>3. CASE RowSeen(g.rows, e) = None
  BY <1>1, <1>2, <1>3 DEF OutcomeOf
<1>4. CASE RowSeen(g.rows, e) \in Rows
  BY <1>1, <1>2, <1>4, ToldRow
<1>5. QED
  BY <1>1, <1>3, <1>4

LEMMA VerdictSeen ==
    ASSUME TypeInv, NEW p, NEW g \in WorkSpace, NEW a \in Attempts, Looked(p, g.rows, a.req, a.look)
    PROVE  /\ Serial!Verdict(Seen(g), a) = VerdictOf(g.rows, a.req, a.look)
           /\ VerdictOf(g.rows, a.req, a.look) = "resolved" =>
                Serial!Movement(Seen(g), a.req) = DirOf(g.rows, a.req)
<1>0. PICK s, r, look : s = Seen(g) /\ r = a.req /\ look = a.look
  OBVIOUS
<1>1. r \in Requests /\ (NeedsReference(r) <=> Serial!NeedsReference(r))
  BY <1>0 DEF Attempts, NeedsReference, Serial!NeedsReference
<1>2. Serial!AlreadyUndone(s, r) <=> Undone(g.rows, r)
  <2>1. \A e \in Exts : /\ s.outcomes[e] # None <=> RowSeen(g.rows, e) # None
                        /\ RowSeen(g.rows, e) # None =>
                             /\ s.outcomes[e].req = RowSeen(g.rows, e).req
                             /\ s.outcomes[e].status = RowSeen(g.rows, e).status
    BY <1>0, SeenRow
  <2>2. QED
    BY <2>1 DEF Serial!AlreadyUndone, Undone
<1>3. CASE LooksUp(r) /\ look = "found"
  <2>1. r.ref \in Exts /\ RowSeen(g.rows, r.ref) # None
    BY <1>0, <1>1, <1>3, RequestType DEF Looked, LooksUp, NeedsReference
  <2>2. /\ s.outcomes[r.ref].req = RowSeen(g.rows, r.ref).req
        /\ s.outcomes[r.ref].status = RowSeen(g.rows, r.ref).status
    BY <1>0, <2>1, SeenRow
  <2>3. Serial!ReferenceVerdict(r, s.outcomes[r.ref]) = ReferenceVerdict(r, RowSeen(g.rows, r.ref))
    BY <2>2 DEF Serial!ReferenceVerdict, ReferenceVerdict, Serial!MatchesReference, MatchesReference,
                Serial!ReferenceKinds, ReferenceKinds
  <2>4. Serial!Verdict(s, a) = VerdictOf(g.rows, r, look)
    BY <1>0, <1>1, <1>2, <1>3, <2>3 DEF Serial!Verdict, VerdictOf, LooksUp
  <2>5. Serial!Movement(s, r) = DirOf(g.rows, r)
    BY <1>1, <1>3, <2>2 DEF Serial!Movement, DirOf, Serial!Direction, Direction, LooksUp
  <2>6. QED
    BY <1>0, <2>4, <2>5
<1>4. CASE LooksUp(r) /\ look # "found"
  <2>1. Serial!Verdict(s, a) = VerdictOf(g.rows, r, look) /\ VerdictOf(g.rows, r, look) # "resolved"
    BY <1>0, <1>1, <1>4 DEF Serial!Verdict, VerdictOf, LooksUp
  <2>2. QED
    BY <1>0, <2>1
<1>5. CASE ~LooksUp(r)
  <2>1. Serial!Verdict(s, a) = VerdictOf(g.rows, r, look)
    BY <1>0, <1>1, <1>5 DEF Serial!Verdict, VerdictOf, LooksUp
  <2>2. VerdictOf(g.rows, r, look) = "resolved" => ~NeedsReference(r)
    BY <1>5 DEF VerdictOf, LooksUp
  <2>3. ~NeedsReference(r) => Serial!Movement(s, r) = DirOf(g.rows, r)
    BY <1>1 DEF Serial!Movement, DirOf, Serial!Direction, Direction
  <2>4. QED
    BY <1>0, <2>1, <2>2, <2>3
<1>6. QED
  BY <1>3, <1>4, <1>5

Stores(g, h, r, row, wallet, types) ==
    /\ g \in WorkSpace /\ h \in WorkSpace /\ r \in Requests
    /\ r.wallet \in Wallets /\ r.ext \in Exts /\ \A t \in EventTypes : <<t, r.ext>> \notin g.events
    /\ row \in Rows /\ wallet \in WalletSpace /\ types \in SUBSET EventTypes
    /\ row.req = r /\ row.balance = wallet.balance
    /\ h.ws = [g.ws EXCEPT ![r.wallet] = wallet]
    /\ h.rows = [g.rows EXCEPT ![r.ext] = row]
    /\ h.events = g.events \cup (types \X {r.ext})

LEMMA StoreSeen ==
    ASSUME TypeInv, NEW g, NEW h, NEW r, NEW row, NEW wallet, NEW types,
           Stores(g, h, r, row, wallet, types),
           NEW status, NEW code, NEW ref, status = row.status, code = row.code, ref = row.ref,
           NEW full, full = Merged(wallets[r.wallet], wallet)
    PROVE  Serial!Store(Seen(g), r, status, code, ref, full, types) = Seen(h)
<1> USE DEF Stores
<1>1. /\ g.ws \in [Wallets -> WalletSpace \cup {None}] /\ g.rows \in [Exts -> Rows \cup {None}]
      /\ outbox \in [EventTypes -> [Exts -> Nat]]
  BY DEF WorkSpace, TypeInv, TypeOK
<1>2. wallet # None /\ row # None /\ full.balance = wallet.balance
  BY NoneAssumption DEF Merged
<1>3. [Seen(g).wallets EXCEPT ![r.wallet] = full] = Seen(h).wallets
  BY <1>1, <1>2 DEF Seen
<1>4. [Seen(g).outcomes EXCEPT ![r.ext] =
         [req |-> r, status |-> status, code |-> code, ref |-> ref, balance |-> full.balance]]
        = Seen(h).outcomes
  <2>1. OutcomeOf(row) =
          [req |-> r, status |-> status, code |-> code, ref |-> ref, balance |-> full.balance]
    BY <1>2, ToldRow
  <2>2. \A e \in Exts : RowSeen(h.rows, e) = IF e = r.ext THEN row ELSE RowSeen(g.rows, e)
    BY <1>1, <1>2 DEF RowSeen
  <2>3. QED
    BY <2>1, <2>2 DEF Seen
<1>5. [type \in Serial!EventTypes |-> [Seen(g).events[type] EXCEPT ![r.ext] = @ + IF type \in types THEN 1 ELSE 0]]
        = Seen(h).events
  <2>1. Serial!EventTypes = EventTypes
    BY DEF Serial!EventTypes, EventTypes
  <2>2. ASSUME NEW t \in EventTypes
        PROVE  [Seen(g).events[t] EXCEPT ![r.ext] = @ + IF t \in types THEN 1 ELSE 0] = Seen(h).events[t]
    <3>1. Seen(g).events[t] = [e \in Exts |-> outbox[t][e] + IF <<t, e>> \in g.events THEN 1 ELSE 0]
      BY DEF Seen
    <3>2. Seen(h).events[t] = [e \in Exts |-> outbox[t][e] + IF <<t, e>> \in h.events THEN 1 ELSE 0]
      BY DEF Seen
    <3>3. \A e \in Exts : e # r.ext => (<<t, e>> \in h.events <=> <<t, e>> \in g.events)
      OBVIOUS
    <3>4. /\ <<t, r.ext>> \in h.events <=> t \in types
          /\ <<t, r.ext>> \notin g.events /\ outbox[t][r.ext] \in Nat
      BY <1>1
    <3>5. PICK before, once : /\ before = Seen(g).events[t]
                              /\ once = IF t \in types THEN 1 ELSE 0
      OBVIOUS
    <3>6. before[r.ext] = outbox[t][r.ext] /\ before[r.ext] + once = Seen(h).events[t][r.ext]
      BY <3>1, <3>2, <3>4, <3>5
    <3>7. \A e \in Exts : e # r.ext => before[e] = Seen(h).events[t][e]
      BY <3>1, <3>2, <3>3, <3>5
    <3>8. [before EXCEPT ![r.ext] = @ + once] = Seen(h).events[t]
      <4>1. before = [e \in Exts |-> before[e]] /\ Seen(h).events[t] = [e \in Exts |-> Seen(h).events[t][e]]
        BY <3>1, <3>2, <3>5
      <4>2. [before EXCEPT ![r.ext] = before[r.ext] + once] =
              [e \in Exts |-> IF e = r.ext THEN before[r.ext] + once ELSE before[e]]
        BY <4>1
      <4>3. QED
        BY <3>6, <3>7, <4>1, <4>2
    <3>9. QED
      BY <3>5, <3>8
  <2>3. Seen(h).events = [t \in EventTypes |-> Seen(h).events[t]]
    BY DEF Seen
  <2>4. QED
    BY <2>1, <2>2, <2>3
<1>6. Seen(h) = [wallets |-> Seen(h).wallets, outcomes |-> Seen(h).outcomes, events |-> Seen(h).events]
  BY DEF Seen
<1>7. QED
  BY <1>3, <1>4, <1>5, <1>6 DEF Serial!Store

LEMMA LinkSettles ==
    ASSUME TypeInv, NEW p \in Procs, NEW g \in WorkSpace, NEW h \in WorkSpace, NEW a \in Attempts,
           Link(p, g, h, a), p \in Clients <=> Serial!New(Seen(g), a.req),
           a.look = "last" => Serial!Waiting(Seen(g), a.req)
    PROVE  Serial!CanFind(Seen(g), a.req, a.look) /\ Serial!Settle(Seen(g), a) = Seen(h)
<1>0. PICK s, r, look, v, dir, copy, full :
        /\ s = Seen(g) /\ r = a.req /\ look = a.look
        /\ v = VerdictOf(g.rows, r, look) /\ dir = DirOf(g.rows, r)
        /\ copy = g.ws[r.wallet] /\ full = Merged(wallets[r.wallet], copy)
  OBVIOUS
<1>1. /\ r \in Requests /\ r.ext \in Exts /\ r.amount \in Nat /\ r.kind \in ExternalKinds
      /\ r.wallet \in Wallets /\ copy \in WalletSpace
      /\ \A t \in EventTypes : <<t, r.ext>> \notin g.events
      /\ Looked(p, g.rows, r, look) /\ look \in {"found", "missing", "last"}
  BY <1>0, RequestType DEF Attempts, Link, WorkSpace
<1>2. Serial!CanFind(s, r, look)
  <2>1. LooksUp(r) <=> Serial!NeedsReference(r) /\ r.ref # r.ext
    BY DEF LooksUp, NeedsReference, Serial!NeedsReference
  <2>2. CASE LooksUp(r)
    <3>1. r.ref \in Exts
      BY <1>1, <2>2, RequestType DEF LooksUp, NeedsReference
    <3>2. /\ s.outcomes[r.ref] # None <=> RowSeen(g.rows, r.ref) # None
          /\ RowSeen(g.rows, r.ref) # None => s.outcomes[r.ref].req = RowSeen(g.rows, r.ref).req
      BY <1>0, <3>1, SeenRow
    <3>3. QED
      BY <1>0, <1>1, <2>1, <2>2, <3>2 DEF Serial!CanFind, Serial!MayBeMissing, Looked
  <2>3. CASE ~LooksUp(r)
    BY <1>0, <1>1, <2>1, <2>3 DEF Serial!CanFind, Looked
  <2>4. QED
    BY <2>2, <2>3
<1>3. /\ Serial!Verdict(s, a) = v
      /\ v = "resolved" => Serial!Movement(s, r) = dir
  BY <1>0, <1>1, VerdictSeen
<1>4. s.wallets[r.wallet] = full /\ wallets[r.wallet] \in WalletSpace /\ full \in WalletSpace
      /\ full.balance = copy.balance
  <2>1. wallets[r.wallet] \in WalletSpace /\ copy # None
    BY <1>1, NoneAssumption DEF TypeInv, TypeOK
  <2>2. full \in WalletSpace
    BY <1>0, <1>1, <2>1, MergedType
  <2>3. QED
    BY <1>0, <1>1, <2>1, <2>2 DEF Seen, Merged
<1>5. PICK row \in Rows, wallet \in WalletSpace, types \in SUBSET EventTypes :
        /\ Writes(a, v, dir, copy, p \in Clients, row, wallet, types)
        /\ h.ws = [g.ws EXCEPT ![r.wallet] = wallet]
        /\ h.rows = [g.rows EXCEPT ![r.ext] = row]
        /\ h.events = g.events \cup (types \X {r.ext})
  BY <1>0 DEF Link
<1>6. row.req = r /\ row.balance = wallet.balance
  BY <1>0, <1>5 DEF Writes
<1>7. PICK after : after = Merged(wallets[r.wallet], wallet)
  OBVIOUS
<1>8. Serial!Store(s, r, row.status, row.code, row.ref, after, types) = Seen(h)
  <2>1. PICK status, code, ref : status = row.status /\ code = row.code /\ ref = row.ref
    OBVIOUS
  <2>2. Stores(g, h, r, row, wallet, types)
    BY <1>1, <1>5, <1>6 DEF Stores
  <2>3. Serial!Store(Seen(g), r, status, code, ref, after, types) = Seen(h)
    BY <1>7, <2>1, <2>2, StoreSeen
  <2>4. QED
    BY <1>0, <2>1, <2>3
<1>9. wallet = copy => after = full
  BY <1>0, <1>7
<1> DEFINE Settles == Serial!Settle(s, a) = Serial!Store(s, r, row.status, row.code, row.ref, after, types)
<1>10. CASE /\ v = "REFERENCE_PENDING" /\ r.kind \in Reversals /\ look = "last"
            /\ row.status = "REJECTED" /\ row.code = "REFERENCE_NOT_FOUND" /\ row.ref = None
            /\ wallet = copy /\ types = {"Rejected"}
  <2>1. Settles
    BY <1>0, <1>3, <1>4, <1>9, <1>10 DEF Serial!Settle, Serial!Reversals, Reversals
  <2>2. QED
    BY <1>0, <1>2, <1>8, <2>1
<1>11. CASE /\ v = "REFERENCE_PENDING" /\ r.kind \in Reversals /\ look = "missing"
            /\ row.status = "PENDING_REFERENCE" /\ row.code = v /\ row.ref = None
            /\ wallet = copy /\ types = IF p \in Clients THEN {"PendingReference"} ELSE {}
  <2>1. types = IF Serial!New(s, r) THEN {"PendingReference"} ELSE {}
    BY <1>0, <1>11
  <2>2. Settles
    BY <1>0, <1>3, <1>4, <1>9, <1>11, <2>1 DEF Serial!Settle, Serial!Reversals, Reversals
  <2>3. QED
    BY <1>0, <1>2, <1>8, <2>2
<1>12. CASE /\ v # "resolved" /\ (v = "REFERENCE_PENDING" => r.kind \notin Reversals)
            /\ row.status = "REJECTED" /\ row.code = v /\ row.ref = None
            /\ wallet = copy /\ types = {"Rejected"}
  <2>1. v = "REFERENCE_PENDING" => NeedsReference(r)
    BY <1>0 DEF VerdictOf, ReferenceVerdict
  <2>2. v = "REFERENCE_PENDING" => r.kind = "WIN"
    BY <1>12, <2>1 DEF NeedsReference, Reversals
  <2>3. Settles
    BY <1>0, <1>3, <1>4, <1>9, <1>12, <2>2 DEF Serial!Settle, Serial!Reversals, Reversals
  <2>4. QED
    BY <1>0, <1>2, <1>8, <2>3
<1>13. CASE /\ v = "resolved" /\ Financial(r.kind) /\ ~Accepts(copy.balance, dir, r.amount)
            /\ row.status = "REJECTED" /\ row.code = RefusalCode(r.kind)
            /\ row.ref = IF NeedsReference(r) THEN r.ref ELSE None
            /\ wallet = copy /\ types = {"Rejected"}
  <2>1. /\ Serial!Financial(r.kind) /\ ~Serial!Accepts(full.balance, Serial!Movement(s, r), r.amount)
        /\ Serial!RefusalCode(r.kind) = row.code
        /\ row.ref = IF Serial!NeedsReference(r) THEN r.ref ELSE None
    BY <1>3, <1>4, <1>13 DEF Serial!Financial, Financial, Serial!Accepts, Accepts, Serial!RefusalCode, RefusalCode,
                             Serial!Reversals, Reversals, Serial!NeedsReference, NeedsReference
  <2>2. Settles
    BY <1>0, <1>3, <1>4, <1>9, <1>13, <2>1 DEF Serial!Settle
  <2>3. QED
    BY <1>0, <1>2, <1>8, <2>2
<1>14. CASE /\ v = "resolved" /\ ~Financial(r.kind)
            /\ row.status = "PROCESSED" /\ row.code = None
            /\ row.ref = IF NeedsReference(r) THEN r.ref ELSE None
            /\ wallet = copy /\ types = {"Processed"}
  <2>1. ~Serial!Financial(r.kind) /\ row.ref = IF Serial!NeedsReference(r) THEN r.ref ELSE None
    BY <1>14 DEF Serial!Financial, Financial, Serial!NeedsReference, NeedsReference
  <2>2. Settles
    BY <1>0, <1>3, <1>4, <1>9, <1>14, <2>1 DEF Serial!Settle
  <2>3. QED
    BY <1>0, <1>2, <1>8, <2>2
<1>15. CASE /\ v = "resolved" /\ Financial(r.kind) /\ Accepts(copy.balance, dir, r.amount)
            /\ row.status = "PROCESSED" /\ row.code = None
            /\ row.ref = IF NeedsReference(r) THEN r.ref ELSE None
            /\ wallet = Move(copy, r.ext, dir, r.amount)
            /\ types = {"Processed", "BalanceChanged"}
  <2>1. /\ Serial!Financial(r.kind) /\ Serial!Accepts(full.balance, Serial!Movement(s, r), r.amount)
        /\ row.ref = IF Serial!NeedsReference(r) THEN r.ref ELSE None
    BY <1>3, <1>4, <1>15 DEF Serial!Financial, Financial, Serial!Accepts, Accepts, Serial!NeedsReference, NeedsReference
  <2>2. dir \in {"DEBIT", "CREDIT"}
    BY <1>0 DEF DirOf, Direction
  <2>3. after = Move(full, r.ext, dir, r.amount)
    <3>1. PICK committed : committed = wallets[r.wallet]
      OBVIOUS
    <3>2. /\ committed \in WalletSpace /\ full = Merged(committed, copy)
          /\ after = Merged(committed, Move(copy, r.ext, dir, r.amount))
      BY <1>0, <1>4, <1>7, <1>15, <3>1
    <3>3. QED
      BY <1>1, <2>2, <3>2, MoveMerged
  <2>4. after = Serial!Move(full, r.ext, Serial!Movement(s, r), r.amount)
    BY <1>3, <1>15, <2>3 DEF Move, Serial!Move, Entry, Serial!Entry, BalanceAfter, Serial!BalanceAfter
  <2>5. Settles
    BY <1>0, <1>3, <1>4, <1>15, <2>1, <2>4 DEF Serial!Settle
  <2>6. QED
    BY <1>0, <1>2, <1>8, <2>5
<1>16. QED
  BY <1>0, <1>5, <1>10, <1>11, <1>12, <1>13, <1>14, <1>15 DEF Writes

-----------------------------------------------------------------------------
(* Every commit is a step of Settlement.                                   *)

LEMMA SeenNothing ==
    ASSUME TypeInv, NEW p \in Procs
    PROVE  Seen(NoWork(p)) = Serial!State
<1>1. [w \in Wallets |-> IF NoWork(p).ws[w] # None THEN Merged(wallets[w], NoWork(p).ws[w]) ELSE wallets[w]]
        = wallets
  <2>1. ASSUME NEW w \in Wallets
        PROVE  (IF NoWork(p).ws[w] # None THEN Merged(wallets[w], NoWork(p).ws[w]) ELSE wallets[w]) = wallets[w]
    BY MergedCopy DEF NoWork
  <2>2. QED
    BY <2>1 DEF TypeInv, TypeOK
<1>2. \A e \in Exts : RowSeen(NoWork(p).rows, e) = wagers[e]
  BY DEF NoWork, RowSeen
<1>3. [t \in EventTypes |-> [e \in Exts |->
         outbox[t][e] + IF <<t, e>> \in NoWork(p).events THEN 1 ELSE 0]] = outbox
  <2>1. NoWork(p).events = {} /\ outbox \in [EventTypes -> [Exts -> Nat]]
    BY DEF NoWork, TypeInv, TypeOK
  <2>2. \A t \in EventTypes, e \in Exts : outbox[t][e] \in Nat
    BY <2>1
  <2>3. ASSUME NEW t \in EventTypes
        PROVE  [e \in Exts |-> outbox[t][e] + IF <<t, e>> \in NoWork(p).events THEN 1 ELSE 0] = outbox[t]
    BY <2>1, <2>2
  <2>4. QED
    BY <2>1, <2>3
<1>4. QED
  BY <1>1, <1>2, <1>3 DEF Seen, Serial!State, Committed

LEMMA SeenAll ==
    ASSUME TypeInv, NEW p \in Procs, Commit(p)
    PROVE  Serial!Become(Seen(Work(p)))
<1>1. wallets' = Seen(Work(p)).wallets
  BY DEF Commit, Seen, Work
<1>2. Committed' = Seen(Work(p)).outcomes
  <2>1. \A e \in Exts : wagers'[e] = RowSeen(workWagers[p], e)
    BY DEF Commit, View, RowSeen
  <2>2. Work(p).rows = workWagers[p]
    BY DEF Work
  <2>3. \A e \in Exts : OutcomeOf(wagers'[e]) = OutcomeOf(RowSeen(Work(p).rows, e))
    BY <2>1, <2>2
  <2>4. Committed' = [e \in Exts |-> OutcomeOf(wagers'[e])]
    BY DEF Committed, OutcomeOf
  <2>5. QED
    BY <2>3, <2>4 DEF Seen
<1>3. outbox' = Seen(Work(p)).events
  BY DEF Commit, Seen, Work
<1>4. QED
  BY <1>1, <1>2, <1>3 DEF Serial!Become

\* Nothing like the request of a committing client is stored.
LEMMA ClientNew ==
    ASSUME TypeInv, RowInv, NEW c \in Clients, pc[c] = "commit"
    PROVE  Serial!New(Serial!State, Req(c))
<1>1. ASSUME NEW e \in Exts, Committed[e] # None PROVE e # Req(c).ext /\ Committed[e].req.key # Req(c).key
  <2>1. wagers[e] # None /\ wagers[e] \in Rows
    BY <1>1 DEF Committed, OutcomeOf, TypeInv, TypeOK
  <2>2. Committed[e].req = wagers[e].req
    BY <2>1, ToldRow DEF Committed
  <2>3. e # Req(c).ext /\ wagers[e].req.key # Req(c).key
    BY <2>1 DEF RowInv, ClientsApart, Inserting
  <2>4. QED
    BY <2>2, <2>3
<1>2. QED
  BY <1>1 DEF Serial!New, Serial!State

\* The request of a worker's attempt waits.
LEMMA WorkerWaits ==
    ASSUME TypeInv, RowInv, NEW w \in Workers, NEW g \in WorkSpace, NEW r \in Requests, r.ext \in Exts,
           g.rows[r.ext] = None, workWagers[w][r.ext] # None, workWagers[w][r.ext].req = r
    PROVE  Serial!Waiting(Seen(g), r) /\ ~Serial!New(Seen(g), r)
<1>1. w \in Procs
  BY DEF Procs
<1>2. /\ wagers[r.ext] # None /\ wagers[r.ext].status = "PENDING_REFERENCE"
      /\ wagers[r.ext].req = r
  BY <1>1, WrittenRows, WageringAssumption
<1>3. RowSeen(g.rows, r.ext) = wagers[r.ext]
  BY DEF RowSeen
<1>4. /\ Seen(g).outcomes[r.ext] # None
      /\ Seen(g).outcomes[r.ext].req = r
      /\ Seen(g).outcomes[r.ext].status = "PENDING_REFERENCE"
  BY <1>2, <1>3, SeenRow
<1>5. QED
  BY <1>4 DEF Serial!Waiting, Serial!New

LEMMA ClientSettles ==
    ASSUME TypeInv, RowInv, ReversalInv, NEW c \in Clients, Commit(c), Chained(c)
    PROVE  \E r \in Requests : Serial!Accept(r)
<1>1. c \in Procs /\ pc[c] = "commit" /\ c \notin Workers
  BY WageringAssumption DEF Commit, Procs
<1>2. PICK a, g : Chain(c, 1, a, g)
  BY <1>1 DEF Chained, Count
<1>3. PICK b, g0, g1 : b = a[1] /\ g0 = g[0] /\ g1 = g[1]
  OBVIOUS
<1>4. /\ b \in Attempts /\ b.req \in Requests /\ b.req.ext \in Exts /\ b.req.wallet \in Wallets
      /\ g0 \in WorkSpace /\ g1 \in WorkSpace /\ Link(c, g0, g1, b)
  <2>1. 1 \in 1..1 /\ 1 - 1 = 0
    OBVIOUS
  <2>2. QED
    BY <1>1, <1>2, <1>3, <2>1, ChainLinks
<1>5. g0 = NoWork(c) /\ g1 = Work(c)
  BY <1>2, <1>3 DEF Chain
<1>6. /\ workWagers[c][b.req.ext] # None /\ workWagers[c][b.req.ext].req = b.req
      /\ b.look # "last"
  BY <1>1, <1>2, <1>3 DEF Chain
<1>7. b.req = Req(c)
  BY <1>1, <1>4, <1>6 DEF RowInv, WritesOwned
<1>8. Serial!New(Serial!State, b.req) /\ Seen(g0) = Serial!State
  BY <1>1, <1>5, <1>7, ClientNew, SeenNothing
<1>9. Serial!CanFind(Serial!State, b.req, b.look) /\ Serial!Settle(Serial!State, b) = Seen(g1)
  BY <1>1, <1>4, <1>6, <1>8, LinkSettles
<1>10. Serial!Become(Serial!Settle(Serial!State, b))
  BY <1>1, <1>5, <1>9, SeenAll
<1>11. b = [req |-> b.req, look |-> b.look] /\ b.look \in Serial!Looks
  BY <1>4 DEF Attempts, Serial!Looks
<1>12. Serial!ValidRequest(b.req)
  <2>1. record[c] # None
    BY <1>1 DEF TypeInv, ControlInv
  <2>2. ValidRequest(Req(c))
    BY <1>1, <2>1 DEF ReversalInv, RequestsValid
  <2>3. QED
    BY <1>7, <2>2 DEF Serial!ValidRequest, ValidRequest, Serial!ExternalKinds, ExternalKinds, Serial!Reversals, Reversals
<1>13. Serial!Accept(b.req)
  BY <1>4, <1>8, <1>9, <1>10, <1>11, <1>12 DEF Serial!Accept
<1>14. QED
  BY <1>4, <1>13

\* A recursive function is determined by its equation.
LEMMA LeastNumber ==
    ASSUME NEW T, T \subseteq Nat, T # {}
    PROVE  \E least \in T : \A k \in T : least <= k
<1> DEFINE less == OpToRel(<, Nat)
<1>1. IsWellFoundedOn(less, Nat)
  BY NatLessThanWellFounded
<1>2. \A i, j \in Nat : i < j => <<i, j>> \in less
  BY DEF OpToRel
<1> HIDE DEF less
<1>3. \E least \in T : \A k \in T : ~ (<<k, least>> \in less)
  BY <1>1, WFMin, Zenon
<1>4. PICK least \in T : \A k \in T : ~ (<<k, least>> \in less)
  BY <1>3
<1>5. ASSUME NEW k \in T PROVE least <= k
  <2>1. k \in Nat /\ least \in Nat /\ ~ (k < least)
    BY <1>2, <1>4
  <2>2. QED
    BY <2>1
<1>6. QED
  BY <1>5

Settling(f, n, b) ==
    /\ f = [i \in 0..n |-> f[i]]
    /\ \A i \in 0..n : f[i] = IF i = 0 THEN Serial!State ELSE Serial!Settle(f[i - 1], b[i])

LEMMA SettledOneWay ==
    ASSUME NEW n \in Nat, NEW b, NEW f, NEW h, Settling(f, n, b), Settling(h, n, b)
    PROVE  f = h
<1> USE DEF Settling
<1> DEFINE differ == {i \in 0..n : f[i] # h[i]}
<1>1. ASSUME differ # {} PROVE FALSE
  <2>1. differ \subseteq Nat
    OBVIOUS
  <2> HIDE DEF differ
  <2>2. PICK least \in differ : \A k \in differ : least <= k
    BY <1>1, <2>1, LeastNumber
  <2>3. least \in 0..n /\ f[least] # h[least]
    BY <2>2 DEF differ
  <2>4. least # 0
    BY <2>3
  <2>5. least - 1 \in 0..n /\ ~ (least <= least - 1)
    BY <2>3, <2>4
  <2>6. f[least - 1] = h[least - 1]
    BY <2>2, <2>5 DEF differ
  <2>7. QED
    BY <2>3, <2>4, <2>6
<1>2. QED
  BY <1>1

\* The attempts of a committing worker, one after the other.
LEMMA WorkerSettles ==
    ASSUME TypeInv, RowInv, NEW w \in Workers, Commit(w), Chained(w)
    PROVE  Serial!Retry
<1>1. w \in Procs /\ pc[w] = "commit" /\ w \notin Clients
  BY WageringAssumption DEF Commit, Procs
<1>2. PICK n \in Nat : Count(w, n) /\ \E a, g : Chain(w, n, a, g)
  BY DEF Chained
<1>3. PICK b, g : Chain(w, n, b, g)
  BY <1>2
<1>4. n \in 1..BatchSize
  <2>1. Count(w, n)
    BY <1>2
  <2>2. PICK k : k = Len(batch[w])
    OBVIOUS
  <2>3. k \in Nat /\ n + k <= BatchSize /\ n # 0 /\ BatchSize \in Nat
    BY <1>1, <2>1, <2>2, WageringAssumption DEF Count, TypeInv, TypeOK
  <2>4. QED
    BY <2>3
<1>5. /\ b \in [1..n -> Attempts] /\ g[0] = NoWork(w) /\ g[n] = Work(w) /\ Len(b) = n /\ DOMAIN b = 1..n
      /\ \A i, j \in 1..n : b[i].req = b[j].req => i = j
  BY <1>3 DEF Chain
<1>6. ASSUME NEW i \in 1..n
      PROVE  /\ Serial!CanFind(Seen(g[i - 1]), b[i].req, b[i].look)
             /\ Serial!Settle(Seen(g[i - 1]), b[i]) = Seen(g[i])
             /\ Serial!Waiting(Serial!State, b[i].req)
             /\ i \in 0..n /\ i - 1 \in 0..n
  <2>1. PICK c, g1, g2 : c = b[i] /\ g1 = g[i - 1] /\ g2 = g[i]
    OBVIOUS
  <2>2. /\ c \in Attempts /\ c.req \in Requests /\ c.req.ext \in Exts
        /\ g1 \in WorkSpace /\ g2 \in WorkSpace /\ Link(w, g1, g2, c)
        /\ i \in 0..n /\ i - 1 \in 0..n
    BY <1>1, <1>3, <2>1, ChainLinks
  <2>3. workWagers[w][c.req.ext] # None /\ workWagers[w][c.req.ext].req = c.req
    BY <1>3, <2>1 DEF Chain
  <2>4. Serial!Waiting(Seen(g1), c.req) /\ ~Serial!New(Seen(g1), c.req)
    BY <2>2, <2>3, WorkerWaits DEF Link
  <2>5. Serial!CanFind(Seen(g1), c.req, c.look) /\ Serial!Settle(Seen(g1), c) = Seen(g2)
    BY <1>1, <2>2, <2>4, LinkSettles
  <2>6. NoWork(w) \in WorkSpace /\ NoWork(w).rows[c.req.ext] = None
    <3>1. 0 \in 0..n /\ g \in [0..n -> WorkSpace] /\ g[0] = NoWork(w)
      BY <1>3 DEF Chain
    <3>2. QED
      BY <2>2, <3>1 DEF NoWork
  <2>7. Serial!Waiting(Serial!State, c.req)
    BY <1>1, <2>2, <2>3, <2>6, WorkerWaits, SeenNothing
  <2>8. QED
    BY <2>1, <2>2, <2>5, <2>7
<1> DEFINE f == [i \in 0..n |-> Seen(g[i])]
<1>7. \A i \in 0..n : f[i] = Seen(g[i])
  OBVIOUS
<1>8. ASSUME NEW i \in 0..n
      PROVE  f[i] = IF i = 0 THEN Serial!State ELSE Serial!Settle(f[i - 1], b[i])
  <2>1. CASE i = 0
    BY <1>1, <1>5, <1>7, <2>1, SeenNothing
  <2>2. CASE i # 0
    <3>1. i \in 1..n
      BY <2>2
    <3>2. QED
      BY <1>6, <1>7, <2>2, <3>1
  <2>3. QED
    BY <2>1, <2>2
<1>9. f = [i \in 0..n |-> IF i = 0 THEN Serial!State ELSE Serial!Settle(f[i - 1], b[i])]
  <2>1. f = [i \in 0..n |-> f[i]]
    OBVIOUS
  <2> HIDE DEF f
  <2>2. QED
    BY <1>8, <2>1
<1> HIDE DEF f
<1> DEFINE after == CHOOSE h : h = [i \in 0..Len(b) |->
                       IF i = 0 THEN Serial!State ELSE Serial!Settle(h[i - 1], b[i])]
<1>10. after = f
  <2>1. after = [i \in 0..n |-> IF i = 0 THEN Serial!State ELSE Serial!Settle(after[i - 1], b[i])]
    BY <1>5, <1>9
  <2> HIDE DEF after
  <2>2. after = [i \in 0..n |-> after[i]]
    BY <2>1
  <2>3. \A i \in 0..n : after[i] = IF i = 0 THEN Serial!State ELSE Serial!Settle(after[i - 1], b[i])
    BY <2>1
  <2>4. f = [i \in 0..n |-> f[i]]
    BY <1>9
  <2>5. Settling(f, n, b) /\ Settling(after, n, b)
    BY <1>8, <2>2, <2>3, <2>4 DEF Settling
  <2>6. QED
    BY <1>2, <2>5, SettledOneWay
<1> HIDE DEF after
<1>11. b \in Serial!Batches
  <2>1. ASSUME NEW i \in 1..n PROVE b[i] \in [req : Serial!WaitingRequests, look : Serial!Looks]
    <3>1. b[i] \in Attempts /\ b[i].req \in Requests
      BY <1>5 DEF Attempts
    <3>2. b[i].req \in Serial!WaitingRequests
      BY <1>6, <3>1 DEF Serial!WaitingRequests
    <3>3. QED
      BY <3>1, <3>2 DEF Attempts, Serial!Looks
  <2>2. b \in [1..n -> [req : Serial!WaitingRequests, look : Serial!Looks]]
    BY <1>5, <2>1
  <2>3. QED
    BY <1>4, <1>5, <2>2 DEF Serial!Batches
<1>12. ASSUME NEW i \in DOMAIN b PROVE Serial!CanFind(after[i - 1], b[i].req, b[i].look)
  BY <1>5, <1>6, <1>7, <1>10
<1>13. Serial!Become(after[Len(b)])
  <2>1. after[Len(b)] = Seen(Work(w))
    BY <1>5, <1>7, <1>10
  <2>2. QED
    BY <1>1, <2>1, SeenAll
<1>14. QED
  BY <1>11, <1>12, <1>13 DEF Serial!Retry, after

LEMMA RefinementStep ==
    ASSUME TypeInv, RowInv, ReversalInv, SerialInv, [Next]_vars
    PROVE  Serial!Next \/ UNCHANGED Serial!vars
<1>1. ASSUME NEW p \in Procs, Commit(p) PROVE Serial!Next
  <2>1. Chained(p)
    BY DEF SerialInv
  <2>2. CASE p \in Clients
    BY <1>1, <2>1, <2>2, ClientSettles DEF Serial!Next
  <2>3. CASE p \in Workers
    BY <1>1, <2>1, <2>3, WorkerSettles DEF Serial!Next
  <2>4. QED
    BY <2>2, <2>3 DEF Procs
<1>2. CASE UNCHANGED <<wallets, outbox>> /\ \A p \in Procs : ~Commit(p)
  <2>1. \A e \in Exts : OutcomeOf(wagers'[e]) = OutcomeOf(wagers[e])
    BY <1>2, RowChanges
  <2>2. Committed' = [e \in Exts |-> OutcomeOf(wagers'[e])]
    BY DEF Committed, OutcomeOf
  <2>3. Committed' = Committed
    BY <2>1, <2>2 DEF Committed
  <2>4. QED
    BY <1>2, <2>3 DEF Serial!vars
<1>3. ASSUME NEW p \in Procs, SettleStep(p) PROVE UNCHANGED <<wallets, outbox>>
  BY <1>3, SettleShape, ContinueShape
<1>4. QED
  BY <1>1, <1>2, <1>3, StepKinds DEF db, LockWallet, MakeDue

LEMMA InitRefines == Init => Serial!Init
BY DEF Init, Serial!Init, Committed, OutcomeOf, Opening, EventTypes, Serial!EventTypes, Entry, Serial!Entry,
       BalanceAfter, Serial!BalanceAfter

\* Every commit of the wagering service settles one new request on the committed
\* state, or lets the rows of a worker's batch try again one after the other, and no
\* other step changes what is committed.
THEOREM WageringImplementsSettlement == Spec => ImplementsSettlement
<1>1. Init => Serial!Init
  BY InitRefines
<1>2. TypeInv /\ RowInv /\ LedgerInv /\ EffectInv /\ ReversalInv /\ SerialInv /\ [Next]_vars
        => [/\ outbox' # outbox \/ Committed' # Committed \/ wallets' # wallets
            /\ Serial!Next]_(Serial!vars)
  BY RefinementStep DEF Serial!vars
<1>3. QED
  BY <1>1, <1>2, SerialInductive, PTL DEF Spec, ImplementsSettlement, Serial!ChangingSpec

=============================================================================
