--------------------------- MODULE WalletCreation ---------------------------
(***************************************************************************)
(* POST /wallets: the creation of wallets by callers that run, fail and    *)
(* retry at the same time.  Create runs one database transaction: it       *)
(* inserts the wallet and, when the balance is not zero, the OPENING       *)
(* wager, its ledger entry and two outbox events.                          *)
(*                                                                         *)
(* The schema keeps (player, currency) unique; an insert waits for the     *)
(* uncommitted wallet of another transaction, then fails if that one was   *)
(* committed.  Only wallets in BRL pass the CHECK of the schema.           *)
(***************************************************************************)
EXTENDS Integers, FiniteSets

CONSTANTS
    Absent,
    Callers,    \* callers of the endpoint
    Tries,      \* requests a caller sends at most; each one gets a new wallet id
    Players,
    Currencies,
    Balances,   \* the initial balances asked for
    BRL

ASSUME WalletCreationAssumption ==
    /\ Tries \in Nat
    /\ Balances \subseteq Int
    /\ BRL \in Currencies
    /\ Absent \notin Callers

WalletIds   == Callers \X (1 .. Tries)   \* uuid.NewString: never the same twice
Parts == {"OPENING", "entry", "Processed", "BalanceChanged"}
Rows  == [player : Players, currency : Currencies, balance : Balances, parts : SUBSET Parts]

VARIABLES
    wallets,   \* per id the committed wallet with its other rows, or Absent
    work,      \* the rows a caller's transaction has inserted, or Absent
    request,   \* what a caller asks for, Absent while it asks for nothing
    pc,        \* where each caller is
    tries,     \* how many requests it has sent
    reply      \* what it is told

creationVars == <<wallets, work, request, pc, tries, reply>>

Requests == [player : Players \cup {""}, currency : Currencies, balance : Balances]
Replies  == {"CREATED", "CONFLICT", "INVALID", "ERROR"}
Labels   == {"idle", "wallet", "opening", "entry", "processed", "changed", "commit", "reply"}

\* An absent value is none of the values.
ASSUME AbsentAssumption == Absent \notin Rows /\ Absent \notin Requests /\ Absent \notin Replies

\* Every variable has its type; whoever has inserted something is in a
\* transaction.
CreationTypeOK ==
    /\ wallets \in [WalletIds -> Rows \cup {Absent}]
    /\ work \in [Callers -> Rows \cup {Absent}]
    /\ request \in [Callers -> Requests \cup {Absent}]
    /\ pc \in [Callers -> Labels]
    /\ tries \in [Callers -> 0 .. Tries]
    /\ reply \in [Callers -> Replies \cup {Absent}]
    /\ \A c \in Callers : work[c] # Absent <=> pc[c] \notin {"idle", "wallet", "reply"}

CreationInit ==
    /\ wallets = [i \in WalletIds |-> Absent]
    /\ work = [c \in Callers |-> Absent]
    /\ request = [c \in Callers |-> Absent]
    /\ pc = [c \in Callers |-> "idle"]
    /\ tries = [c \in Callers |-> 0]
    /\ reply = [c \in Callers |-> Absent]

-----------------------------------------------------------------------------

Goto(c, label) == pc' = [pc EXCEPT ![c] = label]

Id(c) == <<c, tries[c]>>   \* the id of the wallet c is creating

\* The transaction of c ends without effect and c is answered.
Refuse(c, answer) ==
    /\ work' = [work EXCEPT ![c] = Absent]
    /\ reply' = [reply EXCEPT ![c] = answer]
    /\ Goto(c, "reply")
    /\ UNCHANGED <<wallets, request, tries>>

Valid(r) == r.player # "" /\ r.balance >= 0

\* A request arrives; an invalid one is refused before any transaction.
Create(c, r) ==
    /\ pc[c] = "idle"
    /\ tries[c] < Tries
    /\ request' = [request EXCEPT ![c] = r]
    /\ tries' = [tries EXCEPT ![c] = @ + 1]
    /\ IF Valid(r)
       THEN Goto(c, "wallet") /\ UNCHANGED reply
       ELSE Goto(c, "reply") /\ reply' = [reply EXCEPT ![c] = "INVALID"]
    /\ UNCHANGED <<wallets, work>>

Same(row, r) == row # Absent /\ row.player = r.player /\ row.currency = r.currency

Taken(r) == \E i \in WalletIds : Same(wallets[i], r)

\* Fault: the insert does not wait for the uncommitted wallets of others.
NobodyInserting(c) == {}

\* The transactions whose uncommitted wallet has the same player and currency.
InsertConflicts(c) == {d \in Callers \ {c} : Same(work[d], request[c])}

NewRow(r) ==
    [player |-> r.player, currency |-> r.currency, balance |-> r.balance, parts |-> {}]

\* Fault: the wallet is inserted outside the transaction.
InsertWalletAtOnce(c) ==
    /\ pc[c] = "wallet"
    /\ InsertConflicts(c) = {}
    /\ request[c].currency = BRL /\ ~Taken(request[c])
    /\ wallets' = [wallets EXCEPT ![Id(c)] = NewRow(request[c])]
    /\ work' = [work EXCEPT ![c] = NewRow(request[c])]
    /\ Goto(c, IF request[c].balance = 0 THEN "commit" ELSE "opening")
    /\ UNCHANGED <<request, tries, reply>>

\* Fault: an uncommitted wallet of another caller is a conflict at once.
InsertWalletNoWait(c) ==
    /\ pc[c] = "wallet"
    /\ IF Taken(request[c]) \/ InsertConflicts(c) # {}
       THEN Refuse(c, "CONFLICT")
       ELSE /\ work' = [work EXCEPT ![c] = NewRow(request[c])]
            /\ Goto(c, IF request[c].balance = 0 THEN "commit" ELSE "opening")
            /\ UNCHANGED <<wallets, request, tries, reply>>

\* INSERT INTO wallets: waits, then fails at the CHECK or the unique index.
InsertWallet(c) ==
    LET r == request[c] IN
    /\ pc[c] = "wallet"
    /\ InsertConflicts(c) = {}
    /\ \/ /\ r.currency # BRL
          /\ Refuse(c, "ERROR")
       \/ /\ r.currency = BRL
          /\ Taken(r)
          /\ Refuse(c, "CONFLICT")
       \/ /\ r.currency = BRL
          /\ ~Taken(r)
          /\ work' = [work EXCEPT ![c] = NewRow(r)]
          /\ Goto(c, IF r.balance = 0 THEN "commit" ELSE "opening")
          /\ UNCHANGED <<wallets, request, tries, reply>>

\* One more row of the same transaction.
InsertPart(c, here, part, next) ==
    /\ pc[c] = here
    /\ work' = [work EXCEPT ![c].parts = @ \cup {part}]
    /\ Goto(c, next)
    /\ UNCHANGED <<wallets, request, tries, reply>>

InsertWager(c)     == InsertPart(c, "opening", "OPENING", "entry")
InsertLedger(c)    == InsertPart(c, "entry", "entry", "processed")
InsertProcessed(c) == InsertPart(c, "processed", "Processed", "changed")
InsertChanged(c)   == InsertPart(c, "changed", "BalanceChanged", "commit")

\* The commit; its answer may get lost between PostgreSQL and the service.
CommitWallet(c) ==
    /\ pc[c] = "commit"
    /\ wallets' = [wallets EXCEPT ![Id(c)] = work[c]]
    /\ work' = [work EXCEPT ![c] = Absent]
    /\ \E answer \in {"CREATED", "ERROR"} : reply' = [reply EXCEPT ![c] = answer]
    /\ Goto(c, "reply")
    /\ UNCHANGED <<request, tries>>

\* Fault: the transaction stays open when a statement fails.
FailsOpen(c) ==
    /\ pc[c] \notin {"idle", "reply"}
    /\ reply' = [reply EXCEPT ![c] = "ERROR"]
    /\ Goto(c, "reply")
    /\ UNCHANGED <<wallets, work, request, tries>>

\* A statement fails or the process dies: rolled back.
Abort(c) ==
    /\ pc[c] \notin {"idle", "reply"}
    /\ Refuse(c, "ERROR")

\* The caller gets the answer or misses it, and may send any request next.
ReceiveReply(c) ==
    /\ pc[c] = "reply"
    /\ Goto(c, "idle")
    /\ reply' = [reply EXCEPT ![c] = Absent]
    /\ request' = [request EXCEPT ![c] = Absent]
    /\ UNCHANGED <<wallets, work, tries>>

Step(c) ==
    \/ InsertWallet(c) \/ InsertWager(c) \/ InsertLedger(c) \/ InsertProcessed(c)
    \/ InsertChanged(c) \/ CommitWallet(c) \/ ReceiveReply(c)

CreationNext == \E c \in Callers : (\E r \in Requests : Create(c, r)) \/ Step(c) \/ Abort(c)

CreationSpec == CreationInit /\ [][CreationNext]_creationVars

-----------------------------------------------------------------------------
(* Properties.                                                             *)

\* A player has one wallet per currency, whoever creates it at the same time
\* and however often a caller whose answer was lost asks again.
OneWalletPerPlayer ==
    \A i, j \in WalletIds : wallets[i] # Absent /\ Same(wallets[j], wallets[i]) => i = j

\* A wallet appears with all that explains its balance, or not at all: the
\* OPENING wager, its ledger entry and both events if there is a balance,
\* and nothing else.  Wagering and LedgerReads start from such wallets.
WalletsComplete ==
    \A i \in WalletIds : wallets[i] # Absent =>
        /\ wallets[i].currency = BRL /\ wallets[i].balance >= 0
        /\ wallets[i].parts = IF wallets[i].balance = 0 THEN {} ELSE Parts

\* Who is told CREATED has a wallet as asked for; who is told CONFLICT has been
\* forestalled by a committed one, not by a transaction that failed afterwards.
AnswersTrue ==
    \A c \in Callers : pc[c] = "reply" =>
        /\ reply[c] = "CREATED" => /\ Same(wallets[Id(c)], request[c])
                                   /\ wallets[Id(c)].balance = request[c].balance
        /\ reply[c] = "CONFLICT" => Taken(request[c]) /\ wallets[Id(c)] = Absent

\* The table of wallets, at every moment.
WalletsSound == CreationTypeOK /\ OneWalletPerPlayer /\ WalletsComplete
=============================================================================
