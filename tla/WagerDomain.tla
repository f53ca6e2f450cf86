---------------------------- MODULE WagerDomain ----------------------------
(***************************************************************************)
(* The rules of one wagering transaction, without any storage: which       *)
(* requests are valid, when a reference may be reversed, what a            *)
(* transaction does to a balance and which failure code it gets.           *)
(*                                                                         *)
(* A request is a record [ext, key, wallet, player, round, kind, amount,   *)
(* ref].  Every identifier of a provider (external transaction id,         *)
(* idempotency key, reference) is unique per provider in the code; here    *)
(* ext, key and ref stand for the pair (provider, identifier).  Money is   *)
(* in minor units of BRL, the only currency the schema accepts.  The game  *)
(* id is left out: no rule compares it, only the payload hash covers it.   *)
(***************************************************************************)
EXTENDS Integers, Sequences

CONSTANTS
    None,      \* an absent optional value (nil, SQL NULL, no row)
    MaxMoney   \* the largest amount of minor units a balance can hold (int64)

ASSUME MaxMoneyAssumption == MaxMoney \in Nat

ExternalKinds == {"BET", "WIN", "LOSS", "REFUND", "ROLLBACK"}
Reversals     == {"REFUND", "ROLLBACK"}
Statuses      == {"PENDING", "PENDING_REFERENCE", "PROCESSED", "REJECTED", "FAILED"}
Open          == {"PENDING", "PENDING_REFERENCE"}  \* the statuses a transition may start from

-----------------------------------------------------------------------------
(* Requests.                                                               *)

\* The amount and reference rules every request must satisfy.
ValidRequest(r) ==
    /\ r.kind \in ExternalKinds
    /\ (r.kind = "LOSS") <=> (r.amount = 0)
    /\ r.kind \in Reversals => r.ref # None
    /\ r.ref # None => r.kind \in {"WIN", "REFUND", "ROLLBACK"}

\* The canonical payload covers every field except the idempotency key.
PayloadHash(r) == <<r.ext, r.wallet, r.player, r.round, r.kind, r.amount, r.ref>>

-----------------------------------------------------------------------------
(* References.                                                             *)

NeedsReference(r) == r.kind \in {"WIN", "REFUND", "ROLLBACK"} /\ r.ref # None

\* Fault: part of a bet may be refunded.
MatchesExceptAmount(r, reference) ==
    /\ reference.wallet = r.wallet
    /\ reference.player = r.player
    /\ reference.round  = r.round

MatchesReference(r, reference) ==
    /\ reference.wallet = r.wallet
    /\ reference.player = r.player
    /\ reference.round  = r.round
    /\ reference.amount = r.amount

ReferenceKinds(kind) ==
    IF kind = "ROLLBACK" THEN {"BET", "WIN", "REFUND"} ELSE {"BET"}

\* What the checks on a visible reference row say: the failure code of the
\* first that fails, or "resolved".  They run in this order in the code.
ReferenceVerdict(r, row) ==
    IF row.status # "PROCESSED" THEN "REFERENCE_NOT_PROCESSED"
    ELSE IF ~MatchesReference(r, row.req) THEN "REFERENCE_MISMATCH"
    ELSE IF row.req.kind \notin ReferenceKinds(r.kind) THEN "INVALID_OPERATION"
    ELSE "resolved"

-----------------------------------------------------------------------------
(* Balances.                                                               *)

Financial(kind) == kind # "LOSS"

\* refKind is the kind of the resolved reference, None when there is none.
Direction(kind, refKind) ==
    IF kind = "BET" \/ (kind = "ROLLBACK" /\ refKind \in {"WIN", "REFUND"})
    THEN "DEBIT" ELSE "CREDIT"

\* Fault: only debits are limited.
AcceptsAnyCredit(balance, dir, amount) == dir = "DEBIT" => amount <= balance

\* Whether the wallet accepts the movement: a debit needs the funds, a credit
\* must not overflow.
Accepts(balance, dir, amount) ==
    IF dir = "DEBIT" THEN amount <= balance ELSE balance + amount <= MaxMoney

BalanceAfter(balance, dir, amount) ==
    IF dir = "DEBIT" THEN balance - amount ELSE balance + amount

RefusalCode(kind) ==
    IF kind \in Reversals THEN "REVERSAL_INSUFFICIENT_BALANCE" ELSE "INSUFFICIENT_BALANCE"

Entry(ext, dir, amount, balance) ==
    [ext |-> ext, dir |-> dir, amount |-> amount,
     before |-> balance, after |-> BalanceAfter(balance, dir, amount)]

\* The wallet after one accepted movement: the balance moves, the version
\* counts the movement and the ledger records it.
Move(wallet, ext, dir, amount) ==
    [balance |-> BalanceAfter(wallet.balance, dir, amount),
     version |-> wallet.version + 1,
     ledger  |-> Append(wallet.ledger, Entry(ext, dir, amount, wallet.balance))]
=============================================================================
