----------------------------- MODULE Settlement -----------------------------
(***************************************************************************)
(* What the wagering service promises, without processes, locks, copies or *)
(* transactions: requests are settled one after the other.  A step settles *)
(* one new request, or lets a batch of waiting ones try again in some      *)
(* order, each on the state the one before it left.                        *)
(*                                                                         *)
(* WageringRefinement shows that the interleaved statements of Wagering    *)
(* implement this: every commit is a step of it.                           *)
(*                                                                         *)
(* One thing is not serial.  The lock of its own wallet orders a request   *)
(* with the others of that wallet only, so a reference that belongs to     *)
(* another wallet may be committed after it was looked up and before the   *)
(* request that missed it is (MayBeMissing).                               *)
(***************************************************************************)
EXTENDS WagerDomain

CONSTANTS
    Wallets, Exts,
    Requests,        \* the requests that may arrive
    PlayerOf,        \* the player of each wallet
    OpeningBalance,  \* the balance each wallet was created with
    BatchSize        \* waiting requests tried again in one step

VARIABLES
    wallets,    \* the wallets, each with its ledger
    outcomes,   \* the outcome of each external id, None before it was sent
    events      \* per type of event, how often it was announced for each id

vars == <<wallets, outcomes, events>>

EventTypes == {"PendingReference", "Processed", "Rejected", "BalanceChanged"}

Init ==
    /\ wallets = [w \in Wallets |->
         [balance |-> OpeningBalance[w], version |-> 1,
          ledger |-> IF OpeningBalance[w] = 0 THEN << >>
                     ELSE << Entry(None, "CREDIT", OpeningBalance[w], 0) >>]]
    /\ outcomes = [e \in Exts |-> None]
    /\ events = [type \in EventTypes |-> [e \in Exts |-> 0]]

-----------------------------------------------------------------------------
(* One request, settled on a state s = [wallets, outcomes, events].  An    *)
(* attempt [req, look] tells also what the look for its reference gave:    *)
(* "found" (or not needed), "missing", or "last", missing for the last     *)
(* time.                                                                   *)

State == [wallets |-> wallets, outcomes |-> outcomes, events |-> events]

New(s, r) ==
    \A e \in Exts : s.outcomes[e] # None => e # r.ext /\ s.outcomes[e].req.key # r.key

Waiting(s, r) ==
    /\ s.outcomes[r.ext] # None
    /\ s.outcomes[r.ext].req = r
    /\ s.outcomes[r.ext].status = "PENDING_REFERENCE"

MayBeMissing(s, r) ==
    s.outcomes[r.ref] # None => s.outcomes[r.ref].req.wallet # r.wallet

Looks == {"found", "missing", "last"}

\* What a request may find of its reference in s; only a waiting one gives up.
CanFind(s, r, look) ==
    /\ IF NeedsReference(r) /\ r.ref # r.ext
       THEN IF look = "found" THEN s.outcomes[r.ref] # None ELSE MayBeMissing(s, r)
       ELSE look = "found"
    /\ look = "last" => Waiting(s, r)

AlreadyUndone(s, r) ==
    \E e \in Exts : /\ s.outcomes[e] # None
                    /\ s.outcomes[e].status = "PROCESSED"
                    /\ s.outcomes[e].req.kind = r.kind
                    /\ s.outcomes[e].req.ref = r.ref

\* What is found about the reference of a request, "resolved" if nothing is
\* wrong with it.  A reference to the request itself is never processed.
Verdict(s, a) ==
    LET r == a.req
        found == ReferenceVerdict(r, s.outcomes[r.ref]) IN
    IF PlayerOf[r.wallet] # r.player THEN "WALLET_MISMATCH"
    ELSE IF ~NeedsReference(r) THEN "resolved"
    ELSE IF r.ref = r.ext THEN "REFERENCE_NOT_PROCESSED"
    ELSE IF a.look # "found" THEN "REFERENCE_PENDING"
    ELSE IF found = "resolved" /\ AlreadyUndone(s, r) THEN "DUPLICATE_REVERSAL"
    ELSE found

Movement(s, r) ==
    Direction(r.kind, IF NeedsReference(r) THEN s.outcomes[r.ref].req.kind ELSE None)

Store(s, r, status, code, ref, wallet, types) ==
    [wallets  |-> [s.wallets EXCEPT ![r.wallet] = wallet],
     outcomes |-> [s.outcomes EXCEPT ![r.ext] =
                     [req |-> r, status |-> status, code |-> code, ref |-> ref,
                      balance |-> wallet.balance]],
     events   |-> [type \in EventTypes |-> [s.events[type] EXCEPT ![r.ext] =
                     @ + IF type \in types THEN 1 ELSE 0]]]

\* The state after an attempt.  A request keeps the reference it has resolved, also
\* when its wallet then refuses the movement.
Settle(s, a) ==
    LET r == a.req
        wallet == s.wallets[r.wallet]
        verdict == Verdict(s, a)
        ref == IF verdict = "resolved" /\ NeedsReference(r) THEN r.ref ELSE None
        reject(code) == Store(s, r, "REJECTED", code, ref, wallet, {"Rejected"}) IN
    CASE verdict = "REFERENCE_PENDING" /\ r.kind \in Reversals /\ a.look = "last" ->
           reject("REFERENCE_NOT_FOUND")
      [] verdict = "REFERENCE_PENDING" /\ r.kind \in Reversals /\ a.look = "missing" ->
           Store(s, r, "PENDING_REFERENCE", verdict, None, wallet,
                 IF New(s, r) THEN {"PendingReference"} ELSE {})
      [] verdict # "resolved" /\ (verdict = "REFERENCE_PENDING" => r.kind = "WIN") ->
           reject(verdict)
      [] verdict = "resolved" /\ ~Financial(r.kind) ->
           Store(s, r, "PROCESSED", None, ref, wallet, {"Processed"})
      [] verdict = "resolved" /\ Financial(r.kind) ->
           IF Accepts(wallet.balance, Movement(s, r), r.amount)
           THEN Store(s, r, "PROCESSED", None, ref,
                      Move(wallet, r.ext, Movement(s, r), r.amount),
                      {"Processed", "BalanceChanged"})
           ELSE reject(RefusalCode(r.kind))

-----------------------------------------------------------------------------

Become(s) ==
    /\ wallets' = s.wallets
    /\ outcomes' = s.outcomes
    /\ events' = s.events

\* A request that was never sent is settled.
Accept(r) ==
    /\ ValidRequest(r)
    /\ r.wallet \in Wallets
    /\ New(State, r)
    /\ \E look \in Looks :
         /\ CanFind(State, r, look)
         /\ Become(Settle(State, [req |-> r, look |-> look]))

WaitingRequests == {r \in Requests : Waiting(State, r)}

\* The attempts of a batch: different waiting requests, in any order.
Batches ==
    {batch \in UNION {[1 .. n -> [req : WaitingRequests, look : Looks]] :
                      n \in 1 .. BatchSize} :
       \A i, j \in DOMAIN batch : batch[i].req = batch[j].req => i = j}

\* Each attempt of a batch finds the state the one before it left.
Retry ==
    \E batch \in Batches :
        LET after[i \in 0 .. Len(batch)] ==
                IF i = 0 THEN State ELSE Settle(after[i - 1], batch[i])
        IN  /\ \A i \in DOMAIN batch : CanFind(after[i - 1], batch[i].req, batch[i].look)
            /\ Become(after[Len(batch)])

Next == (\E r \in Requests : Accept(r)) \/ Retry

Spec == Init /\ [][Next]_vars

\* The same, written so that a step of a detailed specification that leaves
\* vars alone is not tried against every request first.
ChangingSpec ==
    Init /\ [][/\ events' # events \/ outcomes' # outcomes \/ wallets' # wallets
               /\ Next]_vars
=============================================================================
