-------------------------- MODULE WageringRefinement --------------------------
(***************************************************************************)
(* Wagering implements Settlement: what clients, workers, locks and        *)
(* transactions do statement by statement is, commit by commit, the        *)
(* settlement of one request after the other.                              *)
(***************************************************************************)
EXTENDS Wagering

\* What Settlement tells of a committed row: the attempts and the next attempt
\* of a waiting one are left out.
OutcomeOf(row) ==
    IF row = None THEN None
    ELSE [req |-> row.req, status |-> row.status, code |-> row.code,
          ref |-> row.ref, balance |-> row.balance]

Outcomes == [req : Requests, status : Statuses, code : Codes \cup {None},
             ref : Exts \cup {None}, balance : Nat \cup {None}]

\* An absent outcome is not an outcome.
ASSUME OutcomeAssumption == None \notin Outcomes

Committed == [e \in Exts |-> OutcomeOf(wagers[e])]

Serial == INSTANCE Settlement WITH outcomes <- Committed, events <- outbox

\* Every commit is serial: it settles one new request on the committed state,
\* or lets the rows of a worker's batch try again one after the other, and no
\* other step changes what is committed.
ImplementsSettlement == Serial!ChangingSpec
===============================================================================
