--------------------------- MODULE MCInboxConsumer ---------------------------
(***************************************************************************)
(* Three messages for one wager: messages that conflict, or messages that  *)
(* are refused.                                                            *)
(***************************************************************************)
EXTENDS InboxConsumer

CONSTANTS m1, m2, m3,  \* messages
          i1, i2,      \* message ids
          e1,          \* external ids
          bet, other,  \* payloads
          c1, c2       \* consumers

Envelope(id, payload, form) ==
    [id |-> id, request |-> [ext |-> e1, payload |-> payload], form |-> form]

ThreeMessages == {m1, m2, m3}

\* m2 repeats m1 under another id; m3 reuses the id of m1 for another payload.
Conflicting == (m1 :> Envelope(i1, bet, "good")) @@ (m2 :> Envelope(i2, bet, "good"))
               @@ (m3 :> Envelope(i1, other, "good"))

\* m2 is malformed, m3 is refused by the use case.
Refusals == (m1 :> Envelope(i1, bet, "good")) @@ (m2 :> Envelope(i1, bet, "malformed"))
            @@ (m3 :> Envelope(i2, other, "refused"))

ConflictsOrRefusals == {Conflicting, Refusals}

ConsumerSymmetry == Permutations(Consumers)
=============================================================================
