----------------------------- MODULE MCWagering -----------------------------
(***************************************************************************)
(* Small instances of Wagering.  Each scenario is a set of requests chosen *)
(* so that a particular race can happen; the configurations pick one.      *)
(***************************************************************************)
EXTENDS WageringRefinement, TLC

CONSTANTS w1, w2,          \* wallets
          ghost,           \* a wallet id no wallet has
          alice, bob,      \* players
          e1, e2, e3,      \* external transaction ids
          k1, k2, k3,      \* idempotency keys
          round1

\* A request of alice on w1 in round1.
R(ext, key, kind, amount, ref) ==
    [ext |-> ext, key |-> key, wallet |-> w1, player |-> alice, round |-> round1,
     kind |-> kind, amount |-> amount, ref |-> ref]

OneWallet  == {w1}
TwoWallets == {w1, w2}
AllIds     == {w1, w2, ghost}
AllPlayers == {alice, bob}
AllRounds  == {round1}
Owners1    == [w \in OneWallet |-> alice]
Owners2    == [w \in TwoWallets |-> alice]
Balance2   == [w \in OneWallet |-> 2]
Balances2  == [w \in TwoWallets |-> 2]

Exts3 == {e1, e2, e3}

\* What races: the same external id under another key and with another payload,
\* the same key for another id, a bet that takes all, a win too large, a win whose
\* money may be spent, a win that names its bet, and reversals that may arrive before what they refer to, or
\* refer to another amount, another wallet or themselves.
RacingRequests ==
    { R(e1, k1, "BET", 1, None),
      R(e1, k2, "BET", 3, None),
      R(e2, k2, "WIN", 2, None),
      R(e2, k1, "WIN", 1, None),
      R(e2, k2, "REFUND", 1, e1),
      R(e3, k3, "WIN", 1, e1),
      R(e3, k3, "ROLLBACK", 1, e2),
      [R(e3, k3, "ROLLBACK", 1, e2) EXCEPT !.wallet = w2],
      R(e3, k3, "ROLLBACK", 1, e3) }

\* Two refunds of one bet in a batch, a refund and a rollback of it, and a rollback
\* of a refund: a worker holds the refund's row and wants the wallet, the rollback
\* holds the wallet and wants that row.  Then what is answered at once: a wallet
\* of another player, one that nobody has, a loss, and an invalid request.
PendingRequests ==
    { R(e1, k1, "BET", 1, None),
      R(e2, k2, "REFUND", 1, e1),
      R(e3, k3, "REFUND", 1, e1),
      R(e3, k3, "ROLLBACK", 1, e1),
      R(e3, k3, "ROLLBACK", 1, e2),
      [R(e3, k3, "WIN", 1, e1) EXCEPT !.player = bob],
      [R(e3, k3, "LOSS", 0, None) EXCEPT !.wallet = ghost],
      R(e3, k3, "LOSS", 0, None),
      R(e3, k3, "LOSS", 1, None) }

ClientSymmetry == Permutations(Clients)
=============================================================================
