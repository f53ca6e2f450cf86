---------------------------- MODULE WalletProofs ----------------------------
(***************************************************************************)
(* Theorems about the wallet service: what is read back from the ledger,   *)
(* and the creation of wallets.  The two models share no state, and each   *)
(* theorem is about one of them.                                           *)
(*                                                                         *)
(* Reading.  Entries are told apart by their ids, so the order by          *)
(* (created_at, id) is total and every set of them can be sorted; the      *)
(* newest entry and the rows of a page exist because of this.  The         *)
(* reconciliation is explained by the lock it holds between its two reads, *)
(* the walk by what each cursor leaves behind and in front of it.          *)
(*                                                                         *)
(* Creation.  The inductive invariant says what an open transaction has    *)
(* done and may rely on: its rows are what was asked for, complete up to   *)
(* its statement; its player and currency have no committed wallet and no  *)
(* other uncommitted one; and its id, like every later one of its caller,  *)
(* has no wallet yet.                                                      *)
(***************************************************************************)
EXTENDS LedgerReads, WalletCreation, FiniteSetTheorems, FunctionTheorems,
        SequenceTheorems, WellFoundedInduction, TLAPS


-----------------------------------------------------------------------------
(* The inductive invariant.                                                *)

\* Entries with one id are one entry.
Apart(entries) == \A e, f \in entries : e.id = f.id => e = f

\* The entries that are committed or written by a transaction that is open.
Written == Committed \cup UNION {ToSet(tx[t].wrote) : t \in Writers}

\* The balance is the one after the last entry.
BalanceAtEnd == balance = IF ledger = << >> THEN 0 ELSE Last(ledger).after

WritersLock == \A t \in Writers : tx[t].pc = "write" => lock = t

\* The reconciliation keeps the lock from one read to the other, and what it has
\* found stays explained while the ledger grows.
AuditRight ==
    /\ audit.pc = "compare" => lock = Reconciler /\ audit.stored = balance
    /\ audit.entries <= Len(ledger)
    /\ AlarmsExplained

\* What the walk has shown is in front of the cursor, what it has missed was named
\* by a cursor, and the rest is behind the cursor.
WalkRight ==
    /\ paging # NoPaging => paging.done \/ paging.cursor # None
    /\ paging.committed \subseteq Committed
    /\ PagesDescend
    /\ paging.cursor # None =>
         \A i \in DOMAIN paging.shown : Newer(paging.shown[i], paging.cursor)
    /\ \A e \in paging.committed :
         \/ e \in ToSet(paging.shown) \cup paging.cursors
         \/ ~paging.done /\ paging.cursor # None /\ Newer(paging.cursor, e)

ReadsInv ==
    /\ TypeOK /\ Apart(Written) /\ BalanceAtEnd /\ WritersLock
    /\ AuditRight /\ WalkRight
-----------------------------------------------------------------------------
(* The order of the entries.                                               *)

\* Any two entries of a set that tells them apart by id are ordered, one way only.
LEMMA Ordered ==
    ASSUME NEW S, S \subseteq Row, Apart(S)
    PROVE  /\ \A e, f \in S : e # f => Newer(e, f) \/ Newer(f, e)
           /\ \A e, f \in S : ~ (Newer(e, f) /\ Newer(f, e))
           /\ \A e, f, g \in S : Newer(e, f) /\ Newer(f, g) => Newer(e, g)
<1>1. \A e \in S : e.stamp \in Nat /\ e.id \in Nat
  BY LedgerReadsAssumption DEF Row
<1>2. ASSUME NEW e \in S, NEW f \in S, e # f
      PROVE  Newer(e, f) \/ Newer(f, e)
  <2>1. e.id # f.id
    BY <1>2 DEF Apart
  <2>2. QED
    BY <1>1, <2>1 DEF Newer
<1>3. \A e, f \in S : ~ (Newer(e, f) /\ Newer(f, e))
  BY <1>1 DEF Newer
<1>4. \A e, f, g \in S : Newer(e, f) /\ Newer(f, g) => Newer(e, g)
  BY <1>1 DEF Newer
<1>5. QED
  BY <1>2, <1>3, <1>4

\* Of sets of which some are bad there is one from which no element can be taken
\* without making it good.
LEMMA MinimalSet ==
    ASSUME NEW S, IsFiniteSet(S), NEW Bad, Bad \subseteq SUBSET S, Bad # {}
    PROVE  \E T \in Bad : \A x \in T : T \ {x} \notin Bad
<1> DEFINE less == StrictSubsetOrdering(S)
<1>1. IsWellFoundedOn(less, SUBSET S)
  BY FS_StrictSubsetOrderingWellFounded, FS_FiniteSubsetsOfFinite, Zenon
<1>2. \A T \in SUBSET S : \A x \in T : <<T \ {x}, T>> \in less
  BY DEF StrictSubsetOrdering
<1> HIDE DEF less
<1>3. PICK T \in Bad : \A U \in Bad : ~ (<<U, T>> \in less)
  BY <1>1, WFMin, Zenon
<1>4. QED
  BY <1>2, <1>3

LEMMA OldestExists ==
    ASSUME NEW S, S \subseteq Row, Apart(S), IsFiniteSet(S), S # {}
    PROVE  \E o \in S : \A e \in S \ {o} : Newer(e, o)
<1> DEFINE Oldest(T) == \E o \in T : \A e \in T \ {o} : Newer(e, o)
           Bad == {T \in SUBSET S : T # {} /\ ~Oldest(T)}
<1> SUFFICES ASSUME S \in Bad
             PROVE  FALSE
  OBVIOUS
<1>1. PICK T \in Bad : \A x \in T : T \ {x} \notin Bad
  <2>1. Bad \subseteq SUBSET S /\ Bad # {}
    OBVIOUS
  <2> HIDE DEF Bad
  <2>2. QED
    BY <2>1, MinimalSet
<1>2. T \subseteq S /\ T # {} /\ ~Oldest(T)
  OBVIOUS
<1>3. PICK x \in T : TRUE
  BY <1>2
<1>4. CASE T \ {x} = {}
  BY <1>2, <1>3, <1>4
<1>5. CASE T \ {x} # {}
  <2>1. T \ {x} \in SUBSET S /\ T \ {x} \notin Bad
    BY <1>1, <1>2, <1>3
  <2>2. Oldest(T \ {x})
    BY <1>5, <2>1
  <2>3. PICK o \in T \ {x} : \A e \in (T \ {x}) \ {o} : Newer(e, o)
    BY <2>2
  <2>4. x \in S /\ o \in S /\ x # o
    BY <1>2, <1>3, <2>3
  <2>5. Newer(x, o) \/ Newer(o, x)
    BY <2>4, Ordered
  <2>6. CASE Newer(x, o)
    BY <1>2, <1>3, <2>3, <2>6
  <2>7. CASE Newer(o, x)
    <3>1. \A e \in T \ {x} : Newer(e, x)
      BY <1>2, <2>3, <2>4, <2>7, Ordered
    <3>2. QED
      BY <1>2, <1>3, <3>1
  <2>8. QED
    BY <2>5, <2>6, <2>7
<1>6. QED
  BY <1>4, <1>5

\* s lists the entries of S, newest first.
Lists(s, S) ==
    /\ s \in [1 .. Cardinality(S) -> S]
    /\ \A i, j \in 1 .. Cardinality(S) : i < j => Newer(s[i], s[j])
    /\ \A e \in S : \E i \in 1 .. Cardinality(S) : s[i] = e

\* The oldest entry comes after a list of the others.
LEMMA ListExtends ==
    ASSUME NEW S, IsFiniteSet(S), NEW o \in S, NEW s, Lists(s, S \ {o}),
           \A e \in S \ {o} : Newer(e, o)
    PROVE  \E r : Lists(r, S)
<1> DEFINE n == Cardinality(S)
           r == [i \in 1 .. n |-> IF i = n THEN o ELSE s[i]]
<1>1. n \in Nat /\ n # 0 /\ Cardinality(S \ {o}) = n - 1
  BY FS_CardinalityType, FS_RemoveElement, FS_EmptySet
<1>2. s \in [1 .. n - 1 -> S \ {o}]
  BY <1>1 DEF Lists
<1> HIDE DEF n
<1>3. r \in [1 .. n -> S]
  <2>1. ASSUME NEW i \in 1 .. n, i # n
        PROVE  s[i] \in S
    BY <1>1, <1>2, <2>1
  <2>2. QED
    BY <2>1
<1>4. ASSUME NEW i \in 1 .. n, NEW j \in 1 .. n, i < j
      PROVE  Newer(r[i], r[j])
  <2>1. i \in 1 .. n - 1 /\ r[i] = s[i]
    BY <1>1, <1>4
  <2>2. CASE j = n
    BY <1>2, <2>1, <2>2
  <2>3. CASE j # n
    <3>1. j \in 1 .. n - 1 /\ r[j] = s[j]
      BY <1>1, <2>3
    <3>2. QED
      BY <1>1, <1>4, <2>1, <3>1 DEF Lists
  <2>4. QED
    BY <2>2, <2>3
<1>5. ASSUME NEW e \in S
      PROVE  \E i \in 1 .. n : r[i] = e
  <2>1. CASE e = o
    BY <1>1, <2>1
  <2>2. CASE e # o
    <3>1. PICK i \in 1 .. n - 1 : s[i] = e
      BY <1>1, <2>2 DEF Lists
    <3>2. i \in 1 .. n /\ i # n
      BY <1>1
    <3>3. QED
      BY <3>1, <3>2
  <2>3. QED
    BY <2>1, <2>2
<1>6. Lists(r, S)
  <2> HIDE DEF r
  <2>1. QED
    BY <1>3, <1>4, <1>5 DEF Lists, n
<1>7. QED
  BY <1>6

LEMMA ListExists ==
    ASSUME NEW S, S \subseteq Row, Apart(S), IsFiniteSet(S)
    PROVE  \E s : Lists(s, S)
<1> DEFINE Bad == {T \in SUBSET S : ~ \E s : Lists(s, T)}
<1> SUFFICES ASSUME S \in Bad
             PROVE  FALSE
  OBVIOUS
<1>1. PICK T \in Bad : \A x \in T : T \ {x} \notin Bad
  <2>1. Bad \subseteq SUBSET S /\ Bad # {}
    OBVIOUS
  <2> HIDE DEF Bad
  <2>2. QED
    BY <2>1, MinimalSet
<1>2. T \subseteq S /\ IsFiniteSet(T) /\ ~ \E s : Lists(s, T)
  BY FS_Subset
<1>3. CASE T = {}
  <2>1. Cardinality(T) = 0
    BY <1>3, FS_EmptySet
  <2>2. Lists([i \in 1 .. 0 |-> 0], T)
    BY <1>3, <2>1 DEF Lists
  <2>3. QED
    BY <1>2, <2>2
<1>4. CASE T # {}
  <2>1. T \subseteq Row /\ Apart(T)
    BY <1>2 DEF Apart
  <2>2. PICK o \in T : \A e \in T \ {o} : Newer(e, o)
    BY <1>2, <1>4, <2>1, OldestExists
  <2>3. T \ {o} \in SUBSET S /\ T \ {o} \notin Bad
    BY <1>1, <1>2, <2>2
  <2>4. PICK s : Lists(s, T \ {o})
    BY <2>3
  <2>5. \E r : Lists(r, T)
    BY <1>2, <2>2, <2>4, ListExtends
  <2>6. QED
    BY <1>2, <2>5
<1>5. QED
  BY <1>3, <1>4

\* Sorting a set gives a list of it.
LEMMA SortedLists ==
    ASSUME NEW S, S \subseteq Row, Apart(S), IsFiniteSet(S)
    PROVE  Lists(Sorted(S), S)
<1> DEFINE n == Cardinality(S)
<1>1. n \in Nat
  BY FS_CardinalityType
<1> HIDE DEF n
<1>2. PICK s : Lists(s, S)
  BY ListExists
<1>3. s \in SetToSeqs(S)
  <2>1. \A i, j \in 1 .. n : i # j => s[i] # s[j]
    <3>1. ASSUME NEW i \in 1 .. n, NEW j \in 1 .. n, i < j
          PROVE  s[i] # s[j]
      <4>1. Newer(s[i], s[j]) /\ s[i] \in S /\ s[j] \in S
        BY <1>2, <3>1 DEF Lists, n
      <4>2. QED
        BY <4>1, Ordered
    <3>2. QED
      BY <1>1, <3>1
  <2>2. QED
    BY <1>2, <2>1 DEF Lists, SetToSeqs, n
<1>4. \A i, j \in DOMAIN s : i < j => Newer(s[i], s[j])
  BY <1>2 DEF Lists
<1>5. /\ Sorted(S) \in SetToSeqs(S)
      /\ \A i, j \in DOMAIN Sorted(S) : i < j => Newer(Sorted(S)[i], Sorted(S)[j])
  BY <1>3, <1>4 DEF Sorted
<1>6. Sorted(S) \in Injection(1 .. n, S)
  BY <1>5 DEF SetToSeqs, Injection, IsInjective, n
<1>7. IsFiniteSet(1 .. n) /\ Cardinality(1 .. n) = n
  BY <1>1, FS_Interval
<1>8. Sorted(S) \in Surjection(1 .. n, S)
  BY <1>6, <1>7, FS_Injection DEF n
<1>9. QED
  BY <1>5, <1>8 DEF Lists, SetToSeqs, Surjection, n
LEMMA CommittedFinite ==
    ASSUME TypeOK, Apart(Written)
    PROVE  Committed \subseteq Row /\ Apart(Committed) /\ IsFiniteSet(Committed)
<1>1. Len(ledger) \in Nat /\ ledger \in [1 .. Len(ledger) -> Row]
  BY LenProperties DEF TypeOK
<1>2. Committed \subseteq Row
  BY <1>1 DEF Committed, ToSet
<1>3. Apart(Committed)
  BY DEF Apart, Written
<1>4. ledger \in Surjection(1 .. Len(ledger), Committed)
  BY <1>1 DEF Surjection, Committed, ToSet
<1>5. IsFiniteSet(1 .. Len(ledger))
  BY <1>1, FS_Interval
<1>6. IsFiniteSet(Committed)
  BY <1>4, <1>5, FS_Surjection
<1>7. QED
  BY <1>2, <1>3, <1>6

\* The reconciliation finds the balance after the newest entry.
LEMMA NewestRead ==
    ASSUME TypeOK, Apart(Written)
    PROVE  /\ LedgerBalance \in 0 .. MaxMoney
           /\ \A e \in Committed :
                (\A f \in Committed \ {e} : Newer(e, f)) => LedgerBalance = e.after
<1>1. Committed \subseteq Row /\ Apart(Committed) /\ IsFiniteSet(Committed)
  BY CommittedFinite
<1>2. CASE ledger = << >>
  <2>1. Committed = {}
    BY <1>2 DEF Committed, ToSet
  <2>2. QED
    BY <1>2, <2>1, MaxMoneyAssumption DEF LedgerBalance
<1>3. CASE ledger # << >>
  <2> DEFINE IsNewest(e) == \A f \in Committed \ {e} : Newer(e, f)
  <2>1. Committed # {}
    <3>1. ledger[1] \in Committed
      BY <1>3 DEF TypeOK, Committed, ToSet
    <3>2. QED
      BY <3>1
  <2>2. \E e \in Committed : IsNewest(e)
    <3> DEFINE n == Cardinality(Committed)
    <3>1. n \in Nat /\ n # 0
      BY <1>1, <2>1, FS_CardinalityType, FS_EmptySet
    <3>2. Lists(Sorted(Committed), Committed)
      BY <1>1, SortedLists
    <3> DEFINE s == Sorted(Committed)
    <3> HIDE DEF n, s
    <3>3. s[1] \in Committed
      BY <3>1, <3>2 DEF Lists, n, s
    <3>4. ASSUME NEW f \in Committed \ {s[1]}
          PROVE  Newer(s[1], f)
      <4>1. PICK i \in 1 .. n : s[i] = f
        BY <3>2 DEF Lists, n, s
      <4>2. 1 < i /\ 1 \in 1 .. n
        BY <3>1, <3>4, <4>1
      <4>3. QED
        BY <3>2, <4>1, <4>2 DEF Lists, n, s
    <3>5. QED
      BY <3>3, <3>4
  <2>3. \A e, f \in Committed : IsNewest(e) /\ IsNewest(f) => e = f
    BY <1>1, Ordered
  <2>4. LedgerBalance = (CHOOSE e \in Committed : IsNewest(e)).after
    BY <1>3 DEF LedgerBalance
  <2> HIDE DEF IsNewest
  <2>5. ASSUME NEW e \in Committed, IsNewest(e)
        PROVE  LedgerBalance = e.after /\ LedgerBalance \in 0 .. MaxMoney
    <3>1. (CHOOSE f \in Committed : IsNewest(f)) = e
      BY <2>3, <2>5
    <3>2. e.after \in 0 .. MaxMoney
      BY <1>1, <2>5 DEF Row
    <3>3. QED
      BY <2>4, <3>1, <3>2
  <2>6. QED
    BY <2>2, <2>5 DEF IsNewest
<1>4. QED
  BY <1>2, <1>3

\* A page starts with the newest entry beyond the cursor and leaves none out; when it
\* is full, what it does not reach is older than its last row.
LEMMA PageRows ==
    ASSUME TypeOK, Apart(Written), NEW cursor \in Row \cup {None}
    PROVE  LET rows == Page(cursor)
           IN /\ rows \in Seq(Row)
              /\ Len(rows) <= Limit + 1
              /\ \A i, j \in 1 .. Len(rows) : i < j => Newer(rows[i], rows[j])
              /\ \A i \in 1 .. Len(rows) : rows[i] \in Committed /\ Beyond(cursor, rows[i])
              /\ \A e \in Committed :
                   Beyond(cursor, e) =>
                     \/ \E i \in 1 .. Len(rows) : rows[i] = e
                     \/ Len(rows) = Limit + 1 /\ Newer(rows[Limit + 1], e)
<1> DEFINE S == {e \in Committed : Beyond(cursor, e)}
           s == Sorted(S)
           n == Cardinality(S)
           m == IF n > Limit THEN Limit + 1 ELSE n
           rows == Page(cursor)
<1>1. Committed \subseteq Row /\ Apart(Committed) /\ IsFiniteSet(Committed)
  BY CommittedFinite
<1>2. S \subseteq Row /\ Apart(S) /\ IsFiniteSet(S)
  BY <1>1, FS_Subset DEF Apart
<1>3. Lists(s, S) /\ n \in Nat
  <2> HIDE DEF S
  <2>1. QED
    BY <1>2, SortedLists, FS_CardinalityType
<1> HIDE DEF s, n
<1>4. /\ s \in [1 .. n -> S]
      /\ \A i, j \in 1 .. n : i < j => Newer(s[i], s[j])
      /\ \A e \in S : \E i \in 1 .. n : s[i] = e
  BY <1>3 DEF Lists, n
<1>5. s \in Seq(Row) /\ Len(s) = n
  <2>1. s \in Seq(S) /\ Len(s) = n
    <3> HIDE DEF S
    <3>1. QED
      BY <1>3, <1>4
  <2>2. QED
    BY <1>2, <2>1
<1>6. m \in 0 .. n /\ m <= Limit + 1
  BY <1>3, LedgerReadsAssumption
<1>7. rows = SubSeq(s, 1, m)
  BY <1>5 DEF Page, s
<1> HIDE DEF rows, m
<1>8. rows \in Seq(Row) /\ Len(rows) = m /\ \A i \in 1 .. m : i \in 1 .. n /\ rows[i] = s[i]
  <2> HIDE DEF S
  <2>1. \A i \in 1 .. m : s[i] \in Row
    BY <1>3, <1>5, <1>6
  <2>2. /\ SubSeq(s, 1, m) \in Seq(Row)
        /\ Len(SubSeq(s, 1, m)) = IF 1 <= m THEN m - 1 + 1 ELSE 0
        /\ \A i \in 1 .. m - 1 + 1 : SubSeq(s, 1, m)[i] = s[1 + i - 1]
    BY <1>3, <1>6, <2>1, SubSeqProperties
  <2>3. QED
    BY <1>3, <1>6, <1>7, <2>2
<1>9. \A i, j \in 1 .. m : i < j => Newer(rows[i], rows[j])
  BY <1>4, <1>8
<1>10. \A i \in 1 .. m : rows[i] \in Committed /\ Beyond(cursor, rows[i])
  BY <1>4, <1>8
<1>11. ASSUME NEW e \in Committed, Beyond(cursor, e)
       PROVE  \/ \E i \in 1 .. m : rows[i] = e
              \/ m = Limit + 1 /\ Newer(rows[Limit + 1], e)
  <2>1. PICK i \in 1 .. n : s[i] = e
    BY <1>4, <1>11
  <2>2. CASE i <= m
    BY <1>6, <1>8, <2>1, <2>2
  <2>3. CASE i > m
    <3>1. n > Limit /\ m = Limit + 1 /\ Limit + 1 \in 1 .. m /\ Limit + 1 < i
      BY <1>3, <1>6, <2>3, LedgerReadsAssumption DEF m
    <3>2. rows[Limit + 1] = s[Limit + 1] /\ Newer(s[Limit + 1], s[i])
      BY <1>4, <1>8, <2>1, <3>1
    <3>3. QED
      BY <2>1, <3>1, <3>2
  <2>4. QED
    BY <1>3, <1>6, <2>2, <2>3
<1>12. QED
  BY <1>6, <1>8, <1>9, <1>10, <1>11 DEF rows
-----------------------------------------------------------------------------
(* What the steps do to the entries.                                       *)

LEMMA ToSetConcat ==
    ASSUME NEW S, NEW s \in Seq(S), NEW r \in Seq(S)
    PROVE  ToSet(s \o r) = ToSet(s) \cup ToSet(r)
<1> DEFINE q == s \o r
<1>1. /\ Len(s) \in Nat /\ Len(r) \in Nat
      /\ DOMAIN s = 1 .. Len(s) /\ DOMAIN r = 1 .. Len(r)
      /\ DOMAIN q = 1 .. Len(s) + Len(r)
  BY LenProperties, ConcatProperties
<1>2. \A i \in 1 .. Len(s) + Len(r) : q[i] = IF i <= Len(s) THEN s[i] ELSE r[i - Len(s)]
  BY ConcatProperties
<1> HIDE DEF q
<1>3. ASSUME NEW e \in ToSet(q)
      PROVE  e \in ToSet(s) \cup ToSet(r)
  <2>1. PICK i \in 1 .. Len(s) + Len(r) : q[i] = e
    BY <1>1 DEF ToSet
  <2>2. i \in 1 .. Len(s) \/ (i - Len(s) \in 1 .. Len(r) /\ ~ (i <= Len(s)))
    BY <1>1
  <2>3. QED
    BY <1>1, <1>2, <2>1, <2>2 DEF ToSet
<1>4. ASSUME NEW i \in 1 .. Len(s)
      PROVE  s[i] \in ToSet(q)
  <2>1. i \in 1 .. Len(s) + Len(r) /\ i <= Len(s)
    BY <1>1
  <2>2. QED
    BY <1>1, <1>2, <2>1 DEF ToSet
<1>5. ASSUME NEW i \in 1 .. Len(r)
      PROVE  r[i] \in ToSet(q)
  <2>1. Len(s) + i \in 1 .. Len(s) + Len(r) /\ ~ (Len(s) + i <= Len(s)) /\ Len(s) + i - Len(s) = i
    BY <1>1
  <2>2. q[Len(s) + i] = r[i]
    BY <1>2, <2>1
  <2>3. QED
    BY <1>1, <2>1, <2>2 DEF ToSet
<1>6. QED
  BY <1>1, <1>3, <1>4, <1>5 DEF ToSet, q

LEMMA ToSetAppend ==
    ASSUME NEW S, NEW s \in Seq(S), NEW e \in S
    PROVE  ToSet(Append(s, e)) = ToSet(s) \cup {e}
<1>1. Append(s, e) = s \o << e >> /\ << e >> \in Seq(S)
  OBVIOUS
<1>2. ToSet(<< e >>) = {e}
  <2>1. DOMAIN << e >> = {1} /\ << e >>[1] = e
    OBVIOUS
  <2>2. QED
    BY <2>1, Zenon DEF ToSet
<1>3. ToSet(s \o << e >>) = ToSet(s) \cup ToSet(<< e >>)
  <2> DEFINE q == << e >>
  <2>1. q \in Seq(S)
    BY <1>1
  <2> HIDE DEF q
  <2>2. ToSet(s \o q) = ToSet(s) \cup ToSet(q)
    BY <2>1, ToSetConcat
  <2>3. QED
    BY <2>2 DEF q
<1>4. QED
  BY <1>1, <1>2, <1>3

\* A transaction works on a balance in range, and its entries are rows.
LEMMA WritersTyped ==
    ASSUME TypeOK, NEW t \in Writers
    PROVE  Working(t) \in 0 .. MaxMoney /\ tx[t].wrote \in Seq(Row) /\ tx[t].stamp \in Nat
<1>1. tx[t].wrote \in Seq(Row) /\ tx[t].stamp \in Nat /\ balance \in 0 .. MaxMoney
  BY DEF TypeOK
<1>2. ASSUME tx[t].wrote # << >>
      PROVE  Last(tx[t].wrote) \in Row
  <2>1. Len(tx[t].wrote) \in 1 .. Len(tx[t].wrote)
    BY <1>1, <1>2
  <2>2. QED
    BY <1>1, <2>1, ElementOfSeq DEF Last
<1>3. QED
  BY <1>1, <1>2 DEF Working, Row

\* The entry AppendEntry(t) writes.
NewEntry(t, dir, amount, id) ==
    [stamp |-> tx[t].stamp, id |-> id, after |-> BalanceAfter(Working(t), dir, amount)]

LEMMA EntryTyped ==
    ASSUME TypeOK, NEW t \in Writers, NEW dir \in {"CREDIT", "DEBIT"}, NEW amount \in Amounts,
           NEW id \in Ids, Accepts(Working(t), dir, amount)
    PROVE  NewEntry(t, dir, amount, id) \in Row
<1>1. Working(t) \in 0 .. MaxMoney /\ tx[t].stamp \in Nat
  BY WritersTyped
<1>2. amount \in Nat
  BY LedgerReadsAssumption
<1>3. BalanceAfter(Working(t), dir, amount) \in 0 .. MaxMoney
  BY <1>1, <1>2, MaxMoneyAssumption DEF Accepts, BalanceAfter
<1>4. QED
  BY <1>1, <1>3 DEF NewEntry, Row

\* The ledger grows by what a transaction wrote.
LEMMA CommitAppends ==
    ASSUME TypeOK, NEW t \in Writers, Commit(t)
    PROVE  /\ ledger' \in Seq(Row) /\ Len(ledger') = Len(ledger) + Len(tx[t].wrote)
           /\ \A i \in 1 .. Len(ledger) : ledger'[i] = ledger[i]
           /\ Committed' = Committed \cup ToSet(tx[t].wrote)
<1>1. ledger \in Seq(Row) /\ tx[t].wrote \in Seq(Row) /\ ledger' = ledger \o tx[t].wrote
  BY WritersTyped DEF TypeOK, Commit
<1>2. Len(ledger) \in Nat /\ Len(tx[t].wrote) \in Nat
  BY <1>1
<1>3. ledger' \in Seq(Row) /\ Len(ledger') = Len(ledger) + Len(tx[t].wrote)
  BY <1>1, ConcatProperties
<1>4. ASSUME NEW i \in 1 .. Len(ledger)
      PROVE  ledger'[i] = ledger[i]
  <2>1. i \in 1 .. Len(ledger) + Len(tx[t].wrote) /\ i <= Len(ledger)
    BY <1>2
  <2>2. QED
    BY <1>1, <2>1, ConcatProperties
<1>5. Committed' = Committed \cup ToSet(tx[t].wrote)
  BY <1>1, ToSetConcat DEF Committed
<1>6. QED
  BY <1>3, <1>4, <1>5

-----------------------------------------------------------------------------
(* The steps keep the types.                                               *)

\* Any state of the writers is typed if each one is.
WriterTx == [pc : {"begin", "lock", "write", "end"}, stamp : Nat, wrote : Seq(Row)]

LEMMA EndTyped == [NoTx EXCEPT !.pc = "end"] \in WriterTx
<1>1. [NoTx EXCEPT !.pc = "end"] = [pc |-> "end", stamp |-> 0, wrote |-> << >>]
  BY DEF NoTx
<1>2. \A w \in Seq(Row) : [pc |-> "end", stamp |-> 0, wrote |-> w] \in WriterTx
  BY DEF WriterTx
<1>3. << >> \in Seq(Row)
  OBVIOUS
<1> HIDE DEF WriterTx
<1>4. QED
  BY <1>1, <1>2, <1>3, Zenon

LEMMA TypeStep ==
    ASSUME TypeOK, Apart(Written), [Next]_vars
    PROVE  TypeOK'
<1>0. /\ clock \in Nat /\ balance \in 0 .. MaxMoney /\ ledger \in Seq(Row)
      /\ lock \in Writers \cup {Reconciler, None}
      /\ tx \in [Writers -> WriterTx]
      /\ audit \in [pc : {"idle", "compare", "done"}, stored : 0 .. MaxMoney,
                    calculated : 0 .. MaxMoney, entries : Nat]
      /\ paging \in [done : BOOLEAN, shown : Seq(Row), cursor : Row \cup {None},
                     committed : SUBSET Row, cursors : SUBSET Row]
  BY DEF TypeOK, WriterTx
<1>1. ASSUME NEW t \in Writers, Begin(t)
      PROVE  TypeOK'
  <2>0. clock' \in Nat /\ tx[t] \in WriterTx
    BY <1>0, <1>1 DEF Begin
  <2>1. clock' \in Nat /\ [tx[t] EXCEPT !.pc = "lock", !.stamp = clock'] \in WriterTx
    BY <2>0 DEF WriterTx
  <2>2. tx' = [tx EXCEPT ![t] = [tx[t] EXCEPT !.pc = "lock", !.stamp = clock']]
    BY <1>0, <1>1 DEF Begin
  <2>3. tx' \in [Writers -> WriterTx]
    BY <1>0, <2>1, <2>2
  <2>4. QED
    BY <1>0, <1>1, <2>1, <2>3 DEF TypeOK, Begin, WriterTx
<1>2. ASSUME NEW t \in Writers, LockWallet(t)
      PROVE  TypeOK'
  <2>1. [tx[t] EXCEPT !.pc = "write"] \in WriterTx
    BY <1>0 DEF WriterTx
  <2>2. tx' \in [Writers -> WriterTx]
    BY <1>0, <1>2, <2>1 DEF LockWallet
  <2>3. QED
    BY <1>0, <1>2, <2>2 DEF TypeOK, LockWallet, WriterTx
<1>3. ASSUME NEW t \in Writers, AppendEntry(t)
      PROVE  TypeOK'
  <2>1. PICK dir \in {"CREDIT", "DEBIT"}, amount \in Amounts, id \in Ids \ UsedIds :
          /\ Accepts(Working(t), dir, amount)
          /\ tx' = [tx EXCEPT ![t].wrote = Append(@, NewEntry(t, dir, amount, id))]
    BY <1>3 DEF AppendEntry, NewEntry
  <2>2. NewEntry(t, dir, amount, id) \in Row
    BY <2>1, EntryTyped
  <2> DEFINE new == [tx[t] EXCEPT !.wrote = Append(@, NewEntry(t, dir, amount, id))]
  <2>3. new \in WriterTx
    <3>1. tx[t] \in WriterTx
      BY <1>0
    <3>2. Append(tx[t].wrote, NewEntry(t, dir, amount, id)) \in Seq(Row)
      BY <2>2, WritersTyped
    <3>3. QED
      BY <3>1, <3>2 DEF WriterTx
  <2>4. tx' = [tx EXCEPT ![t] = new]
    BY <1>0, <2>1
  <2> HIDE DEF new
  <2>5. tx' \in [Writers -> WriterTx]
    BY <1>0, <2>3, <2>4
  <2>6. QED
    BY <1>0, <1>3, <2>5 DEF TypeOK, AppendEntry, WriterTx
<1>4. ASSUME NEW t \in Writers, Commit(t)
      PROVE  TypeOK'
  <2>1. ledger' \in Seq(Row) /\ balance' \in 0 .. MaxMoney
    BY <1>4, CommitAppends, WritersTyped DEF Commit
  <2>2. tx' \in [Writers -> WriterTx]
    BY <1>0, <1>4, EndTyped DEF Commit
  <2>3. QED
    BY <1>0, <1>4, <2>1, <2>2 DEF TypeOK, Commit, WriterTx
<1>5. ASSUME NEW t \in Writers, Rollback(t)
      PROVE  TypeOK'
  <2>1. tx' \in [Writers -> WriterTx]
    BY <1>0, <1>5, EndTyped DEF Rollback
  <2>2. QED
    BY <1>0, <1>5, <2>1 DEF TypeOK, Rollback, WriterTx
<1>6. ASSUME LockStoredBalance
      PROVE  TypeOK'
  BY <1>0, <1>6 DEF TypeOK, LockStoredBalance
<1>7. ASSUME Compare
      PROVE  TypeOK'
  <2>1. LedgerBalance \in 0 .. MaxMoney /\ Len(ledger) \in Nat
    BY <1>0, NewestRead
  <2>2. audit' \in [pc : {"idle", "compare", "done"}, stored : 0 .. MaxMoney,
                    calculated : 0 .. MaxMoney, entries : Nat]
    BY <1>0, <1>7, <2>1 DEF Compare
  <2>3. QED
    BY <1>0, <1>7, <2>2 DEF TypeOK, Compare
<1>8. ASSUME ReadPage
      PROVE  TypeOK'
  <2> DEFINE rows == Page(paging.cursor)
             more == Len(rows) > Limit
             next == IF more THEN rows[Limit + 1] ELSE None
             given == IF more THEN Front(rows) ELSE rows
  <2>1. rows \in Seq(Row) /\ Len(rows) <= Limit + 1
    BY <1>0, PageRows
  <2>2. Committed \in SUBSET Row
    BY CommittedFinite
  <2> HIDE DEF rows
  <2>3. next \in Row \cup {None} /\ (more => next \in Row)
    <3>1. more => Limit + 1 \in 1 .. Len(rows)
      BY <2>1, LedgerReadsAssumption
    <3>2. QED
      BY <2>1, <3>1, ElementOfSeq
  <2>4. given \in Seq(Row)
    BY <2>1 DEF Front
  <2> HIDE DEF next, given
  <2>5. paging' = [done |-> ~more, shown |-> paging.shown \o given, cursor |-> next,
                   committed |-> IF paging = NoPaging THEN Committed ELSE paging.committed,
                   cursors |-> IF more THEN paging.cursors \cup {next} ELSE paging.cursors]
    BY <1>8 DEF ReadPage, rows, next, given
  <2>6. paging.shown \o given \in Seq(Row)
    BY <1>0, <2>4
  <2> HIDE DEF more
  <2>7. paging' \in [done : BOOLEAN, shown : Seq(Row), cursor : Row \cup {None},
                     committed : SUBSET Row, cursors : SUBSET Row]
    BY <1>0, <2>2, <2>3, <2>5, <2>6
  <2>8. QED
    BY <1>0, <1>8, <2>7 DEF TypeOK, ReadPage
<1>9. CASE UNCHANGED vars
  BY <1>9 DEF TypeOK, vars
<1>10. QED
  BY <1>1, <1>2, <1>3, <1>4, <1>5, <1>6, <1>7, <1>8, <1>9 DEF Next
-----------------------------------------------------------------------------
(* The steps keep the rest of the invariant.                               *)

LEMMA InitReads == Init => ReadsInv
<1> SUFFICES ASSUME Init
             PROVE  ReadsInv
  OBVIOUS
<1>1. balance \in 0 .. MaxMoney
  BY LedgerReadsAssumption DEF Init
<1>2. PICK id \in Ids : ledger = IF balance = 0 THEN << >>
                                 ELSE <<[stamp |-> 0, id |-> id, after |-> balance]>>
  BY DEF Init
<1>3. [stamp |-> 0, id |-> id, after |-> balance] \in Row
  BY <1>1, <1>2 DEF Row
<1>4. ledger \in Seq(Row) /\ \A e, f \in Committed : e = f
  <2>1. CASE balance = 0
    BY <1>2, <2>1 DEF Committed, ToSet
  <2>2. CASE balance # 0
    BY <1>2, <1>3, <2>2 DEF Committed, ToSet
  <2>3. QED
    BY <2>1, <2>2
<1>5. tx = [t \in Writers |-> NoTx] /\ lock = None /\ audit = NoAudit /\ paging = NoPaging
      /\ clock = 0
  BY DEF Init
<1>6. TypeOK
  <2>1. \A w \in Seq(Row) : [pc |-> "begin", stamp |-> 0, wrote |-> w] \in WriterTx
    BY DEF WriterTx
  <2>2. NoTx \in WriterTx
    <3>1. << >> \in Seq(Row)
      OBVIOUS
    <3> HIDE DEF WriterTx
    <3>2. QED
      BY <2>1, <3>1, Zenon DEF NoTx
  <2>3. tx \in [Writers -> WriterTx]
    BY <1>5, <2>2
  <2>4. audit \in [pc : {"idle", "compare", "done"}, stored : 0 .. MaxMoney,
                   calculated : 0 .. MaxMoney, entries : Nat]
    BY <1>5, MaxMoneyAssumption DEF NoAudit
  <2>5. paging \in [done : BOOLEAN, shown : Seq(Row), cursor : Row \cup {None},
                    committed : SUBSET Row, cursors : SUBSET Row]
    <3>1. \A w \in Seq(Row) :
            [done |-> FALSE, shown |-> w, cursor |-> None, committed |-> {}, cursors |-> {}] \in
              [done : BOOLEAN, shown : Seq(Row), cursor : Row \cup {None},
               committed : SUBSET Row, cursors : SUBSET Row]
      OBVIOUS
    <3>2. << >> \in Seq(Row)
      OBVIOUS
    <3>3. QED
      BY <1>5, <3>1, <3>2, Zenon DEF NoPaging
  <2>6. QED
    BY <1>1, <1>4, <1>5, <2>3, <2>4, <2>5 DEF TypeOK, WriterTx
<1>7. Apart(Written)
  <2>1. \A t \in Writers : ToSet(tx[t].wrote) = {}
    BY <1>5 DEF NoTx, ToSet
  <2>2. Written = Committed
    BY <2>1 DEF Written
  <2>3. QED
    BY <1>4, <2>2 DEF Apart
<1>8. BalanceAtEnd
  BY <1>2 DEF BalanceAtEnd, Last
<1>9. WritersLock
  BY <1>5 DEF WritersLock, NoTx
<1>10. AuditRight
  BY <1>4, <1>5 DEF AuditRight, AlarmsExplained, NoAudit
<1>11. WalkRight
  BY <1>5 DEF WalkRight, PagesDescend, NoPaging
<1>12. QED
  BY <1>6, <1>7, <1>8, <1>9, <1>10, <1>11 DEF ReadsInv

\* Every id is used for one entry: a new entry takes a free one, and a commit only
\* moves entries.
LEMMA ApartStep ==
    ASSUME TypeOK, Apart(Written), [Next]_vars
    PROVE  Apart(Written')
<1>1. ASSUME Written' \subseteq Written
      PROVE  Apart(Written')
  BY <1>1 DEF Apart
<1>2. ASSUME NEW t \in Writers, Begin(t) \/ LockWallet(t)
      PROVE  Apart(Written')
  <2>1. \A u \in Writers : tx'[u].wrote = tx[u].wrote
    <3>1. tx \in [Writers -> WriterTx]
      BY DEF TypeOK, WriterTx
    <3>2. CASE Begin(t)
      BY <3>1, <3>2 DEF Begin, WriterTx
    <3>3. CASE LockWallet(t)
      BY <3>1, <3>3 DEF LockWallet, WriterTx
    <3>4. QED
      BY <1>2, <3>2, <3>3
  <2>2. ledger' = ledger
    BY <1>2 DEF Begin, LockWallet
  <2>3. Written' = Written
    BY <2>1, <2>2 DEF Written, Committed
  <2>4. QED
    BY <1>1, <2>3
<1>3. ASSUME NEW t \in Writers, AppendEntry(t)
      PROVE  Apart(Written')
  <2>1. PICK dir \in {"CREDIT", "DEBIT"}, amount \in Amounts, id \in Ids \ UsedIds :
          /\ Accepts(Working(t), dir, amount)
          /\ tx' = [tx EXCEPT ![t].wrote = Append(@, NewEntry(t, dir, amount, id))]
    BY <1>3 DEF AppendEntry, NewEntry
  <2> DEFINE new == NewEntry(t, dir, amount, id)
  <2>2. new \in Row /\ new.id = id
    BY <2>1, EntryTyped DEF NewEntry
  <2> HIDE DEF new
  <2>3. ToSet(tx'[t].wrote) = ToSet(tx[t].wrote) \cup {new}
    <3>1. tx'[t].wrote = Append(tx[t].wrote, new)
      BY <2>1 DEF TypeOK, new
    <3>2. QED
      BY <2>2, <3>1, WritersTyped, ToSetAppend
  <2>4. \A u \in Writers \ {t} : tx'[u].wrote = tx[u].wrote
    BY <2>1 DEF TypeOK
  <2>5. Written' \subseteq Written \cup {new}
    <3>1. Committed' = Committed
      BY <1>3 DEF AppendEntry, Committed
    <3>2. QED
      BY <2>3, <2>4, <3>1 DEF Written
  <2>6. \A e \in Written : e.id # new.id
    BY <2>1, <2>2 DEF Written, UsedIds
  <2>7. QED
    BY <2>5, <2>6 DEF Apart
<1>4. ASSUME NEW t \in Writers, Commit(t) \/ Rollback(t)
      PROVE  Apart(Written')
  <2>1. Committed' \subseteq Committed \cup ToSet(tx[t].wrote)
    <3>1. CASE Commit(t)
      BY <3>1, CommitAppends
    <3>2. CASE Rollback(t)
      BY <3>2 DEF Rollback, Committed
    <3>3. QED
      BY <1>4, <3>1, <3>2
  <2>2. ToSet(tx'[t].wrote) = {}
    BY <1>4 DEF TypeOK, Commit, Rollback, NoTx, ToSet
  <2>3. \A u \in Writers \ {t} : tx'[u].wrote = tx[u].wrote
    BY <1>4 DEF TypeOK, Commit, Rollback
  <2>4. Written' \subseteq Written
    BY <2>1, <2>2, <2>3 DEF Written
  <2>5. QED
    BY <1>1, <2>4
<1>5. ASSUME LockStoredBalance \/ Compare \/ ReadPage \/ UNCHANGED vars
      PROVE  Apart(Written')
  <2>1. tx' = tx /\ ledger' = ledger
    BY <1>5 DEF LockStoredBalance, Compare, ReadPage, vars
  <2>2. Written' = Written
    BY <2>1 DEF Written, Committed
  <2>3. QED
    BY <1>1, <2>2
<1>6. QED
  BY <1>2, <1>3, <1>4, <1>5 DEF Next

\* A commit moves the balance and the end of the ledger together.
LEMMA BalanceStep ==
    ASSUME TypeOK, BalanceAtEnd, [Next]_vars
    PROVE  BalanceAtEnd'
<1>1. ASSUME NEW t \in Writers, Commit(t)
      PROVE  BalanceAtEnd'
  <2>1. /\ ledger \in Seq(Row) /\ tx[t].wrote \in Seq(Row)
        /\ ledger' = ledger \o tx[t].wrote /\ balance' = Working(t)
    BY <1>1, WritersTyped DEF TypeOK, Commit
  <2>2. CASE tx[t].wrote = << >>
    BY <2>1, <2>2, ConcatEmptySeq DEF BalanceAtEnd, Working
  <2>3. CASE tx[t].wrote # << >>
    <3>1. Len(ledger) \in Nat /\ Len(tx[t].wrote) \in Nat \ {0}
      BY <2>1, <2>3, EmptySeq
    <3>2. Len(ledger') = Len(ledger) + Len(tx[t].wrote)
      BY <2>1, ConcatProperties
    <3>3. ledger'[Len(ledger')] = tx[t].wrote[Len(tx[t].wrote)]
      <4>1. /\ Len(ledger') \in 1 .. Len(ledger) + Len(tx[t].wrote)
            /\ ~ (Len(ledger') <= Len(ledger))
            /\ Len(ledger') - Len(ledger) = Len(tx[t].wrote)
        BY <3>1, <3>2
      <4>2. ledger'[Len(ledger')] = tx[t].wrote[Len(ledger') - Len(ledger)]
        BY <2>1, <4>1, ConcatProperties
      <4>3. QED
        BY <4>1, <4>2
    <3>4. ledger' # << >>
      BY <3>1, <3>2
    <3>5. QED
      BY <2>1, <2>3, <3>3, <3>4 DEF BalanceAtEnd, Working, Last
  <2>4. QED
    BY <2>2, <2>3
<1>2. ASSUME balance' = balance, ledger' = ledger
      PROVE  BalanceAtEnd'
  BY <1>2 DEF BalanceAtEnd
<1>3. ASSUME NEW t \in Writers, Begin(t) \/ LockWallet(t) \/ AppendEntry(t) \/ Rollback(t)
      PROVE  BalanceAtEnd'
  BY <1>2, <1>3 DEF Begin, LockWallet, AppendEntry, Rollback
<1>4. ASSUME LockStoredBalance \/ Compare \/ ReadPage \/ UNCHANGED vars
      PROVE  BalanceAtEnd'
  BY <1>2, <1>4 DEF LockStoredBalance, Compare, ReadPage, vars
<1>5. QED
  BY <1>1, <1>3, <1>4 DEF Next

\* Only one transaction writes, and not while the reconciliation holds the lock.
LEMMA LockStep ==
    ASSUME TypeOK, WritersLock, [Next]_vars
    PROVE  WritersLock'
<1>1. None \notin Writers /\ Reconciler \notin Writers
  BY LedgerReadsAssumption
<1>2. ASSUME NEW t \in Writers, NEW u \in Writers, tx'[u].pc = "write",
             Begin(t) \/ LockWallet(t) \/ AppendEntry(t) \/ Commit(t) \/ Rollback(t)
      PROVE  lock' = u
  <2>1. CASE u = t
    <3>1. LockWallet(t) \/ AppendEntry(t)
      BY <1>2, <2>1 DEF TypeOK, Begin, Commit, Rollback, NoTx
    <3>2. CASE LockWallet(t)
      BY <2>1, <3>2 DEF LockWallet
    <3>3. CASE AppendEntry(t)
      BY <2>1, <3>3 DEF AppendEntry, WritersLock
    <3>4. QED
      BY <3>1, <3>2, <3>3
  <2>2. CASE u # t
    <3>1. tx[u].pc = "write"
      BY <1>2, <2>2 DEF TypeOK, Begin, LockWallet, AppendEntry, Commit, Rollback
    <3>2. lock = u /\ lock # None
      BY <1>1, <3>1 DEF WritersLock
    <3>3. QED
      BY <1>2, <2>2, <3>2
         DEF Begin, LockWallet, AppendEntry, Commit, Rollback, WritersLock
  <2>3. QED
    BY <2>1, <2>2
<1>3. ASSUME NEW u \in Writers, tx'[u].pc = "write",
             LockStoredBalance \/ Compare \/ ReadPage \/ UNCHANGED vars
      PROVE  lock' = u
  BY <1>1, <1>3 DEF LockStoredBalance, Compare, ReadPage, vars, WritersLock
<1>4. QED
  BY <1>2, <1>3 DEF Next, WritersLock

\* The reconciliation compares figures of one moment, and the entries it read stay
\* where they are.
LEMMA AuditStep ==
    ASSUME ReadsInv, [Next]_vars
    PROVE  AuditRight'
<1>1. TypeOK /\ Apart(Written) /\ BalanceAtEnd /\ WritersLock /\ AuditRight
  BY DEF ReadsInv
<1>2. /\ Reconciler \notin Writers /\ Reconciler # None
      /\ ledger \in Seq(Row) /\ Len(ledger) \in Nat /\ audit.entries \in Nat
  BY <1>1, LedgerReadsAssumption DEF TypeOK
<1>3. ASSUME audit' = audit, ledger' = ledger, balance' = balance,
             lock = Reconciler => lock' = Reconciler
      PROVE  AuditRight'
  BY <1>1, <1>3 DEF AuditRight, AlarmsExplained, Consistent
<1>4. ASSUME NEW t \in Writers, Begin(t) \/ LockWallet(t) \/ AppendEntry(t) \/ Rollback(t)
      PROVE  AuditRight'
  BY <1>2, <1>3, <1>4 DEF Begin, LockWallet, AppendEntry, Rollback
<1>5. ASSUME NEW t \in Writers, Commit(t)
      PROVE  AuditRight'
  <2>1. audit' = audit /\ lock = t
    BY <1>1, <1>5 DEF Commit, WritersLock
  <2>2. audit.pc # "compare"
    BY <1>1, <1>2, <2>1 DEF AuditRight
  <2>3. /\ Len(ledger) <= Len(ledger')
        /\ \A i \in 1 .. Len(ledger) : ledger'[i] = ledger[i]
    <3>1. Len(tx[t].wrote) \in Nat
      BY <1>1, WritersTyped
    <3>2. QED
      BY <1>1, <1>2, <1>5, <3>1, CommitAppends
  <2>4. audit.entries <= Len(ledger) /\ audit.entries <= Len(ledger')
    <3>1. Len(ledger') \in Nat
      BY <1>1, <1>5, CommitAppends
    <3>2. QED
      BY <1>1, <1>2, <2>3, <3>1 DEF AuditRight
  <2>5. AlarmsExplained'
    <3>1. \A i \in 1 .. audit.entries : ledger'[i] = ledger[i]
      BY <1>2, <2>3, <2>4
    <3>2. ASSUME NEW i \in 1 .. audit.entries - 1, Newer(ledger[i], ledger[audit.entries])
          PROVE  Newer(ledger'[i], ledger'[audit.entries])
      BY <1>2, <3>1, <3>2
    <3>3. QED
      BY <1>1, <2>1, <3>2 DEF AuditRight, AlarmsExplained, Consistent
  <2>6. QED
    BY <2>1, <2>2, <2>4, <2>5 DEF AuditRight
<1>6. ASSUME LockStoredBalance
      PROVE  AuditRight'
  BY <1>1, <1>6 DEF LockStoredBalance, TypeOK, AuditRight, AlarmsExplained
<1>7. ASSUME Compare
      PROVE  AuditRight'
  <2>1. /\ audit'.pc = "done" /\ audit'.stored = balance
        /\ audit'.calculated = LedgerBalance /\ audit'.entries = Len(ledger)
        /\ ledger' = ledger
    BY <1>1, <1>7 DEF Compare, TypeOK, AuditRight
  <2>2. ASSUME balance # LedgerBalance
        PROVE  \E i \in 1 .. Len(ledger) - 1 : Newer(ledger[i], ledger[Len(ledger)])
    <3>1. ledger # << >>
      BY <1>1, <2>2 DEF BalanceAtEnd, LedgerBalance
    <3> DEFINE last == ledger[Len(ledger)]
    <3>2. Len(ledger) \in 1 .. Len(ledger) /\ last \in Committed
      BY <1>2, <3>1 DEF Committed, ToSet
    <3>3. balance = last.after
      BY <1>1, <3>1 DEF BalanceAtEnd, Last
    <3>4. PICK f \in Committed \ {last} : ~Newer(last, f)
      BY <1>1, <2>2, <3>2, <3>3, NewestRead
    <3>5. Newer(f, last)
      BY <1>1, <3>2, <3>4, CommittedFinite, Ordered
    <3>6. PICK i \in 1 .. Len(ledger) : ledger[i] = f
      BY <1>2, <3>4 DEF Committed, ToSet
    <3>7. i # Len(ledger)
      BY <3>4, <3>6
    <3>8. i \in 1 .. Len(ledger) - 1
      BY <1>2, <3>7
    <3>9. QED
      BY <3>5, <3>6, <3>8
  <2>3. AlarmsExplained'
    BY <2>1, <2>2 DEF AlarmsExplained, Consistent
  <2>4. QED
    BY <1>2, <2>1, <2>3 DEF AuditRight
<1>8. ASSUME ReadPage \/ UNCHANGED vars
      PROVE  AuditRight'
  BY <1>3, <1>8 DEF ReadPage, vars
<1>9. QED
  BY <1>4, <1>5, <1>6, <1>7, <1>8 DEF Next
\* A page is older than the cursor, the next cursor is older than the page, and the
\* page has everything between the two but the row the next cursor names.
LEMMA PageKeepsWalk ==
    ASSUME ReadsInv, ReadPage
    PROVE  WalkRight'
<1> DEFINE rows == Page(paging.cursor)
           n == Len(rows)
           more == n > Limit
           next == IF more THEN rows[Limit + 1] ELSE None
           given == IF more THEN Front(rows) ELSE rows
           k == Len(paging.shown)
           g == Len(given)
           shown == paging.shown \o given
<1>1. /\ TypeOK /\ Apart(Written) /\ WalkRight
      /\ paging.cursor \in Row \cup {None} /\ paging.shown \in Seq(Row)
      /\ ~paging.done
  BY DEF ReadsInv, TypeOK, ReadPage
<1>2. /\ rows \in Seq(Row) /\ n <= Limit + 1 /\ n \in Nat /\ Limit \in Nat
      /\ \A i, j \in 1 .. n : i < j => Newer(rows[i], rows[j])
      /\ \A i \in 1 .. n : rows[i] \in Committed /\ Beyond(paging.cursor, rows[i])
      /\ \A e \in Committed :
           Beyond(paging.cursor, e) =>
             \/ \E i \in 1 .. n : rows[i] = e
             \/ n = Limit + 1 /\ Newer(rows[Limit + 1], e)
  <2>1. rows \in Seq(Row) /\ Limit \in Nat
    BY <1>1, PageRows, LedgerReadsAssumption
  <2>2. QED
    BY <1>1, <2>1, PageRows
<1>3. Committed \subseteq Row
  BY <1>1, CommittedFinite
<1>4. \A e, f, h \in Row : Newer(e, f) /\ Newer(f, h) => Newer(e, h)
  <2>1. \A e \in Row : e.stamp \in Nat /\ e.id \in Nat
    BY LedgerReadsAssumption DEF Row
  <2>2. QED
    BY <2>1 DEF Newer
<1> HIDE DEF rows, n
<1>5. paging' = [done |-> ~more, shown |-> shown, cursor |-> next,
                 committed |-> IF paging = NoPaging THEN Committed ELSE paging.committed,
                 cursors |-> IF more THEN paging.cursors \cup {next} ELSE paging.cursors]
  BY DEF ReadPage, rows, n
<1>6. Committed' = Committed
  BY DEF ReadPage, Committed
<1>7. /\ given \in Seq(Row) /\ g \in Nat /\ g = IF more THEN Limit ELSE n
      /\ \A i \in 1 .. g : i \in 1 .. n /\ given[i] = rows[i]
  <2>1. CASE more
    <3>1. n = Limit + 1 /\ given = SubSeq(rows, 1, Limit)
      BY <1>2, <2>1 DEF Front, n
    <3>2. \A i \in 1 .. Limit : i \in 1 .. n /\ rows[i] \in Row
      BY <1>2, <1>3, <3>1
    <3>3. /\ SubSeq(rows, 1, Limit) \in Seq(Row)
          /\ Len(SubSeq(rows, 1, Limit)) = IF 1 <= Limit THEN Limit - 1 + 1 ELSE 0
          /\ \A i \in 1 .. Limit - 1 + 1 : SubSeq(rows, 1, Limit)[i] = rows[1 + i - 1]
      BY <1>2, <3>2, SubSeqProperties
    <3> HIDE DEF given
    <3>4. QED
      BY <1>2, <2>1, <3>1, <3>2, <3>3
  <2>2. CASE ~more
    BY <1>2, <2>2 DEF n
  <2>3. QED
    BY <2>1, <2>2
<1>8. more => n = Limit + 1 /\ Limit + 1 \in 1 .. n /\ next = rows[Limit + 1] /\ next \in Row
  BY <1>2, <1>3
<1> HIDE DEF given, next
<1>9. /\ k \in Nat /\ DOMAIN paging.shown = 1 .. k /\ DOMAIN shown = 1 .. k + g
      /\ \A i \in 1 .. k + g : shown[i] = IF i <= k THEN paging.shown[i] ELSE given[i - k]
  <2>1. k \in Nat /\ DOMAIN paging.shown = 1 .. k
    BY <1>1, LenProperties
  <2>2. /\ shown \in Seq(Row) /\ Len(shown) = k + g
        /\ \A i \in 1 .. k + g : shown[i] = IF i <= k THEN paging.shown[i] ELSE given[i - k]
    BY <1>1, <1>7, ConcatProperties
  <2> HIDE DEF k, g, shown
  <2>3. DOMAIN shown = 1 .. k + g
    BY <2>2, LenProperties
  <2>4. QED
    BY <2>1, <2>2, <2>3
<1> HIDE DEF k, g, shown
<1>10. /\ \A i \in 1 .. k : i \in 1 .. k + g /\ shown[i] = paging.shown[i]
       /\ \A i \in 1 .. g : k + i \in 1 .. k + g /\ shown[k + i] = given[i]
  <2>1. ASSUME NEW i \in 1 .. k
        PROVE  i \in 1 .. k + g /\ shown[i] = paging.shown[i]
    BY <1>7, <1>9
  <2>2. ASSUME NEW i \in 1 .. g
        PROVE  k + i \in 1 .. k + g /\ shown[k + i] = given[i]
    <3>1. k + i \in 1 .. k + g /\ ~ (k + i <= k) /\ k + i - k = i
      BY <1>7, <1>9
    <3>2. QED
      BY <1>9, <3>1
  <2>3. QED
    BY <2>1, <2>2
<1>11. \A i \in 1 .. k + g : ~ (i <= k) => i - k \in 1 .. g
  <2>1. k \in Nat /\ g \in Nat
    BY <1>7, <1>9
  <2>2. QED
    BY <2>1
<1>12. \A i, j \in 1 .. k + g : i < j => i - k < j - k
  BY <1>7, <1>9
<1>13. \A i \in 1 .. k : paging.shown[i] \in Row
  BY <1>1, ElementOfSeq DEF k
\* Every row of the page comes after everything shown before.
<1>14. ASSUME NEW i \in 1 .. k, NEW j \in 1 .. n
       PROVE  Newer(paging.shown[i], rows[j])
  <2>1. paging # NoPaging
    BY <1>9 DEF NoPaging, k
  <2>2. paging.cursor # None
    BY <1>1, <2>1 DEF WalkRight
  <2>3. Newer(paging.shown[i], paging.cursor) /\ Newer(paging.cursor, rows[j])
    BY <1>1, <1>2, <1>9, <2>2 DEF WalkRight, Beyond
  <2>4. QED
    BY <1>1, <1>2, <1>3, <1>4, <1>13, <2>2, <2>3
<1>15. PagesDescend'
  <2>1. ASSUME NEW i \in 1 .. k + g, NEW j \in 1 .. k + g, i < j
        PROVE  Newer(shown[i], shown[j])
    <3>1. CASE j <= k
      <4>1. i \in 1 .. k /\ j \in 1 .. k
        BY <1>7, <1>9, <2>1, <3>1
      <4>2. QED
        BY <1>1, <1>9, <1>10, <2>1, <4>1 DEF WalkRight, PagesDescend
    <3>2. CASE ~ (j <= k)
      <4>1. j - k \in 1 .. g /\ shown[j] = rows[j - k] /\ j - k \in 1 .. n
        <5>1. j - k \in 1 .. g /\ ~ (j <= k)
          BY <1>11, <3>2
        <5>2. QED
          BY <1>7, <1>9, <5>1
      <4>2. CASE i <= k
        <5>1. i \in 1 .. k
          BY <1>7, <1>9, <4>2
        <5>2. QED
          BY <1>10, <1>14, <4>1, <5>1
      <4>3. CASE ~ (i <= k)
        <5>1. i - k \in 1 .. g /\ ~ (i <= k) /\ i - k < j - k
          BY <1>9, <1>11, <1>12, <2>1, <4>3
        <5>2. shown[i] = rows[i - k] /\ i - k \in 1 .. n
          BY <1>7, <1>9, <5>1
        <5>3. QED
          BY <1>2, <4>1, <5>1, <5>2
      <4>4. QED
        BY <1>7, <1>9, <4>2, <4>3
    <3>3. QED
      BY <1>7, <1>9, <3>1, <3>2
  <2>2. QED
    BY <1>5, <1>9, <2>1 DEF PagesDescend
<1>16. ASSUME more, NEW i \in 1 .. k + g
       PROVE  Newer(shown[i], next)
  <2>1. CASE i <= k
    <3>1. i \in 1 .. k
      BY <1>7, <1>9, <2>1
    <3>2. QED
      BY <1>8, <1>10, <1>14, <1>16, <3>1
  <2>2. CASE ~ (i <= k)
    <3>1. i - k \in 1 .. g /\ ~ (i <= k)
      BY <1>11, <2>2
    <3>2. shown[i] = rows[i - k] /\ i - k \in 1 .. n /\ i - k < Limit + 1
      BY <1>2, <1>7, <1>9, <1>16, <3>1
    <3>3. QED
      BY <1>2, <1>8, <1>16, <3>2
  <2>3. QED
    BY <1>7, <1>9, <2>1, <2>2
\* What is beyond the cursor is shown, named by the next cursor, or beyond that.
<1>17. ASSUME NEW e \in Committed, Beyond(paging.cursor, e)
       PROVE  \/ e \in ToSet(shown)
              \/ more /\ e = next
              \/ more /\ Newer(next, e)
  <2>1. CASE \E i \in 1 .. n : rows[i] = e
    <3>1. PICK i \in 1 .. n : rows[i] = e
      BY <2>1
    <3>2. CASE i \in 1 .. g
      <4>1. k + i \in DOMAIN shown /\ shown[k + i] = e
        BY <1>7, <1>9, <1>10, <3>1, <3>2
      <4>2. e \in ToSet(shown)
        BY <4>1, Zenon DEF ToSet
      <4>3. QED
        BY <4>2
    <3>3. CASE i \notin 1 .. g
      <4>1. more /\ i = Limit + 1
        BY <1>2, <1>7, <3>3
      <4>2. QED
        BY <1>8, <3>1, <4>1
    <3>4. QED
      BY <3>2, <3>3
  <2>2. CASE n = Limit + 1 /\ Newer(rows[Limit + 1], e)
    <3>1. more
      BY <1>2, <2>2
    <3>2. QED
      BY <1>8, <2>2, <3>1
  <2>3. QED
    BY <1>2, <1>17, <2>1, <2>2
<1>18. ToSet(paging.shown) \subseteq ToSet(shown)
  BY <1>9, <1>10 DEF ToSet
<1>19. ASSUME more
       PROVE  next # None
  BY <1>8, <1>19, RowAssumption
<1>20. ASSUME NEW e \in paging'.committed
       PROVE  \/ e \in ToSet(paging'.shown) \cup paging'.cursors
              \/ ~paging'.done /\ paging'.cursor # None /\ Newer(paging'.cursor, e)
  <2>1. ASSUME e \in Committed, Beyond(paging.cursor, e)
        PROVE  \/ e \in ToSet(paging'.shown) \cup paging'.cursors
               \/ ~paging'.done /\ paging'.cursor # None /\ Newer(paging'.cursor, e)
    BY <1>5, <1>17, <1>19, <2>1
  <2>2. CASE paging = NoPaging
    <3>1. e \in Committed /\ Beyond(paging.cursor, e)
      BY <1>5, <1>20, <2>2 DEF NoPaging, Beyond
    <3>2. QED
      BY <2>1, <3>1
  <2>3. CASE paging # NoPaging
    <3>1. e \in paging.committed /\ e \in Committed
      BY <1>1, <1>5, <1>20, <2>3 DEF WalkRight
    <3>2. CASE e \in ToSet(paging.shown) \cup paging.cursors
      BY <1>5, <1>18, <3>2
    <3>3. CASE paging.cursor # None /\ Newer(paging.cursor, e)
      BY <2>1, <3>1, <3>3 DEF Beyond
    <3>4. QED
      BY <1>1, <3>1, <3>2, <3>3 DEF WalkRight
  <2>4. QED
    BY <2>2, <2>3
<1>21. paging'.committed \subseteq Committed'
  BY <1>1, <1>5, <1>6 DEF WalkRight
<1>22. paging'.done \/ paging'.cursor # None
  BY <1>5, <1>19
<1>23. ASSUME paging'.cursor # None
       PROVE  \A i \in DOMAIN paging'.shown : Newer(paging'.shown[i], paging'.cursor)
  <2>1. more
    BY <1>5, <1>23 DEF next
  <2>2. QED
    BY <1>5, <1>9, <1>16, <2>1
<1>24. QED
  BY <1>15, <1>20, <1>21, <1>22, <1>23 DEF WalkRight

LEMMA WalkStep ==
    ASSUME ReadsInv, [Next]_vars
    PROVE  WalkRight'
<1>1. TypeOK /\ WalkRight
  BY DEF ReadsInv
<1>2. ASSUME paging' = paging, Committed \subseteq Committed'
      PROVE  WalkRight'
  BY <1>1, <1>2 DEF WalkRight, PagesDescend
<1>3. ASSUME NEW t \in Writers, Commit(t)
      PROVE  WalkRight'
  <2>1. paging' = paging /\ Committed \subseteq Committed'
    BY <1>1, <1>3, CommitAppends DEF Commit
  <2>2. QED
    BY <1>2, <2>1
<1>4. ASSUME NEW t \in Writers, Begin(t) \/ LockWallet(t) \/ AppendEntry(t) \/ Rollback(t)
      PROVE  WalkRight'
  <2>1. paging' = paging /\ ledger' = ledger
    BY <1>4 DEF Begin, LockWallet, AppendEntry, Rollback
  <2>2. QED
    BY <1>2, <2>1 DEF Committed
<1>5. ASSUME LockStoredBalance \/ Compare \/ UNCHANGED vars
      PROVE  WalkRight'
  <2>1. paging' = paging /\ ledger' = ledger
    BY <1>5 DEF LockStoredBalance, Compare, vars
  <2>2. QED
    BY <1>2, <2>1 DEF Committed
<1>6. QED
  BY <1>3, <1>4, <1>5, PageKeepsWalk DEF Next

-----------------------------------------------------------------------------
(* The theorems.                                                           *)

LEMMA ReadsInvariant == Spec => []ReadsInv
<1>1. Init => ReadsInv
  BY InitReads
<1>2. ReadsInv /\ [Next]_vars => ReadsInv'
  <2> SUFFICES ASSUME ReadsInv, [Next]_vars
               PROVE  ReadsInv'
    OBVIOUS
  <2>1. TypeOK /\ Apart(Written) /\ BalanceAtEnd /\ WritersLock
    BY DEF ReadsInv
  <2>2. TypeOK' /\ Apart(Written') /\ BalanceAtEnd' /\ WritersLock'
    BY <2>1, TypeStep, ApartStep, BalanceStep, LockStep
  <2>3. AuditRight' /\ WalkRight'
    BY AuditStep, WalkStep
  <2>4. QED
    BY <2>2, <2>3 DEF ReadsInv, Apart
<1>3. QED
  BY <1>1, <1>2, PTL DEF Spec

\* A reconciliation that reports a difference has met an entry that was written last
\* but sorts before another one, and nothing else: not a commit between its two reads,
\* not a lost or a doubled entry.
THEOREM AlarmsAlwaysExplained == Spec => []AlarmsExplained
<1>1. ReadsInv => AlarmsExplained
  BY DEF ReadsInv, AuditRight
<1>2. QED
  BY <1>1, ReadsInvariant, PTL

\* A client that follows the cursors gets entries in descending order, none twice, and
\* misses none that was there when it began but those its cursors named, for any page
\* size and whatever is committed meanwhile.
THEOREM WalksAlwaysExplained == Spec => []WalkExplained
<1>1. ReadsInv => WalkExplained
  BY DEF ReadsInv, WalkRight, WalkExplained, MissesExplained
<1>2. QED
  BY <1>1, ReadsInvariant, PTL

-----------------------------------------------------------------------------
(* The creation of wallets.                                                 *)


InTx(c) == pc[c] \notin {"idle", "reply"}

\* Only what is valid gets as far as a transaction.
Asked(c) ==
    /\ pc[c] # "idle" => tries[c] # 0 /\ request[c] # Absent
    /\ InTx(c) => Valid(request[c])

\* The parts of a wallet that are inserted before each statement.
PartsBefore(c) ==
    CASE pc[c] = "opening"   -> {}
      [] pc[c] = "entry"     -> {"OPENING"}
      [] pc[c] = "processed" -> {"OPENING", "entry"}
      [] pc[c] = "changed"   -> {"OPENING", "entry", "Processed"}
      [] pc[c] = "commit"    -> IF request[c].balance = 0 THEN {} ELSE Parts
      [] OTHER               -> {}

WorkRight(c) ==
    work[c] # Absent =>
        /\ Same(work[c], request[c]) /\ work[c].balance = request[c].balance
        /\ request[c].currency = BRL
        /\ work[c].parts = PartsBefore(c)
        /\ pc[c] # "commit" => request[c].balance # 0
        /\ ~Taken(request[c])

\* The unique index keeps open transactions apart.
Exclusive(c, d) == ~(Same(work[c], request[c]) /\ Same(work[d], request[c]))

\* The ids of c that have a wallet are behind it.
IdsRight(c) ==
    /\ \A n \in 1 .. Tries : wallets[<<c, n>>] # Absent => n <= tries[c]
    /\ InTx(c) => wallets[Id(c)] = Absent

CallerRight(c) == Asked(c) /\ WorkRight(c) /\ IdsRight(c)

CallersRight ==
    /\ \A c \in Callers : CallerRight(c)
    /\ \A c, d \in Callers : c # d => Exclusive(c, d)

CreationInv == WalletsSound /\ CallersRight /\ AnswersTrue

-----------------------------------------------------------------------------
(* Type correctness.                                                       *)

LEMMA InitCreation == CreationInit => CreationInv
<1> SUFFICES ASSUME CreationInit PROVE CreationInv
  OBVIOUS
<1>1. CreationTypeOK
  BY WalletCreationAssumption DEF CreationInit, CreationTypeOK, Labels
<1>2. OneWalletPerPlayer /\ WalletsComplete /\ AnswersTrue
  BY DEF CreationInit, OneWalletPerPlayer, WalletsComplete, AnswersTrue
<1>3. CallersRight
  BY DEF CreationInit, CallersRight, CallerRight, Asked, WorkRight, IdsRight, Exclusive, InTx, Same, WalletIds
<1>4. QED
  BY <1>1, <1>2, <1>3 DEF CreationInv, WalletsSound

\* What a caller at work has asked for.
LEMMA AskedType ==
    ASSUME CreationTypeOK, NEW c \in Callers, Asked(c), pc[c] # "idle"
    PROVE  /\ request[c] \in Requests /\ tries[c] \in 1 .. Tries /\ Id(c) \in WalletIds
           /\ InTx(c) => request[c].player \in Players /\ request[c].balance >= 0
<1>1. request[c] \in Requests /\ tries[c] \in 1 .. Tries
  BY WalletCreationAssumption DEF CreationTypeOK, Asked
<1>2. Id(c) \in WalletIds
  BY <1>1 DEF Id, WalletIds
<1>3. QED
  BY <1>1, <1>2 DEF Asked, Valid, Requests

LEMMA RowType ==
    ASSUME NEW row \in Rows
    PROVE  /\ row # Absent
           /\ \A part \in Parts :
                LET next == [row EXCEPT !.parts = row.parts \cup {part}] IN
                /\ next \in Rows /\ next # Absent
                /\ next.player = row.player /\ next.currency = row.currency
                /\ next.balance = row.balance /\ next.parts = row.parts \cup {part}
<1>1. ASSUME NEW part \in Parts PROVE [row EXCEPT !.parts = row.parts \cup {part}] \in Rows
  BY DEF Rows
<1>2. row # Absent
  BY AbsentAssumption
<1>3. ASSUME NEW part \in Parts
      PROVE  LET next == [row EXCEPT !.parts = row.parts \cup {part}] IN
             /\ next.player = row.player /\ next.currency = row.currency
             /\ next.balance = row.balance /\ next.parts = row.parts \cup {part}
  BY DEF Rows
<1>4. QED
  BY <1>1, <1>2, <1>3, AbsentAssumption

LEMMA NewRowType ==
    ASSUME NEW r \in Requests, r.player \in Players
    PROVE  /\ NewRow(r) \in Rows /\ NewRow(r) # Absent
           /\ Same(NewRow(r), r) /\ NewRow(r).balance = r.balance /\ NewRow(r).parts = {}
<1>1. NewRow(r) \in Rows
  BY DEF NewRow, Rows, Requests
<1>2. NewRow(r) # Absent
  BY <1>1, AbsentAssumption
<1>3. QED
  BY <1>1, <1>2 DEF NewRow, Same

LEMMA RefuseType ==
    ASSUME CreationTypeOK, NEW c \in Callers, NEW answer \in Replies, Refuse(c, answer)
    PROVE  CreationTypeOK'
BY DEF CreationTypeOK, Refuse, Goto, Labels

\* The steps that insert one more row of a transaction.
InsertsPart(c) == InsertWager(c) \/ InsertLedger(c) \/ InsertProcessed(c) \/ InsertChanged(c)

LEMMA PartShape ==
    ASSUME NEW c \in Callers, InsertsPart(c)
    PROVE  \E part \in Parts, here \in Labels, next \in Labels :
             /\ InsertPart(c, here, part, next)
             /\ <<here, part, next>> \in
                  {<<"opening", "OPENING", "entry">>, <<"entry", "entry", "processed">>,
                   <<"processed", "Processed", "changed">>, <<"changed", "BalanceChanged", "commit">>}
BY DEF InsertsPart, InsertWager, InsertLedger, InsertProcessed, InsertChanged, Parts, Labels

LEMMA PartType ==
    ASSUME CreationTypeOK, NEW c \in Callers, InsertsPart(c)
    PROVE  CreationTypeOK' /\ work[c] \in Rows
<1>1. PICK part \in Parts, here \in Labels, next \in Labels :
             /\ InsertPart(c, here, part, next)
             /\ here \notin {"idle", "wallet", "reply"} /\ next \notin {"idle", "wallet", "reply"}
  BY PartShape
<1>2. work[c] \in Rows
  BY <1>1 DEF InsertPart, CreationTypeOK
<1>3. work' = [work EXCEPT ![c] = [work[c] EXCEPT !.parts = work[c].parts \cup {part}]]
  BY <1>1 DEF InsertPart
<1> DEFINE row == [work[c] EXCEPT !.parts = work[c].parts \cup {part}]
<1>4. row \in Rows /\ row # Absent
  BY <1>2, RowType
<1> HIDE DEF row
<1>5. work' = [work EXCEPT ![c] = row]
  BY <1>3 DEF row
<1>6. QED
  BY <1>1, <1>2, <1>4, <1>5 DEF InsertPart, Goto, CreationTypeOK

LEMMA InsertType ==
    ASSUME CreationTypeOK, NEW c \in Callers, Asked(c), InsertWallet(c)
    PROVE  CreationTypeOK'
<1>1. CASE \E answer \in Replies : Refuse(c, answer)
  BY <1>1, RefuseType
<1>2. CASE /\ work' = [work EXCEPT ![c] = NewRow(request[c])]
           /\ Goto(c, IF request[c].balance = 0 THEN "commit" ELSE "opening")
           /\ UNCHANGED <<wallets, request, tries, reply>>
  <2>1. NewRow(request[c]) \in Rows /\ NewRow(request[c]) # Absent
    BY AskedType, NewRowType DEF InsertWallet, InTx
  <2>2. QED
    BY <1>2, <2>1 DEF Goto, CreationTypeOK, Labels
<1>3. QED
  BY <1>1, <1>2 DEF InsertWallet, Replies

LEMMA CreationTypeStep ==
    ASSUME CreationTypeOK, CallersRight, [CreationNext]_creationVars
    PROVE  CreationTypeOK'
<1>1. CASE UNCHANGED creationVars
  BY <1>1 DEF creationVars, CreationTypeOK
<1>2. ASSUME NEW c \in Callers, NEW r \in Requests, Create(c, r) PROVE CreationTypeOK'
  <2>1. tries[c] + 1 \in 0 .. Tries
    BY <1>2, WalletCreationAssumption DEF Create, CreationTypeOK
  <2>2. tries' \in [Callers -> 0 .. Tries]
    BY <1>2, <2>1 DEF Create, CreationTypeOK
  <2>3. /\ request' \in [Callers -> Requests \cup {Absent}]
        /\ pc' \in [Callers -> Labels]
        /\ reply' \in [Callers -> Replies \cup {Absent}]
        /\ \A d \in Callers : work'[d] # Absent <=> pc'[d] \notin {"idle", "wallet", "reply"}
    BY <1>2 DEF Create, Goto, CreationTypeOK, Labels, Replies
  <2>4. QED
    BY <1>2, <2>2, <2>3 DEF Create, CreationTypeOK
<1>3. ASSUME NEW c \in Callers, InsertWallet(c) PROVE CreationTypeOK'
  BY <1>3, InsertType DEF CallersRight, CallerRight
<1>4. ASSUME NEW c \in Callers, InsertsPart(c) PROVE CreationTypeOK'
  BY <1>4, PartType
<1>5. ASSUME NEW c \in Callers, CommitWallet(c) PROVE CreationTypeOK'
  <2>1. work[c] \in Rows /\ Id(c) \in WalletIds
    BY <1>5, AskedType DEF CommitWallet, CreationTypeOK, CallersRight, CallerRight
  <2>2. wallets' \in [WalletIds -> Rows \cup {Absent}]
    BY <1>5, <2>1 DEF CommitWallet, CreationTypeOK
  <2>3. reply' \in [Callers -> Replies \cup {Absent}]
    BY <1>5 DEF CommitWallet, CreationTypeOK, Replies
  <2>4. QED
    BY <1>5, <2>2, <2>3 DEF CommitWallet, Goto, CreationTypeOK, Labels
<1>6. ASSUME NEW c \in Callers, Abort(c) PROVE CreationTypeOK'
  BY <1>6, RefuseType DEF Abort, Replies
<1>7. ASSUME NEW c \in Callers, ReceiveReply(c) PROVE CreationTypeOK'
  BY <1>7 DEF ReceiveReply, Goto, CreationTypeOK, Labels
<1>8. QED
  BY <1>1, <1>2, <1>3, <1>4, <1>5, <1>6, <1>7 DEF CreationNext, Step, InsertsPart

-----------------------------------------------------------------------------
(* What an open transaction may rely on.                                   *)

\* A caller that is not c.
Stands(d) ==
    /\ pc'[d] = pc[d] /\ work'[d] = work[d] /\ request'[d] = request[d]
    /\ tries'[d] = tries[d] /\ reply'[d] = reply[d]

Acts(c) ==
    (\E r \in Requests : Create(c, r)) \/ InsertWallet(c) \/ InsertsPart(c) \/ CommitWallet(c)
    \/ Abort(c) \/ ReceiveReply(c)

LEMMA OthersStand ==
    ASSUME CreationTypeOK, NEW c \in Callers, Acts(c), NEW d \in Callers, d # c
    PROVE  Stands(d)
<1> USE DEF CreationTypeOK, Stands, Goto
<1>1. CASE \E r \in Requests : Create(c, r)
  BY <1>1 DEF Create
<1>2. CASE \E answer : Refuse(c, answer)
  BY <1>2 DEF Refuse
<1>3. CASE InsertWallet(c)
  BY <1>2, <1>3 DEF InsertWallet
<1>4. CASE InsertsPart(c)
  BY <1>4 DEF InsertsPart, InsertWager, InsertLedger, InsertProcessed, InsertChanged, InsertPart
<1>5. CASE CommitWallet(c)
  BY <1>5 DEF CommitWallet
<1>6. CASE Abort(c)
  BY <1>2, <1>6 DEF Abort
<1>7. CASE ReceiveReply(c)
  BY <1>7 DEF ReceiveReply
<1>8. QED
  BY <1>1, <1>3, <1>4, <1>5, <1>6, <1>7 DEF Acts

LEMMA StandRight ==
    ASSUME NEW d \in Callers, Stands(d), CallerRight(d), UNCHANGED wallets
    PROVE  CallerRight(d)'
BY DEF Stands, CallerRight, Asked, WorkRight, IdsRight, InTx, Same, Taken, PartsBefore, Id

LEMMA StandApart ==
    ASSUME NEW c \in Callers, NEW d \in Callers, Stands(c), Stands(d), Exclusive(c, d)
    PROVE  Exclusive(c, d)'
BY DEF Stands, Exclusive, Same

\* A caller with nothing inserted is apart from all.
LEMMA NothingApart ==
    ASSUME NEW c \in Callers, work'[c] = Absent
    PROVE  /\ \A d \in Callers : Exclusive(c, d)' /\ Exclusive(d, c)'
           /\ WorkRight(c)'
BY DEF Exclusive, Same, WorkRight

\* The steps after which c has nothing inserted, but for the commit.
LEMMA EmptyRight ==
    ASSUME CreationTypeOK, NEW c \in Callers, CallerRight(c),
           (\E r \in Requests : Create(c, r)) \/ (\E answer \in Replies : pc[c] # "idle" /\ Refuse(c, answer))
           \/ ReceiveReply(c)
    PROVE  CallerRight(c)' /\ work'[c] = Absent /\ UNCHANGED wallets
<1> USE DEF CreationTypeOK, Goto, Labels
<1>1. ASSUME NEW r \in Requests, Create(c, r)
      PROVE  CallerRight(c)' /\ work'[c] = Absent /\ UNCHANGED wallets
  <2>1. /\ request'[c] = r /\ r # Absent /\ tries'[c] = tries[c] + 1 /\ tries[c] \in Nat
        /\ UNCHANGED <<wallets, work>> /\ work[c] = Absent
        /\ pc'[c] = IF Valid(r) THEN "wallet" ELSE "reply"
    BY <1>1, AbsentAssumption, WalletCreationAssumption DEF Create
  <2>2. Asked(c)'
    BY <2>1 DEF Asked, InTx
  <2>3. \A n \in 1 .. Tries : wallets[<<c, n>>] # Absent => n <= tries[c]
    BY DEF CallerRight, IdsRight
  <2>4. tries[c] + 1 \in 1 .. Tries
    BY <1>1, <2>1, WalletCreationAssumption DEF Create
  <2>5. wallets[<<c, tries[c] + 1>>] = Absent
    BY <2>1, <2>3, <2>4
  <2>6. IdsRight(c)'
    BY <2>1, <2>3, <2>5 DEF IdsRight, Id
  <2>7. WorkRight(c)'
    BY <2>1, NothingApart
  <2>8. QED
    BY <2>1, <2>2, <2>6, <2>7 DEF CallerRight
<1>2. ASSUME NEW answer \in Replies, pc[c] # "idle", Refuse(c, answer)
      PROVE  CallerRight(c)' /\ work'[c] = Absent /\ UNCHANGED wallets
  <2>1. work'[c] = Absent /\ pc'[c] = "reply" /\ UNCHANGED <<wallets, request, tries>>
    BY <1>2 DEF Refuse
  <2>2. Asked(c)' /\ IdsRight(c)'
    BY <1>2, <2>1 DEF CallerRight, Asked, IdsRight, InTx
  <2>3. QED
    BY <2>1, <2>2, NothingApart DEF CallerRight
<1>3. CASE ReceiveReply(c)
  <2>1. work'[c] = Absent /\ pc'[c] = "idle" /\ UNCHANGED <<wallets, tries>>
    BY <1>3 DEF ReceiveReply
  <2>2. Asked(c)' /\ IdsRight(c)'
    BY <2>1 DEF CallerRight, Asked, IdsRight, InTx
  <2>3. QED
    BY <2>1, <2>2, NothingApart DEF CallerRight
<1>4. QED
  BY <1>1, <1>2, <1>3

\* The insert of a wallet finds no committed one of its player and currency, and no
\* uncommitted one: it has waited for those.
LEMMA InsertRight ==
    ASSUME CreationTypeOK, CallersRight, NEW c \in Callers, InsertWallet(c), work'[c] # Absent
    PROVE  /\ CallerRight(c)' /\ UNCHANGED wallets
           /\ \A d \in Callers : d # c => Exclusive(c, d)' /\ Exclusive(d, c)'
<1>1. /\ request[c].currency = BRL /\ ~Taken(request[c])
      /\ work' = [work EXCEPT ![c] = NewRow(request[c])]
      /\ Goto(c, IF request[c].balance = 0 THEN "commit" ELSE "opening")
      /\ UNCHANGED <<wallets, request, tries, reply>>
      /\ pc[c] = "wallet" /\ InsertConflicts(c) = {}
  BY DEF InsertWallet, Refuse, CreationTypeOK
<1>2. CallerRight(c) /\ InTx(c) /\ request[c] \in Requests /\ request[c].player \in Players
  BY <1>1, AskedType DEF CallersRight, CallerRight, InTx
<1>3. /\ work'[c] = NewRow(request[c])
      /\ pc'[c] = IF request[c].balance = 0 THEN "commit" ELSE "opening"
  BY <1>1 DEF CreationTypeOK, Goto
<1>4. /\ Same(work'[c], request[c]) /\ work'[c].balance = request[c].balance
      /\ work'[c].parts = {} /\ work'[c] # Absent
  BY <1>2, <1>3, NewRowType
<1>5. WorkRight(c)'
  <2>1. PartsBefore(c)' = {}
    BY <1>1, <1>3 DEF PartsBefore
  <2>2. ~Taken(request[c])'
    BY <1>1 DEF Taken, Same
  <2>3. QED
    BY <1>1, <1>3, <1>4, <2>1, <2>2 DEF WorkRight, Same
<1>6. Asked(c)' /\ IdsRight(c)'
  BY <1>1, <1>2, <1>3 DEF CallerRight, Asked, IdsRight, InTx, Id
<1>7. ASSUME NEW d \in Callers, d # c PROVE Exclusive(c, d)' /\ Exclusive(d, c)'
  <2>1. ~Same(work[d], request[c])
    BY <1>1, <1>7 DEF InsertConflicts
  <2>2. Stands(d)
    BY <1>7, OthersStand DEF Acts
  <2>3. Exclusive(c, d)'
    BY <1>1, <2>1, <2>2 DEF Exclusive, Stands, Same
  <2>4. Exclusive(d, c)'
    <3>1. WorkRight(d)
      BY DEF CallersRight, CallerRight
    <3>2. work[d] # Absent => Same(work[d], request[d])
      BY <3>1 DEF WorkRight
    <3>3. QED
      BY <1>1, <1>4, <2>1, <2>2, <3>2 DEF Exclusive, Stands, Same
  <2>5. QED
    BY <2>3, <2>4
<1>8. QED
  BY <1>1, <1>5, <1>6, <1>7 DEF CallerRight

LEMMA PartRight ==
    ASSUME CreationTypeOK, CallersRight, NEW c \in Callers, InsertsPart(c)
    PROVE  /\ CallerRight(c)' /\ UNCHANGED wallets
           /\ \A d \in Callers : d # c => Exclusive(c, d)' /\ Exclusive(d, c)'
<1>1. PICK part \in Parts, here \in Labels, next \in Labels :
             /\ InsertPart(c, here, part, next)
             /\ <<here, part, next>> \in
                  {<<"opening", "OPENING", "entry">>, <<"entry", "entry", "processed">>,
                   <<"processed", "Processed", "changed">>, <<"changed", "BalanceChanged", "commit">>}
  BY PartShape
<1>2. /\ work' = [work EXCEPT ![c] = [work[c] EXCEPT !.parts = work[c].parts \cup {part}]]
      /\ pc[c] = here /\ pc'[c] = next /\ UNCHANGED <<wallets, request, tries, reply>>
  BY <1>1 DEF InsertPart, Goto, CreationTypeOK
<1>3. work[c] \in Rows /\ work[c] # Absent
  BY PartType, RowType
<1>4. /\ work'[c] # Absent
      /\ work'[c].player = work[c].player /\ work'[c].currency = work[c].currency
      /\ work'[c].balance = work[c].balance /\ work'[c].parts = work[c].parts \cup {part}
  <2> DEFINE row == [work[c] EXCEPT !.parts = work[c].parts \cup {part}]
  <2>1. /\ row # Absent /\ row.player = work[c].player /\ row.currency = work[c].currency
        /\ row.balance = work[c].balance /\ row.parts = work[c].parts \cup {part}
    BY <1>3, RowType
  <2>2. work' = [work EXCEPT ![c] = row]
    BY <1>2
  <2> HIDE DEF row
  <2>3. work'[c] = row
    BY <2>2 DEF CreationTypeOK
  <2>4. QED
    BY <2>1, <2>3
<1>5. CallerRight(c) /\ here # "commit"
  BY <1>1 DEF CallersRight
<1>6. PartsBefore(c)' = PartsBefore(c) \cup {part}
  <2>1. request[c].balance # 0
    BY <1>2, <1>3, <1>5 DEF CallerRight, WorkRight
  <2>2. QED
    BY <1>1, <1>2, <2>1 DEF PartsBefore, Parts
<1>7. WorkRight(c)'
  <2>1. /\ Same(work[c], request[c]) /\ work[c].balance = request[c].balance
        /\ request[c].currency = BRL /\ work[c].parts = PartsBefore(c)
        /\ request[c].balance # 0 /\ ~Taken(request[c])
    BY <1>2, <1>3, <1>5 DEF CallerRight, WorkRight
  <2>2. ~Taken(request[c])'
    BY <1>2, <2>1 DEF Taken, Same
  <2>3. QED
    BY <1>2, <1>4, <1>6, <2>1, <2>2 DEF WorkRight, Same
<1>8. Asked(c)' /\ IdsRight(c)'
  BY <1>1, <1>2, <1>5 DEF CallerRight, Asked, IdsRight, InTx, Id
<1>9. ASSUME NEW d \in Callers, d # c PROVE Exclusive(c, d)' /\ Exclusive(d, c)'
  <2>1. Stands(d) /\ Exclusive(c, d) /\ Exclusive(d, c)
    BY <1>9, OthersStand DEF Acts, CallersRight
  <2>2. QED
    BY <1>2, <1>3, <1>4, <2>1 DEF Exclusive, Stands, Same
<1>10. QED
  BY <1>2, <1>7, <1>8, <1>9 DEF CallerRight


\* A commit adds the wallet of its caller, as it is in the transaction.
LEMMA WalletCommitted ==
    ASSUME CreationTypeOK, CallersRight, NEW c \in Callers, CommitWallet(c)
    PROVE  /\ Id(c) \in WalletIds /\ wallets[Id(c)] = Absent /\ wallets'[Id(c)] = work[c]
           /\ \A i \in WalletIds : i # Id(c) => wallets'[i] = wallets[i]
           /\ work[c] \in Rows /\ work[c] # Absent
           /\ Same(work[c], request[c]) /\ work[c].balance = request[c].balance
           /\ request[c].currency = BRL /\ request[c].balance >= 0
           /\ work[c].parts = IF request[c].balance = 0 THEN {} ELSE Parts
           /\ ~Taken(request[c])
           /\ pc'[c] = "reply" /\ work'[c] = Absent /\ UNCHANGED <<request, tries>>
<1>1. CallerRight(c) /\ pc[c] = "commit"
  BY DEF CallersRight, CommitWallet
<1>2. work[c] \in Rows /\ work[c] # Absent
  BY <1>1, AbsentAssumption DEF CreationTypeOK
<1>3. Id(c) \in WalletIds /\ wallets[Id(c)] = Absent /\ request[c].balance >= 0
  BY <1>1, AskedType DEF CallerRight, IdsRight, InTx
<1>4. /\ Same(work[c], request[c]) /\ work[c].balance = request[c].balance
      /\ request[c].currency = BRL /\ ~Taken(request[c])
      /\ work[c].parts = IF request[c].balance = 0 THEN {} ELSE Parts
  BY <1>1, <1>2 DEF CallerRight, WorkRight, PartsBefore
<1>5. /\ wallets' = [wallets EXCEPT ![Id(c)] = work[c]]
      /\ pc'[c] = "reply" /\ work'[c] = Absent /\ UNCHANGED <<request, tries>>
  BY DEF CommitWallet, Goto, CreationTypeOK
<1>6. QED
  BY <1>2, <1>3, <1>4, <1>5 DEF CreationTypeOK

LEMMA CommitRight ==
    ASSUME CreationTypeOK, CallersRight, NEW c \in Callers, CommitWallet(c), NEW d \in Callers
    PROVE  CallerRight(d)'
<1>1. CallerRight(d)
  BY DEF CallersRight
<1>2. CASE d = c
  <2>1. Asked(c)'
    BY <1>1, <1>2, WalletCommitted DEF CallerRight, Asked, InTx, CommitWallet
  <2>2. IdsRight(c)'
    <3>1. ASSUME NEW n \in 1 .. Tries, wallets'[<<c, n>>] # Absent PROVE n <= tries[c]
      <4>1. CASE n = tries[c]
        BY <4>1
      <4>2. CASE n # tries[c]
        <5>1. <<c, n>> \in WalletIds /\ <<c, n>> # Id(c)
          BY <4>2 DEF WalletIds, Id
        <5>2. QED
          BY <1>1, <1>2, <3>1, <5>1, WalletCommitted DEF CallerRight, IdsRight
      <4>3. QED
        BY <4>1, <4>2
    <3>2. QED
      BY <3>1, WalletCommitted DEF IdsRight, InTx
  <2>3. WorkRight(c)'
    BY WalletCommitted, NothingApart
  <2>4. QED
    BY <1>2, <2>1, <2>2, <2>3 DEF CallerRight
<1>3. CASE d # c
  <2>1. Stands(d) /\ Exclusive(d, c)
    BY <1>3, OthersStand DEF Acts, CallersRight
  <2>2. Asked(d)'
    BY <1>1, <2>1 DEF CallerRight, Asked, InTx, Stands
  <2>3. IdsRight(d)'
    <3>1. \A n \in 1 .. Tries : wallets'[<<d, n>>] = wallets[<<d, n>>]
      <4>1. \A n \in 1 .. Tries : <<d, n>> \in WalletIds /\ <<d, n>> # Id(c)
        BY <1>3 DEF WalletIds, Id
      <4>2. QED
        BY <4>1, WalletCommitted
    <3>2. InTx(d) => tries[d] \in 1 .. Tries
      BY <1>1, AskedType DEF CallerRight, InTx
    <3>3. QED
      BY <1>1, <2>1, <3>1, <3>2 DEF CallerRight, IdsRight, InTx, Stands, Id
  <2>4. WorkRight(d)'
    <3>1. CASE work[d] = Absent
      BY <2>1, <3>1 DEF WorkRight, Stands
    <3>2. CASE work[d] # Absent
      <4>1. Same(work[d], request[d]) /\ ~Taken(request[d])
        BY <1>1, <3>2 DEF CallerRight, WorkRight
      <4>2. ~Same(work[c], request[d])
        BY <2>1, <4>1 DEF Exclusive
      <4>3. \A i \in WalletIds : ~Same(wallets'[i], request[d])
        BY <4>1, <4>2, WalletCommitted DEF Taken
      <4>4. ~Taken(request[d])'
        BY <2>1, <4>3 DEF Taken, Same, Stands
      <4>5. QED
        BY <1>1, <2>1, <3>2, <4>4 DEF CallerRight, WorkRight, Stands, Same, PartsBefore
    <3>3. QED
      BY <3>1, <3>2
  <2>5. QED
    BY <2>2, <2>3, <2>4 DEF CallerRight
<1>4. QED
  BY <1>2, <1>3

LEMMA CallersStep ==
    ASSUME CreationTypeOK, CallersRight, [CreationNext]_creationVars
    PROVE  CallersRight'
<1>1. ASSUME NEW c \in Callers, Acts(c), UNCHANGED wallets, CallerRight(c)',
             \A d \in Callers : d # c => Exclusive(c, d)' /\ Exclusive(d, c)'
      PROVE  CallersRight'
  <2>1. ASSUME NEW d \in Callers PROVE CallerRight(d)'
    BY <1>1, OthersStand, StandRight DEF CallersRight
  <2>2. ASSUME NEW d \in Callers, NEW e \in Callers, d # e PROVE Exclusive(d, e)'
    <3>1. CASE d = c \/ e = c
      BY <1>1, <2>2, <3>1
    <3>2. CASE d # c /\ e # c
      BY <1>1, <2>2, <3>2, OthersStand, StandApart DEF CallersRight
    <3>3. QED
      BY <3>1, <3>2
  <2>3. QED
    BY <2>1, <2>2 DEF CallersRight
<1>2. ASSUME NEW c \in Callers, Acts(c),
             (\E r \in Requests : Create(c, r)) \/ (\E answer \in Replies : pc[c] # "idle" /\ Refuse(c, answer))
             \/ ReceiveReply(c)
      PROVE  CallersRight'
  BY <1>1, <1>2, EmptyRight, NothingApart DEF CallersRight
<1>3. ASSUME NEW c \in Callers, InsertWallet(c) PROVE CallersRight'
  <2>1. CASE work'[c] # Absent
    BY <1>1, <1>3, <2>1, InsertRight DEF Acts
  <2>2. CASE work'[c] = Absent
    <3>1. ~(work' = [work EXCEPT ![c] = NewRow(request[c])])
      <4>1. NewRow(request[c]) # Absent
        BY <1>3, AskedType, NewRowType DEF InsertWallet, InTx, CallersRight, CallerRight
      <4>2. QED
        BY <2>2, <4>1 DEF CreationTypeOK
    <3>2. \E answer \in Replies : pc[c] # "idle" /\ Refuse(c, answer)
      BY <1>3, <3>1 DEF InsertWallet, Replies
    <3>3. QED
      BY <1>2, <1>3, <3>2 DEF Acts
  <2>3. QED
    BY <2>1, <2>2
<1>4. ASSUME NEW c \in Callers, InsertsPart(c) PROVE CallersRight'
  BY <1>1, <1>4, PartRight DEF Acts
<1>5. ASSUME NEW c \in Callers, CommitWallet(c) PROVE CallersRight'
  <2>1. ASSUME NEW d \in Callers PROVE CallerRight(d)'
    BY <1>5, CommitRight
  <2>2. ASSUME NEW d \in Callers, NEW e \in Callers, d # e PROVE Exclusive(d, e)'
    <3>1. CASE d = c \/ e = c
      BY <1>5, <3>1, WalletCommitted, NothingApart
    <3>2. CASE d # c /\ e # c
      BY <1>5, <2>2, <3>2, OthersStand, StandApart DEF CallersRight, Acts
    <3>3. QED
      BY <3>1, <3>2
  <2>3. QED
    BY <2>1, <2>2 DEF CallersRight
<1>6. ASSUME NEW c \in Callers, Abort(c) PROVE CallersRight'
  BY <1>2, <1>6 DEF Abort, Replies, Acts
<1>7. CASE UNCHANGED creationVars
  BY <1>7, StandRight, StandApart DEF creationVars, CallersRight, Stands
<1>8. QED
  BY <1>2, <1>3, <1>4, <1>5, <1>6, <1>7 DEF CreationNext, Step, InsertsPart, Acts

-----------------------------------------------------------------------------
(* The wallets and the answers.                                            *)

LEMMA StepKinds ==
    ASSUME CreationTypeOK, [CreationNext]_creationVars
    PROVE  UNCHANGED wallets \/ \E c \in Callers : CommitWallet(c)
BY DEF CreationNext, Step, creationVars, Create, InsertWallet, InsertWager, InsertLedger, InsertProcessed,
   InsertChanged, InsertPart, Abort, Refuse, ReceiveReply

LEMMA WalletsStep ==
    ASSUME WalletsSound, CallersRight, [CreationNext]_creationVars
    PROVE  WalletsSound'
<1>1. CreationTypeOK /\ CreationTypeOK'
  BY CreationTypeStep DEF WalletsSound
<1>2. CASE UNCHANGED wallets
  BY <1>1, <1>2 DEF WalletsSound, OneWalletPerPlayer, WalletsComplete, Same
<1>3. ASSUME NEW c \in Callers, CommitWallet(c) PROVE OneWalletPerPlayer' /\ WalletsComplete'
  <2>1. ASSUME NEW i \in WalletIds, NEW j \in WalletIds, wallets'[i] # Absent, Same(wallets'[j], wallets'[i])
        PROVE  i = j
    <3>1. \A k \in WalletIds : ~Same(wallets[k], request[c])
      BY <1>1, <1>3, WalletCommitted DEF Taken
    <3>2. \A k \in WalletIds : ~(Same(wallets[k], work[c]) \/ (wallets[k] # Absent /\ Same(work[c], wallets[k])))
      BY <1>1, <1>3, <3>1, WalletCommitted DEF Same
    <3>3. CASE i = Id(c) /\ j # Id(c)
      BY <1>1, <1>3, <2>1, <3>2, <3>3, WalletCommitted
    <3>4. CASE i # Id(c) /\ j = Id(c)
      BY <1>1, <1>3, <2>1, <3>2, <3>4, WalletCommitted
    <3>5. CASE i # Id(c) /\ j # Id(c)
      BY <1>1, <1>3, <2>1, <3>5, WalletCommitted DEF WalletsSound, OneWalletPerPlayer
    <3>6. QED
      BY <3>3, <3>4, <3>5
  <2>2. ASSUME NEW i \in WalletIds, wallets'[i] # Absent
        PROVE  /\ wallets'[i].currency = BRL /\ wallets'[i].balance >= 0
               /\ wallets'[i].parts = IF wallets'[i].balance = 0 THEN {} ELSE Parts
    <3>1. CASE i = Id(c)
      BY <1>1, <1>3, <3>1, WalletCommitted DEF Same
    <3>2. CASE i # Id(c)
      BY <1>1, <1>3, <2>2, <3>2, WalletCommitted DEF WalletsSound, WalletsComplete
    <3>3. QED
      BY <3>1, <3>2
  <2>3. OneWalletPerPlayer'
    BY <2>1 DEF OneWalletPerPlayer, Same
  <2>4. WalletsComplete'
    BY <2>2 DEF WalletsComplete
  <2>5. QED
    BY <2>3, <2>4
<1>4. QED
  BY <1>1, <1>2, <1>3, StepKinds DEF WalletsSound

\* What c was told.
Told(c) ==
    pc[c] = "reply" =>
        /\ reply[c] = "CREATED" => /\ Same(wallets[Id(c)], request[c])
                                   /\ wallets[Id(c)].balance = request[c].balance
        /\ reply[c] = "CONFLICT" => Taken(request[c]) /\ wallets[Id(c)] = Absent

\* A wallet stays as it was committed.
LEMMA WalletsStay ==
    ASSUME CreationTypeOK, CallersRight, [CreationNext]_creationVars
    PROVE  \A i \in WalletIds : wallets[i] # Absent => wallets'[i] = wallets[i]
BY StepKinds, WalletCommitted

LEMMA AnswerStep ==
    ASSUME CreationTypeOK, CallersRight, NEW c \in Callers, Acts(c), [CreationNext]_creationVars
    PROVE  Told(c)'
<1>1. CASE pc'[c] # "reply" \/ reply'[c] \notin {"CREATED", "CONFLICT"}
  BY <1>1 DEF Told
<1>2. CASE InsertWallet(c)
  <2>1. CASE Refuse(c, "CONFLICT") /\ Taken(request[c])
    <3>1. /\ pc'[c] = "reply" /\ reply'[c] = "CONFLICT"
          /\ UNCHANGED <<wallets, request, tries>>
      BY <2>1 DEF Refuse, Goto, CreationTypeOK
    <3>2. wallets[Id(c)] = Absent
      BY <1>2 DEF InsertWallet, CallersRight, CallerRight, IdsRight, InTx
    <3>3. Taken(request[c])'
      BY <2>1, <3>1 DEF Taken, Same
    <3>4. QED
      BY <3>1, <3>2, <3>3 DEF Told, Id
  <2>2. CASE Refuse(c, "ERROR")
    BY <1>1, <2>2 DEF Refuse, CreationTypeOK
  <2>3. CASE Goto(c, IF request[c].balance = 0 THEN "commit" ELSE "opening")
    BY <1>1, <2>3 DEF Goto, CreationTypeOK
  <2>4. QED
    BY <1>2, <2>1, <2>2, <2>3 DEF InsertWallet
<1>3. CASE CommitWallet(c)
  <2>1. reply'[c] \in {"CREATED", "ERROR"}
    BY <1>3 DEF CommitWallet, CreationTypeOK
  <2>2. /\ Same(wallets'[Id(c)], request[c])
        /\ wallets'[Id(c)].balance = request[c].balance
        /\ UNCHANGED <<request, tries>>
    BY <1>3, WalletCommitted
  <2>3. QED
    BY <2>1, <2>2 DEF Told, Id, Same
<1>4. CASE \E r \in Requests : Create(c, r)
  BY <1>1, <1>4 DEF Create, Goto, CreationTypeOK
<1>5. CASE InsertsPart(c)
  BY <1>1, <1>5 DEF InsertsPart, InsertWager, InsertLedger, InsertProcessed, InsertChanged,
     InsertPart, Goto, CreationTypeOK
<1>6. CASE Abort(c)
  BY <1>1, <1>6 DEF Abort, Refuse, CreationTypeOK
<1>7. CASE ReceiveReply(c)
  BY <1>1, <1>7 DEF ReceiveReply, Goto, CreationTypeOK
<1>8. QED
  BY <1>2, <1>3, <1>4, <1>5, <1>6, <1>7 DEF Acts

LEMMA AnswersStep ==
    ASSUME CreationTypeOK, CallersRight, AnswersTrue, [CreationNext]_creationVars
    PROVE  AnswersTrue'
<1>1. ASSUME NEW c \in Callers, Stands(c) PROVE Told(c)'
  <2>1. Told(c) /\ Asked(c)
    BY DEF AnswersTrue, Told, CallersRight, CallerRight
  <2>2. CASE pc[c] # "reply"
    BY <1>1, <2>2 DEF Told, Stands
  <2>3. CASE pc[c] = "reply"
    <3>1. Id(c) \in WalletIds /\ Id(c)' = Id(c) /\ request'[c] = request[c] /\ reply'[c] = reply[c]
      BY <1>1, <2>1, <2>3, AskedType DEF Stands, Id
    <3>2. reply[c] = "CREATED" => wallets[Id(c)] # Absent
      BY <2>1, <2>3 DEF Told, Same
    <3>3. reply[c] = "CREATED" => wallets'[Id(c)] = wallets[Id(c)]
      BY <3>1, <3>2, WalletsStay
    <3>4. reply[c] = "CONFLICT" => Taken(request[c])'
      BY <1>1, <2>1, <2>3, WalletsStay DEF Told, Taken, Same, Stands
    <3>5. reply[c] = "CONFLICT" => wallets'[Id(c)] = Absent
      <4>1. ASSUME NEW d \in Callers, CommitWallet(d) PROVE Id(d) # Id(c)
        BY <2>3, <4>1 DEF CommitWallet, Id
      <4>2. QED
        BY <2>1, <2>3, <3>1, <4>1, StepKinds, WalletCommitted DEF Told
    <3>6. QED
      BY <2>1, <2>3, <3>1, <3>3, <3>4, <3>5 DEF Told, Same
  <2>4. QED
    BY <2>2, <2>3
<1>2. ASSUME NEW c \in Callers, Acts(c), NEW d \in Callers PROVE Told(d)'
  BY <1>1, <1>2, AnswerStep, OthersStand
<1>3. ASSUME UNCHANGED creationVars, NEW d \in Callers PROVE Told(d)'
  BY <1>1, <1>3 DEF creationVars, Stands
<1>4. \A d \in Callers : Told(d)'
  BY <1>2, <1>3 DEF CreationNext, Step, InsertsPart, Acts
<1>5. QED
  BY <1>4 DEF Told, AnswersTrue, Id, Taken, Same

LEMMA CreationInductive == CreationSpec => []CreationInv
<1>1. CreationInv /\ [CreationNext]_creationVars => CreationInv'
  BY WalletsStep, CallersStep, AnswersStep DEF CreationInv, WalletsSound
<1>2. QED
  BY <1>1, InitCreation, PTL DEF CreationSpec

\* The table of wallets, for any number of callers, players and retries: one wallet per
\* player and currency, each with its OPENING wager, its ledger entry and its events.
THEOREM WalletsAlwaysSound == CreationSpec => []WalletsSound
<1>1. CreationInv => WalletsSound
  BY DEF CreationInv
<1>2. QED
  BY <1>1, CreationInductive, PTL

\* CREATED is said of a committed wallet as asked for, CONFLICT of a request that a
\* committed wallet has forestalled and that has left nothing behind.
THEOREM AnswersAlwaysTrue == CreationSpec => []AnswersTrue
<1>1. CreationInv => AnswersTrue
  BY DEF CreationInv
<1>2. QED
  BY <1>1, CreationInductive, PTL
=============================================================================
