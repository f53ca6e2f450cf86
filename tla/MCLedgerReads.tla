--------------------------- MODULE MCLedgerReads ---------------------------
(***************************************************************************)
(* A wallet created empty or with 1, two writers and four entries, read in *)
(* pages of one or two entries.                                            *)
(***************************************************************************)
EXTENDS LedgerReads

CONSTANTS t1, t2  \* writers

WriterSymmetry == Permutations(Writers)

EntryIds     == 1 .. 4
OpeningSet   == {0, 1}
AmountSet    == {1}
=============================================================================
