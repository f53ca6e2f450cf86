\* Integers of 10 bits, amounts from -5.12 to 5.11: texts of up to five
\* characters reach every boundary of the parser, and doubling a delay overflows.
SPECIFICATION DomainSpec
CONSTANTS
    None = None
    MaxMinor = 1
    Word = 10
    Currencies = {"BRL", "USD"}
    Characters = {"0", "1", "2", "5", "9", ".", "-", " "}
    MaxLength = 5
    Sample = {0, 1, 2, 100}
    Second = 10
    MostDoublings = 5
    Bases = {0, 1, 3, 9, 10, 128, 255, 256, 257, 511}
    Maxima = {0, 1, 7, 10, 127, 128, 129, 255, 256, 257, 400, 510, 511}
    Attempts = {0, 1, 2, 3, 4, 5, 6, 7, 8, 9, 12}
INVARIANTS
    RowsSound
    AmountsAreExact
    DelaysAreExact
    OnlyCurrencyIsRefused
    MismatchExplained
CHECK_DEADLOCK FALSE
