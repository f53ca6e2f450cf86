SPECIFICATION CreationSpec
CONSTANTS
    Absent = Absent
    BRL = BRL
    Callers = {a, b, d}
    Tries = 2
    Players = {"alice"}
    Currencies = {BRL, USD}
    Balances = {0, 2}
INVARIANTS
    WalletsSound
    AnswersTrue
CHECK_DEADLOCK FALSE
