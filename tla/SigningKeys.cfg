\* Two requests at once and three rotations of two keys.
SPECIFICATION Spec
CONSTANTS
    None = None
    Requests = {q1, q2}
    Kids = {k1, k2}
    MaxRotations = 3
INVARIANTS
    AnswersJustified
