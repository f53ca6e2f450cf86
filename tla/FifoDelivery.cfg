\* A poison message before two others of its group, a group without one; fewer
\* failures than receives, and as many.
SPECIFICATION FairSpec
CONSTANTS
    Messages = {1, 2, 3, 4}
    Groups = {"g1", "g2"}
    Group <- TwoGroups
    Poison = {1}
    Consumers = {c1, c2}
    BatchSize = 3
    MaxReceives = 2
    MaxFaults = 2
INVARIANTS
    DeliverySound
PROPERTIES
    GoodIsExecuted
    EveryMessageEnds
CHECK_DEADLOCK FALSE
