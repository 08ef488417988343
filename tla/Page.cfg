SPECIFICATION FairSpec
CONSTANTS
    Groups = {g, b}
    Broken = {b}
    None = None
    MaxPending = 2
INVARIANT TypeOK
INVARIANT OneGroupNoMixUp
PROPERTY OwnKeyArrives
CHECK_DEADLOCK FALSE
