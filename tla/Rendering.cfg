SPECIFICATION FairSpec
CONSTANTS
    Messages = {m, n}
    MaxRuns = 3
INVARIANT TypeOK
INVARIANT ScreenIsCurrent
INVARIANT ShownImagesWork
PROPERTY ScreenSettles
CHECK_DEADLOCK FALSE
