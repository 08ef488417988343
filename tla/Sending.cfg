SPECIFICATION FairSpec
CONSTANTS
    Me = me
    Others = {a}
    Groups = {g, h}
    Files <- SendFiles
    NoRow = NoRow
    Images = {i, j}
    Sends = {s}
    Nowhere = Nowhere
INVARIANT STypeOK
INVARIANT RowHasFile
INVARIANT SentImagesOpen
PROPERTY SendingEnds
CHECK_DEADLOCK FALSE
