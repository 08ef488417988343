SPECIFICATION RSpec
CONSTANTS
    Users = {u1, u2}
    NoUser = NoUser
    Groups = {g1}
    Invites = {i1}
    JoinRequests = {j1}
    Handlers = {h1}
    Sockets = {s1}
    LoseReplies = FALSE
SYMMETRY Symmetry
INVARIANT LeaversHearNothing
CHECK_DEADLOCK FALSE
