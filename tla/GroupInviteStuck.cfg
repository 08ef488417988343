SPECIFICATION Spec
CONSTANTS
    Users = {u1, u2}
    NoUser = NoUser
    Groups = {g1}
    Invites = {i1, i2}
    JoinRequests = {j1}
    Handlers = {h1}
SYMMETRY Symmetry
INVARIANT PendingInviteCanBeAccepted
CHECK_DEADLOCK FALSE
