SPECIFICATION Spec
CONSTANTS
    Users = {u1, u2, u3}
    NoUser = NoUser
    Groups = {g1}
    Invites = {i1, i2}
    JoinRequests = {j1}
    Handlers = {h1, h2}
SYMMETRY Symmetry
INVARIANT TypeOK
INVARIANT OwnerIsMember
INVARIANT MembershipHasOrigin
INVARIANT NothingOutlivesGroup
INVARIANT OneRowPerStatus
PROPERTY AnswerAndAdmissionTogether
CHECK_DEADLOCK FALSE
