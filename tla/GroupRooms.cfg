SPECIFICATION RFairSpec
CONSTANTS
    Users = {u1, u2}
    NoUser = NoUser
    Groups = {g1}
    Invites = {i1}
    JoinRequests = {}
    Handlers = {h1, h2}
    Sockets = {s1}
    LoseReplies = FALSE
INVARIANT RTypeOK
INVARIANT RoomCoverage
INVARIANT RoomsEarned
PROPERTY MembersGetRooms
PROPERTY MembershipKept
CHECK_DEADLOCK FALSE
