SPECIFICATION Spec
CONSTANTS
    Users = {1, 2}
    Requests = {q1, q2, q3, q4}
    Friendships = {f1, f2}
    Handlers = {h1, h2, h3}
SYMMETRY Symmetry
INVARIANT TypeOK
INVARIANT OneFriendshipPerPair
INVARIANT OneRequestPerDirection
PROPERTY FriendsByConsent
CHECK_DEADLOCK FALSE
