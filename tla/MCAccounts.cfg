SPECIFICATION Spec
CONSTANTS
    Users = {ann, new, oli}
    Seeded = {ann}
    Federated = {oli}
    Passwords = {p1, p2}
    NoPassword = NoPassword
    Roles = {user, lead}
    Newcomer = user
    NoUser = NoUser
    Threads = {1, 2}
    MaxCalls = 4
    MaxFaults = 1
SYMMETRY MCSymmetry
INVARIANTS SerialPasswordEndsSessions SerialOrdersStand LoginIsWhole
CHECK_DEADLOCK FALSE
