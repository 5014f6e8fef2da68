SPECIFICATION Spec
CONSTANTS
    Users = {u1, u2}
    Platform = Platform
    NoUser = NoUser
    Requests = {p1, p2}
    InviteOnly = FALSE
    Faults = TRUE
    InviteRoles = {"owner", "admin"}
    MaxInvites = 1
SYMMETRY Symmetry
INVARIANTS
    KeepsOwner
    InviteConsumed
    NoOrphans
