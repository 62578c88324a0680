\* Two overlapping requests, every operation, every failure.
SPECIFICATION Spec
CONSTANTS
    u1 = u1  w1 = w1  w2 = w2  basic = basic  extra = extra
    i1 = i1  i2 = i2  i3 = i3  r1 = r1  r2 = r2
    Users = {u1}
    Workspaces = {w1}
    Roles = {basic, extra}
    WorkspaceRoles = {basic, extra}
    DefaultRole = basic
    Invitations = {i1, i2}
    Imported = {i2}
    Requests = {r1, r2}
    Ops = {"send", "sendUnread", "accept", "reject", "approve", "rejectByAdmin", "assign",
           "unassign", "add", "remove", "strip", "deleteUser", "deleteWorkspace"}
    None = None
SYMMETRY IdSymmetry
INVARIANTS JoinedOnce
\* The instance stops when its ids are used up.
CHECK_DEADLOCK FALSE
