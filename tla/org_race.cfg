\* Two overlapping requests; what they do to Keycloak they do to one group.
SPECIFICATION Spec
CONSTANTS
    o1 = o1  o2 = o2  o3 = o3  o4 = o4  a = a  b = b  u1 = u1  r1 = r1  r2 = r2
    Orgs = {o1, o2}
    Names = {a}
    Users = {u1}
    MaxDepth = 2
    CodeLevels = 2
    PerLevel = 2
    Seed <- OneSeed
    Requests = {r1, r2}
    Ops = {"create", "move", "update", "delete", "cascade", "assign", "assignDb", "unassign", "unassignDb", "replace"}
    None = None
SYMMETRY IdSymmetry
INVARIANTS TypeOK NothingDangles CodesFollowTree
\* The instance stops when its ids are used up.
CHECK_DEADLOCK FALSE
