\* Requests one at a time, among which single statements come.
SPECIFICATION Spec
CONSTANTS
    o1 = o1  o2 = o2  o3 = o3  o4 = o4  a = a  b = b  u1 = u1  r1 = r1  r2 = r2
    Orgs = {o1, o2, o3, o4}
    Names = {a}
    Users = {u1}
    MaxDepth = 3
    CodeLevels = 3
    PerLevel = 2
    Seed <- SameNames
    Requests = {r1}
    Ops = {"create", "typed", "move", "update", "delete", "cascade", "seed"}
    None = None
SYMMETRY IdSymmetry
INVARIANTS Forest CodesFollowTree DepthBounded
\* The instance stops when its ids are used up.
CHECK_DEADLOCK FALSE
