\* Requests one at a time.
SPECIFICATION Spec
CONSTANTS
    p1 = p1  p2 = p2  p3 = p3  n1 = n1  n2 = n2  r1 = r1  r2 = r2
    Workspaces = {1, 2, 3}
    Projects = {p1, p2, p3}
    Namespaces = {n1, n2}
    FirstNames <- DefaultFirst
    Requests = {r1}
    Ops = {"createWs", "deleteWs", "create", "delete", "assign", "connect", "release", "sync", "apply", "infra"}
    None = None
SYMMETRY IdSymmetry
INVARIANTS OneHome 
\* The instance stops when its ids are used up.
CHECK_DEADLOCK FALSE
