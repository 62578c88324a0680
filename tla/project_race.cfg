\* Two overlapping requests; the operations that project_serial has besides read nothing new.
SPECIFICATION Spec
CONSTANTS
    p1 = p1  p2 = p2  p3 = p3  n1 = n1  n2 = n2  r1 = r1  r2 = r2
    Workspaces = {1, 2}
    Projects = {p1, p2}
    Namespaces = {n1}
    FirstNames <- DefaultFirst
    Requests = {r1, r2}
    Ops = {"renameWs", "deleteWs", "create", "delete", "assign", "release", "sync", "infra"}
    None = None
SYMMETRY IdSymmetry
INVARIANT LinksHaveEnds
\* The instance stops when its ids are used up.
CHECK_DEADLOCK FALSE
