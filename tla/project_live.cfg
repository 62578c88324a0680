\* Creations and deletions that fail half way, synchronised and tried again and
\* again.
SPECIFICATION FairSpec
CONSTANTS
    p1 = p1  p2 = p2  p3 = p3  n1 = n1  n2 = n2  r1 = r1  r2 = r2
    Workspaces = {1}
    Projects = {p1, p2}
    Namespaces = {n1}
    FirstNames <- NoneFirst
    Requests = {r1, r2}
    Ops = {"create", "rename", "delete", "assign", "release", "sync", "infra"}
    None = None
PROPERTIES DeletionCompletes EveryNamespaceIsHomed
\* The instance stops when its ids are used up.
CHECK_DEADLOCK FALSE
