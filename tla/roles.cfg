SPECIFICATION RolesSpec
CONSTANTS
    admin = admin
    r2 = r2
    nAdmin = nAdmin
    nMore = nMore
    Roles = {admin, r2}
    Names = {nAdmin}
    InitialName <- MCInitialName
    Predefined = {admin}
    InitialSubs <- MCInitialSubs
    Menus = {menu}
    CspRoles = {c1}
    Users = {ann}
    Groups = {dev}
    AskTypes <- MCAskTypes
    Requests = {q1, q2}
    Ops = {"create", "createTyped", "update", "updateTyped", "delete", "deleteTyped", "deleteCsp", "createCsp", "map", "unmap", "assign", "unassign", "change"}
    None = None
    Calls = {k1, k2}
    RealmNames = {nAdmin, nMore}
    Containing <- MCContaining
    Visitors = {u1}
    Visits = {w1}
    EnvLifespans = {1, 2}
    LeastLifespan = 2
    DefaultLifespan = 2
    RealmLifespan = 1
    AccessClockMax = 4
SYMMETRY SlotSymmetry
CONSTRAINT
    RolesBound
INVARIANTS
    RolesTypeOK
    PredefinedStays
    HoldingsAreTyped
    DanglingMappingsAreLate
    
PROPERTY
    AdmittedHadRole
CHECK_DEADLOCK FALSE
