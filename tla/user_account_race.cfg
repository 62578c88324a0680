\* Two requests that overlap; one username, which two Keycloak accounts bear one
\* after the other.
SPECIFICATION Spec
CONSTANTS
    k1 = k1  k2 = k2  alice = alice  bob = bob
    i1 = i1  i2 = i2  r1 = r1  r2 = r2
    KcIds = {k1, k2}
    Names = {alice, bob}
    NameOf <- OneName
    Ids = {i1, i2}
    Requests = {r1, r2}
    RoleKinds = {"platform"}
    Ops = {"create", "signup", "sync", "approve", "updateOn", "updateOff",
           "deactivate", "activate", "ask", "process", "delete", "grant", "reset"}
    None = None
SYMMETRY IdSymmetry
INVARIANTS TypeOK WithdrawnOnlyIfAsked EnabledOnlyIfVetted  NoOrphanMappings
\* The instance stops when its ids are used up.
CHECK_DEADLOCK FALSE
