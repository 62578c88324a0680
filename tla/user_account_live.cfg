\* Withdrawals and logins that are retried, while the row may be deleted, its
\* account with it or not.
SPECIFICATION FairSpec
CONSTANTS
    k1 = k1  k2 = k2  alice = alice  bob = bob
    i1 = i1  i2 = i2  r1 = r1  r2 = r2
    KcIds = {k1}
    Names = {alice, bob}
    NameOf <- OneName
    Ids = {i1, i2}
    Requests = {r1, r2}
    RoleKinds = {"platform"}
    Ops = {"signup", "approve", "sync", "ask", "process", "delete"}
    None = None
PROPERTIES WithdrawalCompletes 
\* The instance stops when its ids are used up.
CHECK_DEADLOCK FALSE
