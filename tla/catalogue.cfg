SPECIFICATION CatalogueSpec
CONSTANTS
    home = home
    m2 = m2
    m3 = m3
    ops = ops
    adm = adm
    MenuIds = {home, m2, m3}
    Home = home
    MenuRoles = {adm, ops}
    MenuAdmin = adm
    SeedParent <- MCSeedParent
    SeedMapped <- MCSeedMapped
    MenuJobs = {j1}
    kA = kA
    kB = kB
    kG = kG
    CspKeys = {kA, kB, kG}
    OnAws = {kA, kB}
    CspMax = 2
    CspCalls = {x1, x2}
    f0 = f0
    f1 = f1
    f2 = f2
    spec = spec
    act1 = act1
    act2 = act2
    ApiFiles = {f0, f1, f2}
    ApiSpecs = {spec}
    ApiStamp <- MCApiStamp
    ApiActions <- MCApiActions
    ApiVersions = {v1, v2}
    Permissions = {perm}
    PermRoles = {role}
    ResourceTypes = {kind}
    ApiGenerations = 3
    ApiCalls = {x1, x2}
    label1 = label1
    label2 = label2
    Accounts = {1, 2}
    Idps = {11}
    Policies = {21, 22}
    Companies = {31, 32}
    AccountOf <- MCAccountOf
    PolicyArn <- MCPolicyArn
    AttachRoles = {41}
    Labels = {label1, label2}
    RowCalls = {x1, x2}
    CredMax = 4
    CredCalls = {x1, x2}
    viewer = viewer
    admin = admin
    kAws = kAws
    kTencent = kTencent
    WsRoles = {viewer, admin}
    IssueCsp = {kAws, kTencent}
    IssueCloud <- MCIssueCloud
    IssueCalls = {i1}
SYMMETRY SlotSymmetry
CONSTRAINT
    CatalogueBound
INVARIANTS
    CatalogueTypeOK
    DeletionTakesSubtree
    RestoresWhatItSays
    CreatingIsWatched
    
    
    OneActionPerName
    StampTellsActions
    RowsAsTold
    OneActive
    IssuedWasEntitled
CHECK_DEADLOCK FALSE
