SPECIFICATION GrantsSpec
CONSTANTS
    c1 = c1
    c2 = c2
    s1 = s1
    s2 = s2
    s3 = s3
    admin = admin
    manager = manager
    inspector = inspector
    read = read
    write = write
    None = None
    Clients = {c1, c2}
    Sites = {s1, s2, s3}
    ClientOf <- ClientTable
    DefaultSite <- DefaultSiteTable
    Roles = {admin, manager, inspector}
    ScopeOf <- ScopeTable
    CapabilitiesOf <- CapabilityTable
    Capabilities = {read, write}
    Contexts <- ContextSet
    MaxRows = 3
    MaxInactive = 1
INVARIANTS
    GrantSound
    StaleOnlyExcused
PROPERTIES
    AddNeverWeakens
