SPECIFICATION FairSpec
CONSTANTS
    acme = acme
    blue = blue
    tenantA = tenantA
    tenantB = tenantB
    default = default
    Cluster = Cluster
    None = None
    Foreign = Foreign
    Tenant <- TwoTenants
    Namespace <- TwoNs
    NsOf <- TwoNsOf
    HomeOf <- TwoHome
    TenantUid <- MCUids
    NsUid <- MCUids
    Intruders <- AnybodyElse
    MaxDisruptions = 2
PROPERTIES
    Convergence
CHECK_DEADLOCK FALSE
