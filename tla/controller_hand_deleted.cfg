SPECIFICATION KeptSpec
CONSTANTS
    acme = acme
    blue = blue
    tenantA = tenantA
    tenantB = tenantB
    default = default
    Cluster = Cluster
    None = None
    Foreign = Foreign
    Tenant <- OneTenant
    Namespace <- OneNs
    NsOf <- OneNsOf
    HomeOf <- OneHome
    TenantUid <- MCUids
    NsUid <- MCUids
    Intruders <- NobodyElse
    MaxDisruptions = 2
PROPERTIES
    HandDeletedComesBack
CHECK_DEADLOCK FALSE
