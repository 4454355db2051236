SPECIFICATION FairSpec
CONSTANTS
    acme = acme
    blue = blue
    tenantA = tenantA
    tenantB = tenantB
    default = default
    Cluster = Cluster
    None = None
    Foreign = Foreign
    Tenant <- OneTenant
    Namespace <- OneNs
    NsOf <- OneNsOf
    HomeOf <- ShippedOneHome
    TenantUid <- MCUids
    NsUid <- MCUids
    Intruders <- NobodyElse
    MaxDisruptions = 1
PROPERTY NamespaceAppears
CHECK_DEADLOCK FALSE
