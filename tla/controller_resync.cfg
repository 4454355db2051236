SPECIFICATION ResyncSpec
CONSTANTS
    acme = acme
    blue = blue
    tenantA = tenantA
    tenantB = tenantB
    default = default
    Cluster = Cluster
    None = None
    Foreign = Foreign
    Tenant <- OneTenant
    Namespace <- OneNs
    NsOf <- OneNsOf
    HomeOf <- OneHome
    TenantUid <- MCUids
    NsUid <- MCUids
    Intruders <- AnybodyElse
    MaxDisruptions = 3
PROPERTIES
    Convergence
    Calm
    LifecycleSteps
CHECK_DEADLOCK FALSE
