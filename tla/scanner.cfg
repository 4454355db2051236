SPECIFICATION SpecUpToRenaming
CONSTANTS
    acme = acme
    blue = blue
    podA = podA
    podB = podB
    tenantA = tenantA
    tenantB = tenantB
    app = app
    sidecar = sidecar
    None = None
    Tenant <- TwoTenants
    NsOf <- TwoNsOf
    PodKey <- TwoPods
    PodNs <- TwoPodNs
    Image <- TwoImages
    MaxPods = 2
    MaxDisruptions = 1
INVARIANTS
    TypeOK
    QuietScanExact
    OnceAPod
PROPERTY EventuallyEnforced
CHECK_DEADLOCK FALSE
