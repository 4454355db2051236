SPECIFICATION Spec
CONSTANTS
    acme = acme
    blue = blue
    podA = podA
    podB = podB
    tenantA = tenantA
    tenantB = tenantB
    app = app
    sidecar = sidecar
    None = None
    Tenant <- OneTenant
    NsOf <- OneNsOf
    PodKey <- OnePod
    PodNs <- OnePodNs
    Image <- OneImage
    MaxPods = 2
    MaxDisruptions = 1
INVARIANT RemovesTheJudged
CHECK_DEADLOCK FALSE
