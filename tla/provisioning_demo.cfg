SPECIFICATION Spec
CONSTANTS
    None = None
    Client = {c1}
    Jobs <- OnlyDemo
    MaxFaults = 1
INVARIANT NilMeansProvisioned
CHECK_DEADLOCK FALSE
