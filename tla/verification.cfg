SPECIFICATION Spec
CONSTANTS
    app = app
    tool = tool
    odd = odd
    keyA = keyA
    keyB = keyB
    webhook1 = webhook1
    webhook2 = webhook2
    Unset = Unset
    Empty = Empty
    None = None
    Image <- Images
    Malformed <- OddImages
    Key <- Keys
    SignedBy <- Signatures
    Logged <- InTheLog
    PodEnv <- PodEnvs
    Contents <- DotEnvs
    Sender <- TwoSenders
    TmpWritable = TRUE
    MaxFaults = 1
INVARIANTS
    TypeOK
    NoKeyFileLeft
    NilMeansSigned
    Precedence
    SignedImageVerifies
PROPERTY NeverOverrides
CHECK_DEADLOCK FALSE
