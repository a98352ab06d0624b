CONSTANTS
    k = k
    k2 = k2
    k3 = k3
    m1 = m1
    m2 = m2
    f1 = f1
    a = a
    b = b
    Channels = {a, b}
    Responsive = {a}
    Micros = {m1, m2, f1}
    KeyBlocks = {k2, k3}
    Ref <- RefChain
    InitTip = k
    Announcements <- Invs
    Forged <- BadInvs
    Attempts = 2
    IsLightMode = TRUE
    None = None
SPECIFICATION Spec
INVARIANTS
    DeliveredOnce
    OneChildRequested
CHECK_DEADLOCK FALSE
PROPERTIES
    NextIsRequested
    DownloadCompletes
