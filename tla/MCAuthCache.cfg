SPECIFICATION Spec
CONSTANTS
    d = d
    p = p
    secret = secret
    verifier = verifier
    c1 = c1
    c2 = c2
    a = a
    b = b
    None = None
    Devices = {d}
    Products = {p}
    ProductOf <- MCProductOf
    Codecs = {c1, c2}
    Keys = {secret, verifier}
    Verifiers = {verifier}
    DeviceOf <- MCDeviceOf
    Grants <- MCGrants
    Callers = {a, b}
    MaxEntries = 2
    MaxBytes = 2
    MaxWaiters = 1
    PruneBudget = 1
    PositiveBytes = 2
    MaxEpoch = 2
    MaxRevision = 1
SYMMETRY MCSymmetry
INVARIANTS
    RevokedStaysOut
    CacheExact
    MissesLed
    ProfileAgreed
