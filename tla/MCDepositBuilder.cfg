SPECIFICATION Spec
CONSTANTS
    b1 = b1
    b2 = b2
    p1 = p1
    p2 = p2
    s1 = s1
    s2 = s2
    k1 = k1
    k2 = k2
    junk = junk
    None = None
    Builder = {b1}
    Pointer = {p1, p2}
    StakingAddress = {s1, s2}
    KeyPair = {k1, k2}
    HasPrivateKey = {k1}
    Offered <- MCOffered
    Undecodable = {junk}
    MaxInputs = 2
INVARIANTS
    TypeOK
    RawTxIsCurrent
    SignedSlotsAreCurrent
    ExportedIsSigned
PROPERTY
    ImplementsPromise
