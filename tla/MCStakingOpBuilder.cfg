SPECIFICATION Spec
CONSTANTS
    b1 = b1
    s1 = s1
    s2 = s2
    k1 = k1
    k2 = k2
    public1 = public1
    None = None
    Builder = {b1}
    StakingAddress = {s1, s2}
    Chain = {"main", "test"}
    KeyPair = {k1, k2, public1}
    HasPrivateKey = {k1, k2}
    StakingOf <- MCStakingOf
    NonceModulus = 2
INVARIANTS
    TypeOK
    ExportVerifies
    VerifiedIsAuthentic
