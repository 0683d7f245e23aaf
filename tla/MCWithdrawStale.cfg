SPECIFICATION Spec
CONSTANTS
    b1 = b1
    b2 = b2
    n1 = n1
    n2 = n2
    o1 = o1
    v1 = v1
    k1 = k1
    k2 = k2
    junk = junk
    None = None
    Builder = {b1}
    Nonce = {n1, n2}
    ParseableNonce = {n1}
    Output = {o1}
    ViewKey = {v1}
    KeyPair = {k1, k2}
    HasPrivateKey = {k1}
    Offered <- MCOffered
    Undecodable = {junk}
    MAX_OUTPUT_SIZE = 2
    MaxViewKeys = 1
INVARIANT
    SignaturesAreCleared
