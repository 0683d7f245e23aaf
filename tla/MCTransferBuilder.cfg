SPECIFICATION Spec
CONSTANTS
    b1 = b1
    b2 = b2
    i1 = i1
    i2 = i2
    i3 = i3
    o1 = o1
    o2 = o2
    v1 = v1
    k1 = k1
    k2 = k2
    single = single
    multi = multi
    devnet = devnet
    None = None
    Builder = {b1, b2}
    Network <- MCNetwork
    Address = {single, multi, devnet}
    Input = {i1, i2, i3}
    Output = {o1, o2}
    ViewKey = {v1}
    KeyPair = {k1, k2}
    AddressOf <- MCAddressOf
    NetOf <- MCNetOf
    ValueOf <- MCValueOf
    SignerAddress <- MCSignerAddress
    HasPrivateKey = {k1}
    Offered <- MCOffered
    MinFee = 1
    MaxInputs = 2
    MaxOutputs = 1
    MaxViewKeys = 1
INVARIANTS
    TypeOK
    CacheIsCurrent
    WitnessesCoverTxId
    ExportedIsValid
    ExportedOnOneNetwork
PROPERTIES
    SignaturesAreKept
    ImplementsPromise
