SPECIFICATION MSSpec
CONSTANTS
    b1 = b1
    i1 = i1
    i2 = i2
    i3 = i3
    o1 = o1
    k1 = k1
    single = single
    multi = multi
    pair = pair
    alice = alice
    bob = bob
    carol = carol
    None = None
    Builder = {b1}
    Network <- MCNetwork
    Address = {single, multi, pair}
    Input = {i1, i2, i3}
    Output = {o1}
    ViewKey = {}
    KeyPair = {k1}
    AddressOf <- MCAddressOf
    NetOf <- MCNetOf
    ValueOf <- MCValueOf
    SignerAddress <- MCSignerAddress
    HasPrivateKey = {k1}
    Offered = {}
    MinFee = 1
    MaxInputs = 2
    MaxOutputs = 1
    MaxViewKeys = 0
    Signer = {alice, bob, carol}
    BuilderArgs <- MCBuilderArgs
    MultiSigAddress <- MCMultiSigAddress
    Proofs <- MCProofs
    MaxSessions = 2
INVARIANT
    ThresholdSigned
PROPERTY
    EventuallyCompleted
CHECK_DEADLOCK FALSE
