SPECIFICATION ExportSpec
CONSTANTS
    keyBytes = keyBytes
    otherBytes = otherBytes
    Fraction = Fraction
    Infinite = Infinite
    Refused = Refused
    None = None
    Panic = Panic
    NodeEnv = {"test", "integration-test", "production"}
    TendermintAddress <- MCTendermintAddress
    Literal <- MCLiteral
    DevnetOptions <- MCDevnetOptions
    GivenInput <- MCUnusualInput
    GivenOutput <- MCGivenOutput
    GivenNonce = {0, 1, 4, 5}
    GivenViewKey = {keyBytes, otherBytes}
    PublicKey = {keyBytes}
    MaxCoin = 3
    TxoSizeRange = 3
    U64Range = 4
    MilliRange = 2000
    MilliTakes <- MCMilliTakes
    MaxItems = 1
INVARIANT
    TransferInputsAsGiven
