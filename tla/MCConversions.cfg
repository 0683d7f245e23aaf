SPECIFICATION Spec
CONSTANTS
    One = 1000
    Quantum = 10
    CRO_DECIMAL = 10
    MAX_CRO = 3
    Thrown = Thrown
    Placeholder = Placeholder
    Letters = Letters
    Hardened = 100
    MaxDigits = 3
    Rejected = Rejected
    FactorRange = 64
    LeavesRange = 16
    GivenAmount <- MCGivenAmount
    FormatPath <- MCFormatPath
    Arguments <- MCArguments
    MaxSigners = 8
    NoCall = NoCall
INVARIANTS
    AmountIsKept
    GoodAmountIsTaken
    KeysAreDistinct
    LeavesAreChoices
CHECK_DEADLOCK FALSE
