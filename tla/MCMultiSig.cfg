SPECIFICATION Spec
CONSTANTS
    alice = alice
    bob = bob
    carol = carol
    Signer = {alice, bob, carol}
    Copy = {1}
    ReAdd = {"reject", "accept"}
SYMMETRY SignerSymmetry
INVARIANTS
    CommittedBeforeRevealed
    AllHeldCommitmentsBeforeSigning
    SignatureIsOfAll
PROPERTY
    ImplementsRounds
CHECK_DEADLOCK FALSE
