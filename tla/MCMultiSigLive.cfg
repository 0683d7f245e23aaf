SPECIFICATION FairSpec
CONSTANTS
    alice = alice
    bob = bob
    carol = carol
    Signer = {alice, bob}
    Copy = {1, 2}
    ReAdd = {"reject"}
INVARIANT
    CountsMatch
PROPERTY
    AllSessionsSign
CHECK_DEADLOCK FALSE
