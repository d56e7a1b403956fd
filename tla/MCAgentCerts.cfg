CONSTANTS
    NoSecret = NoSecret
    NotHanded = NotHanded
    MaxKeys = 12
    MaxExpiries = 2
    MaxFaults = 3
SPECIFICATION FairSpec
INVARIANTS
    TypeOK
    ChainOfTrust
PROPERTIES
    EventuallyHandedOut
