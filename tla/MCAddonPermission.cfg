CONSTANTS
    NoAddon = NoAddon
    MaxUID = 2
    MaxFaults = 2
SPECIFICATION FairSpec
INVARIANTS
    TypeOK
    UserHasReason
PROPERTIES
    BoundEventually
