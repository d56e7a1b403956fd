CONSTANTS
    License <- MCLicense
    Feature <- MCFeature
    FeaturesOf <- MCFeaturesOf
    TierName <- MCTierName
    NotBefore <- MCNotBefore
    NotAfter <- MCNotAfter
    TTL = 1
    NoLicense = NoLicense
    Free = Free
    MaxTime = 3
    MaxLen = 5
SPECIFICATION Spec
INVARIANTS TypeOK HeapOrdered
PROPERTIES TurnsAdvance LoopDrains StoreSpec LockIsReleased
