CONSTANTS
    License <- MCLicense
    Feature <- MCFeature
    FeaturesOf <- MCFeaturesOf
    TierName <- MCTierName
    NotBefore <- MCNotBefore
    NotAfter <- MCNotAfter
    TTL = 2
    NoLicense = NoLicense
    Usage = {"u"}
    NoUsage = NoUsage
    UseCache = TRUE
    DiskMayFail = TRUE
    MaxTime = 4
    MaxCopies = 2
SPECIFICATION Spec
INVARIANTS
    TypeOK
    StoredIsQueued
    ForgottenIsDead
    LiveQueuedOnce
    ListedIsServable
PROPERTY StoreSpec
