CONSTANTS
    License <- MCLicense
    Feature <- MCFeature
    FeaturesOf <- MCFeaturesOf
    TierName <- MCTierName
    NotBefore <- MCNotBefore
    NotAfter <- MCNotAfter
    TTL = 1
    MinRemainingLife = 1
    NoLicense = NoLicense
    Usage <- MCCall
    NoUsage = NoUsage
    UseCache = TRUE
    DiskMayFail = FALSE
    MaxTime = 3
    MaxCopies = 2
    Call <- MCCall
    Asked <- MCAsked
    IsSpoke = FALSE
    IsACEManaged = FALSE
    Flags <- MCFlags
    Issued <- MCIssued
    Delivered = {}
    Mounted <- MCMounted
    NoClaim = NoClaim
    MaxFaults = 2
SPECIFICATION Spec
INVARIANTS
    TypeOK
    StoredIsQueued
    NoNeedlessAcquire
    ServedLiveIsKnown
    CacheMirrorsStore
