CONSTANTS
    License <- MCLicense
    Feature <- MCFeature
    FeaturesOf <- MCFeaturesOf
    TierName <- MCTierName
    NotBefore <- MCNotBefore
    NotAfter <- MCNotAfter
    TTL = 2
    NoLicense = NoLicense
    Usage = {"u"}
    NoUsage = NoUsage
    UseCache = FALSE
    DiskMayFail = FALSE
    MaxTime = 4
    MaxCopies = 2
    MaxReads = 2
SPECIFICATION StatusSpec
INVARIANTS
    StatusTypeOK
    UsedRowNamesUser
    RotatesIsLifeLeft
