CONSTANTS
    License <- MCLicense
    Feature <- MCFeature
    FeaturesOf <- MCFeaturesOf
    TierName <- MCTierName
    NotBefore <- MCNotBefore
    NotAfter <- MCNotAfter
    TTL = 1
    MinRemainingLife = 1
    NoLicense = NoLicense
    Usage <- MCCall
    NoUsage = NoUsage
    UseCache = TRUE
    DiskMayFail = FALSE
    MaxTime = 1
    MaxCopies = 2
    Call <- MCCall
    Asked <- MCAsked
    IsSpoke = TRUE
    IsACEManaged = TRUE
    Flags <- MCFlags
    Issued = {}
    Delivered <- MCLicense
    Mounted = {}
    NoClaim = NoClaim
    MaxFaults = 2
SPECIFICATION FairSpec
INVARIANTS
    BlankMeansClaimed
PROPERTIES
    ClaimKeepsFeatures
    AskIsAnswered
