CONSTANTS
    License <- MCLicense
    Feature <- MCFeature
    FeaturesOf <- MCFeaturesOf
    TierName <- MCTierName
    NotBefore <- MCNotBefore
    NotAfter <- MCNotAfter
    TTL = 1
    MinRemainingLife = 1
    NoLicense = NoLicense
    Usage <- MCCall
    NoUsage = NoUsage
    UseCache = TRUE
    DiskMayFail = FALSE
    MaxTime = 2
    MaxCopies = 2
    Call <- MCCall
    Asked <- MCAsked
    IsSpoke = TRUE
    IsACEManaged = TRUE
    Flags <- MCFlags
    Issued <- MCLicense
    Delivered <- MCLicense
    Mounted = {}
    NoClaim = NoClaim
    MaxFaults = 1
    Plan <- MCPlan
    PlanName <- MCPlanName
    Place <- MCPlace
    NoSecret = NoSecret
    MaxVersion = 4
    HubTTL = 2
    NoTimer = NoTimer
SPECIFICATION FedSpec
PROPERTIES
    EndToEnd
