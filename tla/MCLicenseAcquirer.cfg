CONSTANTS
    License <- MCLicense
    Feature <- MCFeature
    FeaturesOf <- MCFeaturesOf
    TierName <- MCTierName
    NotBefore <- MCNotBefore
    NotAfter <- MCNotAfter
    TTL = 1
    NoLicense = NoLicense
    Usage = {}
    NoUsage = NoUsage
    UseCache = FALSE
    DiskMayFail = FALSE
    MaxTime = 3
    MaxCopies = 2
    Plan <- MCPlan
    PlanName <- MCPlanName
    Place <- MCPlace
    Issued <- MCLicense
    Claimable <- MCFeature
    NoSecret = NoSecret
    NoTimer = NoTimer
    MaxVersion = 12
    MaxFaults = 2
SPECIFICATION FairSpec
INVARIANTS
    TypeOK
    WakesInTime
    FoundIsDelivered
PROPERTIES
    PlansAreKept
    EventuallyCovered
