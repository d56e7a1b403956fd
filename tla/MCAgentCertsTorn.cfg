CONSTANTS
    NoSecret = NoSecret
    NotHanded = NotHanded
    MaxKeys = 9
    MaxExpiries = 1
    MaxFaults = 2
SPECIFICATION FairSpec
PROPERTIES
    HandedKeyFitsCert
