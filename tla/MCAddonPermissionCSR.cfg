CONSTANTS
    NoAddon = NoAddon
    MaxUID = 1
    MaxFaults = 0
SPECIFICATION FairSpec
PROPERTIES
    AgentIsPermitted
