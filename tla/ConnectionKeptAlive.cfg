SPECIFICATION FairSpec
CONSTANTS
    Unknown = Unknown
    MaxBacklog = 1
PROPERTIES
    KeptAlive
