SPECIFICATION FairSpec
CONSTANTS
    Unknown = Unknown
    MaxBacklog = 2
INVARIANTS
    TypeOK
    WatchesItsSocket
PROPERTIES
    Reconnects
    ChannelIsShown
